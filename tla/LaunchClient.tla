------------------------------ MODULE LaunchClient ------------------------------
(***************************************************************************)
(* Launching clients, and telling the embedder what becomes of them        *)
(* (westeros-compositor.cpp).                                              *)
(*                                                                         *)
(* Actors: the threads of the embedder, each of which launches one client  *)
(* (WstCompositorLaunchClient) and stays in the call until the client has  *)
(* ended; the clients, each named by the thread that launches it; and the  *)
(* compositor thread, which sees clients come and go.  The launching       *)
(* threads and the compositor thread read clientStatusCB without the       *)
(* mutex, which SetClientStatusCallback takes.                             *)
(*                                                                         *)
(* A client's argument list, its environment and its log are left out; so  *)
(* is what it prints, of which the model keeps who can still write it.  A  *)
(* read of an open pipe does not fail.  The context outlives the calls: a  *)
(* Destroy does not wait for them.                                         *)
(***************************************************************************)
CONSTANTS
  Launchers,  \* threads of the embedder that launch, and their clients
  Embedder    \* the embedder's process

ASSUME LaunchAssumption == Embedder \notin Launchers

VARIABLES
  serving,    \* ctx->running
  forwards,   \* WESTEROS_FORWARD_CLIENT_STDOUT is set
  launch,     \* position of each launching thread
  child,      \* what has become of each client's process
  writers,    \* the processes that can write to each launch's pipe
  link,       \* each client's connection: its bind sent, its wl_compositor object
  statusData, \* ctx->clientStatusUserData has been set
  statusCB,   \* ctx->clientStatusCB has been set
  told        \* the latest report of each client (history)

launchVars == <<serving, forwards, launch, child, writers, link, statusData, statusCB, told>>

--------------------------------------------------------------------------------
Ended == {"exited", "killed"}

LaunchInit ==
  /\ serving = TRUE /\ forwards \in BOOLEAN
  /\ launch = [l \in Launchers |-> "idle"]
  /\ child = [l \in Launchers |-> "none"]
  /\ writers = [l \in Launchers |-> {}]
  /\ link = [l \in Launchers |-> "none"]
  /\ statusData = FALSE /\ statusCB = FALSE
  /\ told = [l \in Launchers |-> [status |-> "none", data |-> TRUE]]

\* What the callback hears of l, if there is one; with is the state of the user data.
Report(l, status) ==
  told' = IF statusCB THEN [told EXCEPT ![l] = [status |-> status, data |-> statusData]]
                      ELSE told

\* WstCompositorSetClientStatusCallback, called once: the readers do not take the
\* mutex and may look between the two assignments.
SetClientStatusData ==
  /\ ~statusData
  /\ statusData' = TRUE
  /\ UNCHANGED <<serving, forwards, launch, child, writers, link, statusCB, told>>

\* Variant: the callback is set before its data.
SetClientStatusCallbackFirst ==
  /\ ~statusCB
  /\ statusCB' = TRUE
  /\ UNCHANGED <<serving, forwards, launch, child, writers, link, statusData, told>>

SetClientStatusCallback ==
  /\ statusData /\ ~statusCB
  /\ statusCB' = TRUE
  /\ UNCHANGED <<serving, forwards, launch, child, writers, link, statusData, told>>

\* The compositor stops; the launches of its clients go on.
StopServing ==
  /\ serving
  /\ serving' = FALSE
  /\ UNCHANGED <<forwards, launch, child, writers, link, statusData, statusCB, told>>

--------------------------------------------------------------------------------
(* WstCompositorLaunchClient *)

\* The checks under the mutex; then, without it, the pipe, which may fail to be made:
\* the launch goes on without.
LaunchClient(l) ==
  /\ launch[l] = "idle"
  /\ IF serving
     THEN /\ launch' = [launch EXCEPT ![l] = "prepared"]
          /\ \E piped \in IF forwards THEN BOOLEAN ELSE {FALSE} :
               writers' = [writers EXCEPT ![l] = IF piped THEN {Embedder} ELSE {}]
     ELSE /\ launch' = [launch EXCEPT ![l] = "failed"]
          /\ UNCHANGED writers
  /\ UNCHANGED <<serving, forwards, child, link, statusData, statusCB, told>>

\* The child has every descriptor that the embedder has open, of the pipes of other
\* launches too.
Fork(l) ==
  /\ launch[l] = "prepared"
  /\ launch' = [launch EXCEPT ![l] = "forked"]
  /\ child' = [child EXCEPT ![l] = "forked"]
  /\ writers' = [k \in Launchers |->
                   IF Embedder \in writers[k] THEN writers[k] \cup {l} ELSE writers[k]]
  /\ UNCHANGED <<serving, forwards, link, statusData, statusCB, told>>

\* The pipe, if there is one, stays open.
ForkFails(l) ==
  /\ launch[l] = "prepared"
  /\ launch' = [launch EXCEPT ![l] = "failed"]
  /\ UNCHANGED <<serving, forwards, child, writers, link, statusData, statusCB, told>>

ReportStarted(l) ==
  /\ launch[l] = "forked"
  /\ launch' = [launch EXCEPT ![l] = IF Embedder \in writers[l] THEN "started" ELSE "wait"]
  /\ Report(l, "started")
  /\ UNCHANGED <<serving, forwards, child, writers, link, statusData, statusCB>>

\* Variant: the embedder keeps its writing end.
MonitorBeginsOpen(l) ==
  /\ launch[l] = "started"
  /\ launch' = [launch EXCEPT ![l] = "monitor"]
  /\ UNCHANGED <<serving, forwards, child, writers, link, statusData, statusCB, told>>

\* wstMonitorChildProcessStdout: the writing end is closed first, ...
MonitorBegins(l) ==
  /\ launch[l] = "started"
  /\ launch' = [launch EXCEPT ![l] = "monitor"]
  /\ writers' = [writers EXCEPT ![l] = @ \ {Embedder}]
  /\ UNCHANGED <<serving, forwards, child, link, statusData, statusCB, told>>

\* ... and the end of the file is there once nobody can write any more.
MonitorEnds(l) ==
  /\ launch[l] = "monitor" /\ writers[l] = {}
  /\ launch' = [launch EXCEPT ![l] = "wait"]
  /\ UNCHANGED <<serving, forwards, child, writers, link, statusData, statusCB, told>>

\* waitpid returns when the client has ended.
Reap(l) ==
  /\ launch[l] = "wait" /\ child[l] \in Ended
  /\ launch' = [launch EXCEPT ![l] = child[l]]
  /\ child' = [child EXCEPT ![l] = "reaped"]
  /\ UNCHANGED <<serving, forwards, writers, link, statusData, statusCB, told>>

\* A signal interrupts waitpid: it returns -1, and status is what was on the stack.
ReapInterrupted(l) ==
  /\ launch[l] = "wait"
  /\ launch' = [launch EXCEPT ![l] = "lost"]
  /\ UNCHANGED <<serving, forwards, child, writers, link, statusData, statusCB, told>>

\* The report names the client, or nobody (pid -1) after an interrupted waitpid.
ReportStopped(l) ==
  /\ launch[l] \in Ended \cup {"lost"}
  /\ launch' = [launch EXCEPT ![l] = IF @ = "lost" THEN "abandoned" ELSE "returned"]
  /\ Report(l, launch[l])
  /\ UNCHANGED <<serving, forwards, child, writers, link, statusData, statusCB>>

Launching(l) ==
  \/ Fork(l) \/ ForkFails(l) \/ ReportStarted(l) \/ MonitorBegins(l) \/ MonitorEnds(l)
  \/ Reap(l) \/ ReportStopped(l)

--------------------------------------------------------------------------------
(* The clients *)

\* The child runs its program, or exits with 0 when that fails.
Exec(l) ==
  /\ child[l] = "forked"
  /\ child' = [child EXCEPT ![l] = "client"]
  /\ UNCHANGED <<serving, forwards, launch, writers, link, statusData, statusCB, told>>

\* A process that ends closes what it has open.
ClientEnds(l) ==
  /\ \/ child[l] = "client" /\ \E how \in Ended : child' = [child EXCEPT ![l] = how]
     \/ child[l] = "forked" /\ child' = [child EXCEPT ![l] = "exited"]
  /\ writers' = [k \in Launchers |-> writers[k] \ {l}]
  /\ UNCHANGED <<serving, forwards, launch, link, statusData, statusCB, told>>

SendBind(l) ==
  /\ child[l] = "client" /\ link[l] = "none"
  /\ link' = [link EXCEPT ![l] = "sent"]
  /\ UNCHANGED <<serving, forwards, launch, child, writers, statusData, statusCB, told>>

\* wstCompositorBind, when the compositor thread reads the request: the client may
\* have ended by then.
CompositorBind(l) ==
  /\ link[l] = "sent" /\ serving
  /\ link' = [link EXCEPT ![l] = "bound"]
  /\ Report(l, "connected")
  /\ UNCHANGED <<serving, forwards, launch, child, writers, statusData, statusCB>>

\* wstDestroyCompositorCallback: the client has disconnected, or the compositor does.
CompositorUnbind(l) ==
  /\ link[l] = "bound"
  /\ link' = [link EXCEPT ![l] = "closed"]
  /\ Report(l, "disconnected")
  /\ UNCHANGED <<serving, forwards, launch, child, writers, statusData, statusCB>>

LaunchNext ==
  \/ SetClientStatusData \/ SetClientStatusCallback \/ StopServing
  \/ \E l \in Launchers :
       \/ LaunchClient(l) \/ Launching(l) \/ ReapInterrupted(l)
       \/ Exec(l) \/ ClientEnds(l) \/ SendBind(l)
       \/ CompositorBind(l) \/ CompositorUnbind(l)

--------------------------------------------------------------------------------
(* Properties. *)

LaunchTypeOK ==
  /\ {serving, forwards, statusData, statusCB} \subseteq BOOLEAN
  /\ launch \in [Launchers -> Ended \cup {"idle", "failed", "prepared", "forked", "started",
                                          "monitor", "wait", "lost", "returned",
                                          "abandoned"}]
  /\ child \in [Launchers -> Ended \cup {"none", "forked", "client", "reaped"}]
  /\ writers \in [Launchers -> SUBSET (Launchers \cup {Embedder})]
  /\ link \in [Launchers -> {"none", "sent", "bound", "closed"}]
  /\ told \in [Launchers -> [status : Ended \cup {"none", "started", "lost", "connected",
                                                  "disconnected"},
                             data : BOOLEAN]]

\* Whatever thread reports, the callback gets the data it was set with (the order of
\* the two assignments in SetClientStatusCallback); and a report that a client has
\* ended, which names it, comes after its end, and so does the return of the call,
\* unless a signal has interrupted it (WstCompositorLaunchClient).
ReportsTrue ==
  \A l \in Launchers :
    /\ told[l].data
    /\ told[l].status \in Ended => child[l] = "reaped"
    /\ launch[l] = "returned" => child[l] = "reaped"

Returned(l) == launch[l] \in {"returned", "abandoned"}

\* The client of some launch that still runs can write to l's pipe.
HeldOpen(l) == \E k \in writers[l] \cap Launchers : child[k] \notin Ended \cup {"reaped"}

\* A client that has ended is reported and its launch returns, unless a client that was
\* forked while the pipe was open in the embedder has inherited it and still runs.
EndReturns == \A l \in Launchers : child[l] \in Ended ~> Returned(l) \/ HeldOpen(l)

\* Not so: a call that captures the output of its client returns only when every client
\* that was launched meanwhile has ended as well.
ReturnsWithClient == \A l \in Launchers : child[l] \in Ended ~> Returned(l)

\* Not so: a signal that is delivered to the thread ends the wait (waitpid at C:2476
\* is not repeated on EINTR, as the read at C:8015 is).
BlocksUntilEnd ==
  \A l \in Launchers : Returned(l) => child[l] = "reaped"
================================================================================
