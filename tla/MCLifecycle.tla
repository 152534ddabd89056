------------------------------ MODULE MCLifecycle ------------------------------
(* Lifecycle, with up to MaxThreads starts, and LaunchClient in one instance.  They
   share only the flag running, of which a launch makes one test: a behaviour is of
   one of them, part says of which and never changes.                             *)
EXTENDS Lifecycle, LaunchClient

VARIABLE part

mcVars == <<vars, launchVars, part>>

MCInit == part \in {"starts", "launches"} /\ Init /\ LaunchInit /\ (part = "starts" => ~forwards)

MCNext ==
    \/ part = "starts" /\ Next /\ UNCHANGED <<launchVars, part>>
    \/ part = "launches" /\ LaunchNext /\ UNCHANGED <<vars, part>>

\* Every thread that can go on does: those of Lifecycle's Spec, and those that launch.
MCSpec ==
    /\ MCInit /\ [][MCNext]_mcVars
    /\ WF_mcVars(part = "starts" /\ Returns /\ UNCHANGED <<launchVars, part>>)
    /\ \A t \in Threads : WF_mcVars(part = "starts" /\ Thread(t) /\ UNCHANGED <<launchVars, part>>)
    /\ \A l \in Launchers : WF_mcVars(part = "launches" /\ Launching(l) /\ UNCHANGED <<vars, part>>)
================================================================================
