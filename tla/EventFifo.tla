------------------------------- MODULE EventFifo -------------------------------
(***************************************************************************)
(* What the compositor's input path promises to the code around it: an     *)
(* event handed to WstCompositorKeyEvent, WstCompositorPointer* or         *)
(* WstCompositorResolutionChange* is dispatched by the compositor thread   *)
(* exactly once and in the order of the calls, in batches of everything    *)
(* that has been posted so far.  CompositorLoop is shown to implement it.  *)
(* Events are numbered 1, 2, 3, ... in the order in which they are posted. *)
(***************************************************************************)
EXTENDS Naturals, Sequences

VARIABLES
  sent,        \* number of events posted so far
  received,    \* the events dispatched so far, a sequence of event numbers
  halted       \* the process has been aborted

fifoVars == <<sent, received, halted>>

FifoInit ==
  /\ sent = 0
  /\ received = << >>
  /\ halted = FALSE

Send ==
  /\ ~halted
  /\ sent' = sent + 1
  /\ halted' \in BOOLEAN          \* a full queue aborts the process
  /\ UNCHANGED received

\* Dispatching everything pending appends the next numbers, in order.
DispatchAll ==
  /\ ~halted
  /\ received' = [i \in 1..sent |-> i]
  /\ UNCHANGED <<sent, halted>>

FifoNext == Send \/ DispatchAll

FifoSpec == FifoInit /\ [][FifoNext]_fifoVars
================================================================================
