------------------------------- MODULE MCSink -------------------------------
(* Three parts of westeros-sink in one instance: the element with its decoder's
   buffers and the path of the pictures, on a Raspberry Pi, and the capture of
   frames on a Nexus platform.  The first two share playingVideo and the calls of
   the element, and nothing else that either depends on, and the third is of
   another build, so that a behaviour is of one of them: part says which and never
   changes, and what belongs to the others stays as it began.                   *)
EXTENDS SinkElement, RpiPath, NexusCapture, TLC

VARIABLE part

Init == part \in {"element", "path", "nexus"} /\ SinkInit /\ PathInit /\ NxInit
Next ==
    \/ part = "element" /\ SinkNext /\ UNCHANGED <<pathVars, nxVars, part>>
    \/ part = "path" /\ PathNext /\ UNCHANGED <<sinkVars, nxVars, part>>
    \/ part = "nexus" /\ NxNext /\ UNCHANGED <<sinkVars, pathVars, part>>

Spec == Init /\ [][Next]_<<sinkVars, pathVars, nxVars, part>>

\* The capture surfaces are alike.
Surfaces == Permutations(Surface)
=============================================================================
