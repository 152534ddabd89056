------------------------------ MODULE MCHelpers ------------------------------
(* The libraries beside the compositor in one instance: Essos, and the capture of
   media, its threads and its transport stream.  They share no state: a behaviour is
   of one of them, part says of which and never changes, and what belongs to the
   others stays as it began.  The stream has the video first where it has both.  *)
EXTENDS Essos, MediaCapture, TsMux

VARIABLE part

Init ==
    /\ part \in {"essos", "capture", "stream"} /\ EssInit /\ CapInit /\ MuxInit
    /\ streams # <<"audio", "video">> /\ (part # "stream" => streams = <<"audio">> /\ captureStopTime = None)
Next ==
    \/ part = "essos" /\ EssNext /\ UNCHANGED <<capVars, muxVars, part>>
    \/ part = "capture" /\ CapNext /\ UNCHANGED <<essVars, muxVars, part>>
    \/ part = "stream" /\ MuxNext /\ UNCHANGED <<essVars, capVars, part>>

Spec == Init /\ [][Next]_<<essVars, capVars, muxVars, part>>
=============================================================================
