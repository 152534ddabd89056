------------------------------ MODULE MCRenderers -------------------------------
(* The three renderer modules in one instance.  A compositor loads one of them: part
   says which and never changes, and the others stay as they began.               *)
EXTENDS GlRenderer, EmbRenderer, DmxRenderer

VARIABLE part

Init ==
    /\ part \in {"gl", "embedded", "dispmanx"} /\ GlInit /\ EmbInit /\ DmxInit
    /\ part # "gl" => glBuild = "rpi"
    /\ part # "embedded" => embFollows = "order"
Next ==
    \/ part = "gl" /\ GlNext /\ UNCHANGED <<embVars, dmxVars, part>>
    \/ part = "embedded" /\ EmbNext /\ UNCHANGED <<glVars, dmxVars, part>>
    \/ part = "dispmanx" /\ DmxNext /\ UNCHANGED <<glVars, embVars, part>>

Spec == Init /\ [][Next]_<<glVars, embVars, dmxVars, part>>
=============================================================================
