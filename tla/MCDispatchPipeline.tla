------------------------- MODULE MCDispatchPipeline -------------------------
EXTENDS DispatchPipeline, TLC

CONSTANTS s1, s2, g1, g2, g3

\* g1 and g3 are carried by s1, g2 by s2.
MCHome == (g1 :> s1) @@ (g2 :> s2) @@ (g3 :> s1)
=============================================================================
