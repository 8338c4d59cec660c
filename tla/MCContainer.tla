---------------------------- MODULE MCContainer ----------------------------
(***************************************************************************)
(* Two tags and three images, one of which does not keep running; the      *)
(* registry may give the default tag that image later.  Two commands at    *)
(* once, three in all.                                                     *)
(***************************************************************************)
EXTENDS ContainerControl, TLC

CONSTANTS latest, v2, imageA, imageB, imageX, p1, p2

MCProc == {p1, p2}
Symmetry == Permutations(MCProc)
MCImage == {imageA, imageB, imageX}
MCGood == {imageA, imageB}
MCTagName == {latest, v2}
MCPublished == (latest :> imageA) @@ (v2 :> imageB)
MCRepublished == (latest :> imageX) @@ (v2 :> imageB)
=============================================================================
