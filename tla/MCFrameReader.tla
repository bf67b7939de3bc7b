--------------------------- MODULE MCFrameReader ---------------------------
(***************************************************************************)
(* Instances of FrameReader for TLC: bodies that begin or end like a flag, *)
(* and one that usLen cannot tell from an empty one.                       *)
(***************************************************************************)
EXTENDS FrameReader

MCTexts == {<<"x", "W">>, <<"U", "L", "I">>, <<"x", "x", "x", "x">>}
=============================================================================
