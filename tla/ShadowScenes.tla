---------------------------- MODULE ShadowScenes ----------------------------
(* Boxes with up to three rectangles, and every position of the light inside *)
(* the box, those on the border and inside of a rectangle included.          *)
EXTENDS Naturals, FiniteSets, SequencesExt

Boxes == {<<2, 2, 2, 2>>, <<2, 6, 5, 1>>, <<6, 1, 2, 4>>, <<5, 8, 4, 1>>,
          <<1, 8, 1, 1>>}

BoxScenes == {SetToSeq(s) : s \in {x \in SUBSET Boxes : Cardinality(x) <= 3}}

BoxLights == (1 .. 9) \X (1 .. 9)
=============================================================================
