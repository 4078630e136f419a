---------------------------- MODULE MCFramePath ----------------------------
(***************************************************************************)
(* A screen of two pixels, one below the other, on a plane of three, and a *)
(* listener that happens to start with more than is allowed; format 1 is   *)
(* known, format 9 is not.                                                 *)
(* For the resize: one switch of a listener of 1 x 1 to 2 x 2.             *)
(***************************************************************************)
EXTENDS FramePath

MCSwitches == {<<1, 1, 2>>, <<1, 1, 1>>}
MCBoxes == {<<0, 0, 1, 1>>}
MCJunkSizes == {<<2, 3>>}
MCJunkRegions == {<<0, 0, 1, 3>>}

OneSwitch == {<<1, 2, 2>>}
OneBox == {<<0, 0, 1, 1>>}
OneRegion == {<<0, 0, 0, 0>>}
OneSize == {<<1, 1>>}
=============================================================================
