---------------------------- MODULE MCUserLists ----------------------------
(* Instances of UserLists for TLC.                                         *)
EXTENDS UserLists, TLC

CONSTANTS d1, d2, t1, t2, t3, t4, p1, p2

OneDevice == {d1}
TwoDevices == {d1, d2}
TwoTaps == {t1, t2}
ThreeTaps == {t1, t2, t3}
FourTaps == {t1, t2, t3, t4}
TwoItems == {p1, p2}

EmptyList == {<<>>}
ShortLists == {<<>>, <<p1>>}

(* Taps are interchangeable; items are not, where the initial lists name   *)
(* one of them.                                                            *)
TapSymmetry == Permutations(Taps)
=============================================================================
