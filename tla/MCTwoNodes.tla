----------------------------- MODULE MCTwoNodes -----------------------------
(* Instances of TwoNodes for TLC.                                          *)
EXTENDS TwoNodes

CONSTANTS a1, r1, a2, r2   \* application and RX threads, as model values

ApplicationAndRx1 == {a1, r1}
ApplicationAndRx2 == {a2, r2}
OnlyRx2 == {r2}
=============================================================================
