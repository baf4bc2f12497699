--------------------------- MODULE MCTokenRefresh ---------------------------
(* Model values for the runs of TokenRefresh. *)
EXTENDS TokenRefresh, TLC

CONSTANTS t1, t2, c1, c2, c3, c4

\* Three calls in one tab, one in another.
TwoTabs == [c \in Calls |-> IF c = c4 THEN t2 ELSE t1]
OneTab == [c \in Calls |-> t1]
=============================================================================
