--------------------------- MODULE MCCalendarFeed ---------------------------
(* Instances of CalendarFeed for TLC. *)
EXTENDS CalendarFeed, TLC

CONSTANTS f1, f2, w1, w2, s1, d1, d2, d3

MCSymmetry == Permutations(Feeds) \cup Permutations(Dues) \cup Permutations(Workers)
=============================================================================
