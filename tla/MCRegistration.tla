--------------------------- MODULE MCRegistration ---------------------------
(* Two nodes that register with one leader, and another operator, for TLC. *)
EXTENDS Registration
CONSTANTS n1, n2

\* Never all of a failure, a charge, a restart and another operator's place: at most
\* two at a time.  What is cut off by this are steps nobody waits for: everything a
\* fair process waits for also happens without a failure, once transactions are mined.
TwoTroubles == faults + charges + crashes + others <= 2
=============================================================================
