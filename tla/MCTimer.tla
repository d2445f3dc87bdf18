------------------------------ MODULE MCTimer ------------------------------
(* Two timers beside the stamp's, deadlines one tick ago to four ahead.     *)
EXTENDS Timer

CONSTANTS u, v
MCDelays == {-1, 0, 4}
=============================================================================
