------------------------------ MODULE Library -------------------------------
(* The firmware's C library: a behaviour is one call of a routine of Memory *)
(* (util.c) or of Printf (string.c), while the other module rests.  The     *)
(* routines do not call one another, and are checked together.              *)
EXTENDS Memory, Printf

PrintRests ==
    /\ format = <<>> /\ at = 1 /\ size = 0 /\ str = <<>> /\ pos = 0
    /\ value = 0 /\ tmp = <<>> /\ printed = TRUE

MemRests ==
    /\ mem \in Memories /\ pc = "done"
    /\ call = [fn |-> "memset", dest |-> 0, src |-> 0, n |-> 0, c |-> 0,
               old |-> mem]
    /\ p = 0 /\ q = 0 /\ n = 0 /\ res = 0

LibInit ==
    \/ MemInit /\ PrintRests
    \/ PrintInit /\ MemRests

LibNext ==
    \/ MemNext /\ UNCHANGED pvars
    \/ PrintNext /\ UNCHANGED mvars

Lib == LibInit /\ [][LibNext]_<<mvars, pvars>>
=============================================================================
