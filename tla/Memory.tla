------------------------------- MODULE Memory -------------------------------
(***************************************************************************)
(* The C library's share of the firmware (src/util.c): the routines that   *)
(* fill, copy and compare memory, each a loop over bytes, with a block     *)
(* loop (memset_fast, memcpy_fast) for what is long and aligned.  A        *)
(* behaviour is one call, a step one turn of a loop.                       *)
(***************************************************************************)
EXTENDS Integers, FiniteSetsExt

CONSTANTS
    SIZE,          \* addresses are 0..SIZE-1
    BLOCK,         \* bytes to a turn of the block loops: 32
    WORD,          \* the alignment these need: 4
    Bytes,         \* the values of a byte, 0 among them
    Memories,      \* what memory may hold at the call
    Fills          \* what memset is asked to fill with

Addr == 0..(SIZE - 1)

ASSUME MemoryAssumption ==
    /\ SIZE \in Nat /\ BLOCK \in Nat \ {0} /\ WORD \in Nat \ {0}
    /\ Memories \subseteq [Addr -> Bytes] /\ Fills \subseteq Bytes
    /\ Bytes \subseteq Nat /\ 0 \in Bytes

VARIABLES
    mem,
    call,        \* the call, with the memory it found (old)
    pc,          \* "entry", a loop, or "done"
    p, q, n,     \* the loop's pointers and its count
    res          \* what a comparison returns

mvars == <<mem, call, pc, p, q, n, res>>

Copies == {"memcpy", "memmove", "strcpy"}
Scans == {"memcmp", "strncmp", "strlen", "strnlen"}
Loops == {"fill_fast", "fill", "copy_fast", "copy", "back", "string", "scan"}

MemTypeOK ==
    /\ mem \in [Addr -> Bytes] /\ call.old \in [Addr -> Bytes]
    /\ call.fn \in Copies \cup Scans \cup {"memset"}
    /\ call.dest \in 0..SIZE /\ call.src \in 0..SIZE /\ call.n \in Nat
    /\ call.c \in Bytes
    /\ pc \in Loops \cup {"entry", "done"}
    /\ p \in 0..SIZE /\ q \in 0..SIZE /\ n \in Nat /\ res \in Int

-----------------------------------------------------------------------------
(* What a caller may ask.  strcmp is strncmp with n beyond every string.     *)

IsString(m, s, len) ==
    s + len < SIZE /\ m[s + len] = 0 /\ \A i \in 0..(len - 1) : m[s + i] # 0

Readable(m, s, len) ==       \* len bytes, or a string, within memory
    s + len <= SIZE \/ \E a \in Addr : a >= s /\ m[a] = 0

Within(c) == c.dest + c.n <= SIZE /\ c.src + c.n <= SIZE
Apart(c) == c.dest + c.n <= c.src \/ c.src + c.n <= c.dest

\* Arguments a routine does not have are 0.  strcpy has no count: its n here
\* is the one it will find.
Legal(c) ==
    /\ c.fn # "memset" => c.c = 0
    /\ c.fn \in {"strlen", "strnlen"} => c.dest = 0
    /\ c.fn = "memset"  => c.src = 0 /\ c.dest + c.n <= SIZE
    /\ c.fn \in {"memcpy", "memmove", "memcmp", "strcpy"} => Within(c)
    /\ c.fn \in {"memcpy", "strcpy"} => Apart(c)
    /\ c.fn = "strcpy"  => c.n > 0 /\ IsString(c.old, c.src, c.n - 1)
    /\ c.fn = "strncmp" => /\ Readable(c.old, c.dest, c.n)
                           /\ Readable(c.old, c.src, c.n)
    /\ c.fn = "strnlen" => Readable(c.old, c.src, c.n)
    /\ c.fn = "strlen"  => c.n = 0 /\ Readable(c.old, c.src, SIZE + 1)

MemInit ==
    /\ mem \in Memories
    /\ \E fn \in Copies \cup Scans \cup {"memset"},
          dest \in Addr, src \in Addr, len \in 0..(SIZE + 1), c \in Fills :
          /\ call = [fn |-> fn, dest |-> dest, src |-> src, n |-> len,
                     c |-> c, old |-> mem]
          /\ Legal(call)
    /\ pc = "entry" /\ p = 0 /\ q = 0 /\ n = 0 /\ res = 0

-----------------------------------------------------------------------------
aligned(a) == a % WORD = 0

enter(loop, dest, src, len) ==
    /\ pc = "entry" /\ pc' = loop
    /\ p' = dest /\ q' = src /\ n' = len
    /\ UNCHANGED <<mem, call, res>>

memset ==
    /\ call.fn = "memset"
    /\ enter(IF call.n >= BLOCK /\ aligned(call.dest) THEN "fill_fast"
                                                       ELSE "fill",
             call.dest, 0, call.n)

fast_copy_short == aligned(call.dest) /\ aligned(call.src)   \* variant
fast_copy ==
    call.n >= BLOCK /\ aligned(call.dest) /\ aligned(call.src)

backward_never == FALSE                   \* variant: memmove is memcpy
backward == call.dest >= call.src

memcpy ==
    /\ \/ call.fn = "memcpy"
       \/ call.fn = "memmove" /\ ~backward
    /\ enter(IF fast_copy THEN "copy_fast" ELSE "copy",
             call.dest, call.src, call.n)

memmove ==
    /\ call.fn = "memmove" /\ backward
    /\ enter("back", call.dest + call.n, call.src + call.n, call.n)

strcpy == call.fn = "strcpy" /\ enter("string", call.dest, call.src, call.n)

scan == call.fn \in Scans /\ enter("scan", call.dest, call.src, call.n)

\* The block loops are do-while: n counts what is left for both loops, of
\* which they take the multiple of BLOCK.
after_block(loop, next) == pc' = IF n - BLOCK >= BLOCK THEN loop ELSE next

InBlock(a) == p <= a /\ a < p + BLOCK

memset_fast ==
    /\ pc = "fill_fast"
    /\ mem' = [a \in Addr |-> IF InBlock(a) THEN call.c ELSE mem[a]]
    /\ p' = p + BLOCK /\ n' = n - BLOCK
    /\ after_block("fill_fast", "fill")
    /\ UNCHANGED <<call, q, res>>

memcpy_fast ==               \* loads the whole block, then stores it
    /\ pc = "copy_fast"
    /\ mem' = [a \in Addr |-> IF InBlock(a) THEN mem[a - p + q] ELSE mem[a]]
    /\ p' = p + BLOCK /\ q' = q + BLOCK /\ n' = n - BLOCK
    /\ after_block("copy_fast", "copy")
    /\ UNCHANGED <<call, res>>

fill ==
    /\ pc = "fill" /\ n > 0
    /\ mem' = [mem EXCEPT ![p] = call.c]
    /\ p' = p + 1 /\ n' = n - 1
    /\ UNCHANGED <<call, pc, q, res>>

copy ==
    /\ pc = "copy" /\ n > 0
    /\ mem' = [mem EXCEPT ![p] = mem[q]]
    /\ p' = p + 1 /\ q' = q + 1 /\ n' = n - 1
    /\ UNCHANGED <<call, pc, res>>

copy_back ==
    /\ pc = "back" /\ n > 0
    /\ mem' = [mem EXCEPT ![p - 1] = mem[q - 1]]
    /\ p' = p - 1 /\ q' = q - 1 /\ n' = n - 1
    /\ UNCHANGED <<call, pc, res>>

\* while ((*p++ = *q++) != '\0'); n is not looked at.
copy_string ==
    /\ pc = "string"
    /\ mem' = [mem EXCEPT ![p] = mem[q]]
    /\ p' = p + 1 /\ q' = q + 1 /\ n' = n - 1
    /\ pc' = IF mem[q] = 0 THEN "done" ELSE "string"
    /\ UNCHANGED <<call, res>>

\* What ends a scan before its count does.
stops_at_zero(fn, x, y) ==           \* variant: memcmp is strncmp
    IF fn \in {"memcmp", "strncmp"} THEN x # y \/ x = 0 ELSE y = 0
stops(fn, x, y) ==
    CASE fn = "memcmp"               -> x # y
      [] fn = "strncmp"              -> x # y \/ x = 0
      [] fn \in {"strlen", "strnlen"} -> y = 0

counted(fn) == fn # "strlen"

step_scan ==
    /\ pc = "scan" /\ (counted(call.fn) => n > 0)
    /\ ~stops(call.fn, mem[p], mem[q])
    /\ p' = p + 1 /\ q' = q + 1
    /\ n' = IF counted(call.fn) THEN n - 1 ELSE n
    /\ UNCHANGED <<mem, call, pc, res>>

found ==
    /\ pc = "scan" /\ (counted(call.fn) => n > 0)
    /\ stops(call.fn, mem[p], mem[q])
    /\ res' = IF call.fn \in {"memcmp", "strncmp"} THEN mem[p] - mem[q]
                                                   ELSE q - call.src
    /\ pc' = "done"
    /\ UNCHANGED <<mem, call, p, q, n>>

exhausted ==
    /\ \/ pc \in {"fill", "copy", "back"}
       \/ pc = "scan" /\ counted(call.fn)
    /\ n = 0 /\ pc' = "done"
    /\ res' = IF call.fn = "strnlen" THEN q - call.src ELSE 0
    /\ UNCHANGED <<mem, call, p, q, n>>

MemNext ==
    \/ memset \/ memcpy \/ memmove \/ strcpy \/ scan
    \/ memset_fast \/ memcpy_fast \/ fill \/ copy \/ copy_back \/ copy_string
    \/ step_scan \/ found \/ exhausted

MemSpec == MemInit /\ [][MemNext]_mvars

-----------------------------------------------------------------------------
(* Correctness.                                                             *)

Destination(c) == c.dest .. (c.dest + c.n - 1)

Moved(c) ==
    [a \in Addr |-> IF a \notin Destination(c) THEN c.old[a]
                    ELSE IF c.fn = "memset" THEN c.c
                    ELSE c.old[a - c.dest + c.src]]

(* A call that fills or copies leaves at its destination what it was asked  *)
(* for - memmove also where source and destination overlap, either way      *)
(* round, in blocks or in bytes - and at no time touches another byte; the  *)
(* others touch none (util.c:12-92, 131-138).                               *)
MoveExact ==
    /\ \A a \in Addr : call.fn \in Scans \/ a \notin Destination(call)
                          => mem[a] = call.old[a]
    /\ pc = "done" /\ call.fn \notin Scans => mem = Moved(call)

\* The places where the two differ, or the string ends.
Decisive(c) ==
    {i \in 0..(SIZE - 1) :
        /\ c.fn # "strlen" => i < c.n
        /\ c.dest + i < SIZE /\ c.src + i < SIZE
        /\ \/ /\ c.fn \in {"memcmp", "strncmp"}
              /\ c.old[c.dest + i] # c.old[c.src + i]
           \/ c.fn # "memcmp" /\ c.old[c.src + i] = 0}

Answer(c) ==
    IF c.fn \in {"memcmp", "strncmp"}
    THEN IF Decisive(c) = {} THEN 0
         ELSE c.old[c.dest + Min(Decisive(c))] - c.old[c.src + Min(Decisive(c))]
    ELSE IF Decisive(c) = {} THEN c.n ELSE Min(Decisive(c))

(* A comparison returns the difference at the first place where the two     *)
(* differ, which for strings lies within both; a length is that of the      *)
(* string (util.c:94-129).                                                  *)
AnswerExact == pc = "done" /\ call.fn \in Scans => res = Answer(call)
=============================================================================
