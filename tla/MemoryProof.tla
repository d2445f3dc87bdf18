---------------------------- MODULE MemoryProof -----------------------------
(* Filling, copying and comparing are exact for every size of memory, every *)
(* block and every alignment, overlapping moves included, and read and      *)
(* write nothing outside memory.  Formatted output is what the format says, *)
(* cut at the end of the buffer, for every format and size.                 *)
EXTENDS Memory, Printf, WellFoundedInduction, SequenceTheorems, TLAPS

Written(a) ==                \* the byte a of the destination is done
    CASE pc \in {"entry", "scan"} -> FALSE
      [] pc = "back" -> p <= a /\ a < call.dest + call.n
      [] pc = "done" -> call.fn \notin Scans /\ a \in Destination(call)
      [] OTHER       -> call.dest <= a /\ a < p

Final(a) == IF call.fn = "memset" THEN call.c
            ELSE call.old[a - call.dest + call.src]

(* What each loop has behind it and before it.                              *)
Filling ==
    /\ call.fn = "memset"
    /\ p >= call.dest /\ p + n = call.dest + call.n

Copying ==
    /\ p >= call.dest /\ p + n = call.dest + call.n
    /\ q - p = call.src - call.dest

CopyingBack ==
    /\ call.fn = "memmove" /\ call.dest >= call.src /\ n <= call.n
    /\ p = call.dest + n /\ q = call.src + n

Scanning ==
    /\ call.fn \in Scans
    /\ q >= call.src /\ q - call.src = p - call.dest
    /\ call.fn # "strlen" => q + n = call.src + call.n
    /\ \A i \in 0..(q - call.src - 1) :
          ~stops(call.fn, call.old[call.dest + i], call.old[call.src + i])

Progress ==
    /\ pc \in {"fill_fast", "fill"} => Filling
    /\ pc \in {"copy_fast", "copy"} =>
          /\ Copying
          /\ \/ call.fn = "memcpy"
             \/ call.fn = "memmove" /\ call.dest < call.src
    /\ pc = "string" => Copying /\ call.fn = "strcpy" /\ n > 0
    /\ pc = "back" => CopyingBack
    /\ pc = "scan" => Scanning
    /\ pc \in {"fill_fast", "copy_fast"} => n >= BLOCK

Contents ==
    \A a \in Addr : mem[a] = IF Written(a) THEN Final(a) ELSE call.old[a]

IInv == MemTypeOK /\ Legal(call) /\ Progress /\ Contents /\ AnswerExact

-----------------------------------------------------------------------------
(* The least element is what Min yields.                                    *)
LEMMA MinIs ==
    ASSUME NEW S \in SUBSET Int, NEW m \in S, \A x \in S : m <= x
    PROVE  Min(S) = m
<1> DEFINE Least(x) == x \in S /\ \A y \in S : x <= y
<1>1. Least(m)
  OBVIOUS
<1>2. ASSUME NEW x, Least(x) PROVE x = m
  BY <1>2
<1>3. Least(CHOOSE x : Least(x))
  BY <1>1
<1> HIDE DEF Least
<1>4. (CHOOSE x : Least(x)) = m
  BY <1>2, <1>3
<1> QED
  BY <1>4 DEF Min, Least

LEMMA InitInv == MemInit => IInv
<1> SUFFICES ASSUME MemInit PROVE IInv
  OBVIOUS
<1> USE MemoryAssumption
<1>1. MemTypeOK
  BY DEF MemInit, MemTypeOK, Addr, Copies, Scans, Loops
<1>2. Legal(call) /\ Progress /\ Contents /\ AnswerExact
  BY DEF MemInit, Progress, Contents, Written, AnswerExact
<1> QED
  BY <1>1, <1>2 DEF IInv

(* Entering a routine: what each of the five ways in establishes.           *)
Enters(fns, loops, dest, src) ==
    /\ UNCHANGED <<mem, call, res>> /\ pc = "entry" /\ n' = call.n
    /\ call.fn \in fns /\ pc' \in loops /\ p' = dest /\ q' = src
    /\ pc' \in {"fill_fast", "copy_fast"} => call.n >= BLOCK

EntersCopy == /\ Enters({"memcpy", "memmove"}, {"copy", "copy_fast"},
                        call.dest, call.src)
              /\ call.fn = "memcpy" \/ call.dest < call.src
EntersBack == /\ Enters({"memmove"}, {"back"},
                        call.dest + call.n, call.src + call.n)
              /\ call.dest >= call.src

LEMMA Entered ==
    ASSUME MemTypeOK, memset \/ memcpy \/ memmove \/ strcpy \/ scan
    PROVE  \/ Enters({"memset"}, {"fill", "fill_fast"}, call.dest, 0)
           \/ EntersCopy \/ EntersBack
           \/ Enters({"strcpy"}, {"string"}, call.dest, call.src)
           \/ Enters(Scans, {"scan"}, call.dest, call.src)
<1> USE MemoryAssumption DEF MemTypeOK, Enters, EntersCopy, EntersBack
<1>1. CASE memset
  <2>1. CASE call.n >= BLOCK /\ aligned(call.dest)
    BY <1>1, <2>1 DEF memset, enter
  <2>2. CASE ~(call.n >= BLOCK /\ aligned(call.dest))
    BY <1>1, <2>2 DEF memset, enter, aligned
  <2> QED
    BY <2>1, <2>2
<1>2. CASE memcpy
  <2>0. call.fn \in {"memcpy", "memmove"}
        /\ (call.fn = "memcpy" \/ call.dest < call.src)
    <3>1. call.fn = "memcpy" \/ (call.fn = "memmove" /\ ~backward)
      BY <1>2 DEF memcpy
    <3> QED
      BY <3>1 DEF backward
  <2>1. CASE fast_copy
    BY <1>2, <2>0, <2>1 DEF memcpy, enter, fast_copy
  <2>2. CASE ~fast_copy
    BY <1>2, <2>0, <2>2 DEF memcpy, enter, fast_copy, aligned
  <2> QED
    BY <2>1, <2>2
<1>3. CASE memmove
  BY <1>3 DEF memmove, enter, backward
<1>4. CASE strcpy
  BY <1>4 DEF strcpy, enter
<1>5. CASE scan
  BY <1>5 DEF scan, enter
<1> QED
  BY <1>1, <1>2, <1>3, <1>4, <1>5

LEMMA EnterInv ==
    ASSUME IInv, memset \/ memcpy \/ memmove \/ strcpy \/ scan
    PROVE  IInv'
<1> DEFINE Way ==
      \/ Enters({"memset"}, {"fill", "fill_fast"}, call.dest, 0)
      \/ EntersCopy \/ EntersBack
      \/ Enters({"strcpy"}, {"string"}, call.dest, call.src)
      \/ Enters(Scans, {"scan"}, call.dest, call.src)
<1>0. Way
  BY Entered DEF IInv
<1>1. UNCHANGED <<mem, call, res>> /\ pc = "entry" /\ n' = call.n
  BY <1>0 DEF Enters, EntersCopy, EntersBack
<1>2. SIZE \in Nat /\ BLOCK \in Nat /\ MemTypeOK /\ Legal(call)
  BY MemoryAssumption DEF IInv
<1>3. pc' \in Loops
  BY <1>0 DEF Enters, EntersCopy, EntersBack, Loops
<1>4. p' \in 0..SIZE /\ q' \in 0..SIZE
  <2>1. CASE EntersBack
    BY <1>2, <2>1 DEF EntersBack, Enters, Legal, Within, MemTypeOK
  <2>2. CASE ~EntersBack
    BY <1>0, <1>2, <2>2 DEF EntersCopy, Enters, MemTypeOK
  <2> QED
    BY <2>1, <2>2
<1>5. MemTypeOK' /\ Legal(call)'
  BY <1>1, <1>2, <1>3, <1>4 DEF MemTypeOK
<1>6. Progress'
  <2>1. CASE Enters({"memset"}, {"fill", "fill_fast"}, call.dest, 0)
    BY <1>1, <1>2, <2>1 DEF Enters, Progress, Filling, MemTypeOK
  <2>2. CASE EntersCopy
    BY <1>1, <1>2, <2>2 DEF EntersCopy, Enters, Progress, Copying, MemTypeOK
  <2>3. CASE EntersBack
    BY <1>1, <1>2, <2>3
       DEF EntersBack, Enters, Progress, CopyingBack, MemTypeOK
  <2>4. CASE Enters({"strcpy"}, {"string"}, call.dest, call.src)
    BY <1>1, <1>2, <2>4 DEF Enters, Progress, Copying, MemTypeOK, Legal
  <2>5. CASE Enters(Scans, {"scan"}, call.dest, call.src)
    BY <1>1, <1>2, <2>5 DEF Enters, Progress, Scanning, MemTypeOK
  <2> QED
    BY <1>0, <2>1, <2>2, <2>3, <2>4, <2>5
<1>7. Contents'
  <2>1. \A a \in Addr : mem[a] = call.old[a]
    BY <1>1 DEF IInv, Contents, Written
  <2>2. pc' = "scan" \/ (pc' = "back" /\ p' = call.dest + call.n)
                     \/ (pc' \notin {"back", "done"} /\ p' = call.dest)
    BY <1>0 DEF Enters, EntersCopy, EntersBack
  <2>3. \A a \in Addr : ~Written(a)'
    BY <1>1, <1>2, <2>2 DEF Written, MemTypeOK, Addr
  <2> QED
    BY <1>1, <2>1, <2>3 DEF Contents
<1>8. AnswerExact'
  BY <1>3 DEF AnswerExact, Loops
<1> QED
  BY <1>5, <1>6, <1>7, <1>8 DEF IInv

-----------------------------------------------------------------------------
(* The loops that write.                                                    *)

\* What p becomes and what is written tell whether the contents stay right.
LEMMA ForwardContents ==
    ASSUME IInv, NEW k \in Nat,
           pc \in {"fill_fast", "fill", "copy_fast", "copy", "string"},
           call' = call, p' = p + k, p' <= call.dest + call.n,
           \/ pc' \in {"fill_fast", "fill", "copy_fast", "copy", "string"}
           \/ pc' = "done" /\ p' = call.dest + call.n /\ call.fn \notin Scans,
           \A a \in Addr : mem'[a] = IF p <= a /\ a < p + k THEN Final(a)
                                     ELSE mem[a]
    PROVE  Contents'
<1>1. p \in Int /\ call.dest \in Int /\ call.n \in Nat /\ p >= call.dest
  BY MemoryAssumption
     DEF IInv, MemTypeOK, Progress, Filling, Copying
<1> SUFFICES ASSUME NEW a \in Addr
             PROVE  mem'[a] = IF Written(a)' THEN Final(a)' ELSE call'.old[a]
  BY DEF Contents
<1>2. mem[a] = IF Written(a) THEN Final(a) ELSE call.old[a]
  BY DEF IInv, Contents
<1>3. Final(a)' = Final(a) /\ a \in Int
  BY MemoryAssumption DEF Final, Addr
<1>4. Written(a) <=> call.dest <= a /\ a < p
  BY DEF Written
<1>5. Written(a)' <=> call.dest <= a /\ a < p + k
  BY <1>1, <1>3 DEF Written, Destination
<1> QED
  BY <1>1, <1>2, <1>3, <1>4, <1>5

\* What a copy has still to read is as the call found it.
LEMMA Unread ==
    ASSUME IInv, pc \in {"copy_fast", "copy", "string"},
           NEW a \in Addr, p <= a, a < call.dest + call.n
    PROVE  /\ a - p + q = a - call.dest + call.src
           /\ a - p + q \in Addr
           /\ mem[a - p + q] = Final(a)
<1>1. /\ p \in Int /\ q \in Int /\ a \in Int /\ SIZE \in Nat
      /\ call.dest \in Nat /\ call.src \in Nat /\ call.n \in Nat
      /\ Legal(call) /\ Copying
      /\ call.fn \in {"memcpy", "memmove", "strcpy"}
      /\ call.fn = "memmove" => call.dest < call.src
  BY MemoryAssumption DEF IInv, MemTypeOK, Progress, Addr
<1>2. a - p + q = a - call.dest + call.src /\ a >= call.dest
  BY <1>1 DEF Copying
<1>3. a - p + q \in Addr
  BY <1>1, <1>2 DEF Legal, Within, Addr
<1>4. ~Written(a - p + q)
  BY <1>1, <1>2 DEF Written, Legal, Apart
<1> QED
  BY <1>1, <1>2, <1>3, <1>4 DEF IInv, Contents, Final

LEMMA MemsetFastInv == ASSUME IInv, memset_fast PROVE IInv'
<1>1. /\ SIZE \in Nat /\ BLOCK \in Nat \ {0} /\ MemTypeOK /\ Legal(call)
      /\ Filling /\ n >= BLOCK /\ pc = "fill_fast"
      /\ UNCHANGED <<call, q, res>> /\ p' = p + BLOCK /\ n' = n - BLOCK
      /\ pc' \in {"fill_fast", "fill"} /\ (pc' = "fill_fast" => n' >= BLOCK)
  BY MemoryAssumption DEF IInv, Progress, memset_fast, after_block, MemTypeOK
<1>2. mem' \in [Addr -> Bytes]
  BY <1>1 DEF memset_fast, MemTypeOK
<1>3. MemTypeOK' /\ Legal(call)'
  BY <1>1, <1>2 DEF MemTypeOK, Filling, Legal, Loops
<1>4. Progress'
  BY <1>1 DEF Progress, Filling, MemTypeOK
<1>5. Contents'
  <2>1. \A a \in Addr : mem'[a] = IF p <= a /\ a < p + BLOCK THEN Final(a)
                                  ELSE mem[a]
    BY <1>1 DEF memset_fast, InBlock, Final, Filling
  <2>2. p' <= call.dest + call.n
    BY <1>1 DEF Filling, MemTypeOK
  <2> QED
    BY <1>1, <2>1, <2>2, ForwardContents
<1>6. AnswerExact'
  BY <1>1 DEF AnswerExact
<1> QED
  BY <1>3, <1>4, <1>5, <1>6 DEF IInv

LEMMA FillInv == ASSUME IInv, fill PROVE IInv'
<1>1. /\ SIZE \in Nat /\ MemTypeOK /\ Legal(call)
      /\ Filling /\ pc = "fill" /\ n > 0
      /\ UNCHANGED <<call, pc, q, res>> /\ p' = p + 1 /\ n' = n - 1
      /\ mem' = [mem EXCEPT ![p] = call.c]
  BY MemoryAssumption DEF IInv, Progress, fill
<1>2. mem' \in [Addr -> Bytes]
  BY <1>1 DEF MemTypeOK
<1>3. MemTypeOK' /\ Legal(call)'
  BY <1>1, <1>2 DEF MemTypeOK, Filling, Legal
<1>4. Progress'
  BY <1>1 DEF Progress, Filling, MemTypeOK
<1>5. Contents'
  <2>1. \A a \in Addr : mem'[a] = IF p <= a /\ a < p + 1 THEN Final(a)
                                  ELSE mem[a]
    BY <1>1 DEF Final, Filling, MemTypeOK, Addr
  <2>2. p' <= call.dest + call.n
    BY <1>1 DEF Filling, MemTypeOK
  <2> QED
    BY <1>1, <2>1, <2>2, ForwardContents
<1>6. AnswerExact'
  BY <1>1 DEF AnswerExact
<1> QED
  BY <1>3, <1>4, <1>5, <1>6 DEF IInv

LEMMA MemcpyFastInv == ASSUME IInv, memcpy_fast PROVE IInv'
<1>1. /\ SIZE \in Nat /\ BLOCK \in Nat \ {0} /\ MemTypeOK /\ Legal(call)
      /\ Copying /\ n >= BLOCK /\ pc = "copy_fast"
      /\ call.fn = "memcpy" \/ (call.fn = "memmove" /\ call.dest < call.src)
      /\ UNCHANGED <<call, res>>
      /\ p' = p + BLOCK /\ q' = q + BLOCK /\ n' = n - BLOCK
      /\ pc' \in {"copy_fast", "copy"} /\ (pc' = "copy_fast" => n' >= BLOCK)
  BY MemoryAssumption DEF IInv, Progress, memcpy_fast, after_block, MemTypeOK
<1>2. p' <= call.dest + call.n
  BY <1>1 DEF Copying, MemTypeOK
<1>3. \A a \in Addr : InBlock(a) =>
        a - p + q \in Addr /\ mem[a - p + q] = Final(a)
  <2> SUFFICES ASSUME NEW a \in Addr, InBlock(a)
               PROVE  a - p + q \in Addr /\ mem[a - p + q] = Final(a)
    OBVIOUS
  <2>1. p <= a /\ a < call.dest + call.n
    BY <1>1, <1>2 DEF InBlock, MemTypeOK, Addr
  <2> QED
    BY <1>1, <2>1, Unread
<1>4. mem' \in [Addr -> Bytes]
  BY <1>1, <1>3 DEF memcpy_fast, MemTypeOK
<1>5. MemTypeOK' /\ Legal(call)'
  <2>1. p' \in 0..SIZE /\ q' \in 0..SIZE /\ n' \in Nat
    BY <1>1 DEF MemTypeOK, Copying, Legal, Within
  <2> QED
    BY <1>1, <1>4, <2>1 DEF MemTypeOK, Loops
<1>6. Progress'
  BY <1>1 DEF Progress, Copying, MemTypeOK
<1>7. Contents'
  <2>1. \A a \in Addr : mem'[a] = IF p <= a /\ a < p + BLOCK THEN Final(a)
                                  ELSE mem[a]
    BY <1>3 DEF memcpy_fast, InBlock
  <2> QED
    BY <1>1, <1>2, <2>1, ForwardContents
<1>8. AnswerExact'
  BY <1>1 DEF AnswerExact
<1> QED
  BY <1>5, <1>6, <1>7, <1>8 DEF IInv

\* One byte of a copy or of a string.
LEMMA OneByte ==
    ASSUME IInv, pc \in {"copy", "string"}, n > 0
    PROVE  /\ p \in Addr /\ q \in Addr
           /\ mem[q] = Final(p) /\ p < call.dest + call.n
<1>1. /\ SIZE \in Nat /\ MemTypeOK /\ Legal(call) /\ Copying
      /\ call.fn \in {"memcpy", "memmove", "strcpy"}
  BY MemoryAssumption DEF IInv, Progress
<1>2. p \in Addr /\ p <= p /\ p < call.dest + call.n /\ p - p + q = q
  BY <1>1 DEF MemTypeOK, Copying, Legal, Within, Addr
<1>3. p - p + q \in Addr /\ mem[p - p + q] = Final(p)
  BY <1>2, Unread
<1> QED
  BY <1>2, <1>3

LEMMA CopyInv == ASSUME IInv, copy PROVE IInv'
<1>1. /\ SIZE \in Nat /\ MemTypeOK /\ Legal(call)
      /\ Copying /\ pc = "copy" /\ n > 0
      /\ call.fn = "memcpy" \/ (call.fn = "memmove" /\ call.dest < call.src)
      /\ UNCHANGED <<call, pc, res>> /\ p' = p + 1 /\ q' = q + 1 /\ n' = n - 1
      /\ mem' = [mem EXCEPT ![p] = mem[q]]
  BY MemoryAssumption DEF IInv, Progress, copy
<1>2. p \in Addr /\ q \in Addr /\ mem[q] = Final(p) /\ p < call.dest + call.n
  BY <1>1, OneByte
<1>3. MemTypeOK' /\ Legal(call)'
  BY <1>1, <1>2 DEF MemTypeOK, Addr
<1>4. Progress'
  BY <1>1 DEF Progress, Copying, MemTypeOK
<1>5. Contents'
  <2>1. \A a \in Addr : mem'[a] = IF p <= a /\ a < p + 1 THEN Final(a)
                                  ELSE mem[a]
    BY <1>1, <1>2 DEF MemTypeOK, Addr
  <2> QED
    BY <1>1, <1>2, <2>1, ForwardContents DEF MemTypeOK
<1>6. AnswerExact'
  BY <1>1 DEF AnswerExact
<1> QED
  BY <1>3, <1>4, <1>5, <1>6 DEF IInv

LEMMA CopyStringInv == ASSUME IInv, copy_string PROVE IInv'
<1>1. /\ SIZE \in Nat /\ MemTypeOK /\ Legal(call)
      /\ Copying /\ pc = "string" /\ n > 0 /\ call.fn = "strcpy"
      /\ UNCHANGED <<call, res>> /\ p' = p + 1 /\ q' = q + 1 /\ n' = n - 1
      /\ mem' = [mem EXCEPT ![p] = mem[q]]
      /\ pc' = IF mem[q] = 0 THEN "done" ELSE "string"
  BY MemoryAssumption DEF IInv, Progress, copy_string
<1>2. p \in Addr /\ q \in Addr /\ mem[q] = Final(p) /\ p < call.dest + call.n
  BY <1>1, OneByte
<1>3. mem[q] = 0 <=> n = 1
  <2>1. mem[q] = call.old[call.src + (p - call.dest)]
    BY <1>1, <1>2 DEF Final, MemTypeOK, Addr
  <2>2. /\ p - call.dest \in 0..(call.n - 1)
        /\ p - call.dest = call.n - 1 <=> n = 1
    BY <1>1, <1>2 DEF Copying, MemTypeOK
  <2>3. IsString(call.old, call.src, call.n - 1)
    BY <1>1 DEF Legal
  <2> QED
    BY <1>1, <2>1, <2>2, <2>3 DEF IsString, MemTypeOK
<1>4. MemTypeOK' /\ Legal(call)'
  BY <1>1, <1>2 DEF MemTypeOK, Addr, Loops
<1>5. Progress'
  BY <1>1, <1>3 DEF Progress, Copying, MemTypeOK
<1>6. Contents'
  <2>1. \A a \in Addr : mem'[a] = IF p <= a /\ a < p + 1 THEN Final(a)
                                  ELSE mem[a]
    BY <1>1, <1>2 DEF MemTypeOK, Addr
  <2>2. pc' = "string" \/ (pc' = "done" /\ p' = call.dest + call.n)
    BY <1>1, <1>3 DEF Copying, MemTypeOK
  <2> QED
    BY <1>1, <1>2, <2>1, <2>2, ForwardContents DEF MemTypeOK, Scans
<1>7. AnswerExact'
  BY <1>1 DEF AnswerExact, Scans
<1> QED
  BY <1>4, <1>5, <1>6, <1>7 DEF IInv

LEMMA CopyBackInv == ASSUME IInv, copy_back PROVE IInv'
<1>1. /\ SIZE \in Nat /\ MemTypeOK /\ Legal(call)
      /\ CopyingBack /\ pc = "back" /\ n > 0
      /\ UNCHANGED <<call, pc, res>> /\ p' = p - 1 /\ q' = q - 1 /\ n' = n - 1
      /\ mem' = [mem EXCEPT ![p - 1] = mem[q - 1]]
  BY MemoryAssumption DEF IInv, Progress, copy_back
<1>2. /\ p - 1 \in Addr /\ q - 1 \in Addr
      /\ p \in Int /\ call.dest \in Int /\ call.n \in Int
      /\ p - 1 < call.dest + call.n
  <2>1. Within(call)
    BY <1>1 DEF CopyingBack, Legal
  <2>2. /\ call.dest \in Nat /\ call.src \in Nat /\ call.n \in Nat /\ n \in Nat
        /\ p = call.dest + n /\ q = call.src + n /\ n <= call.n
    BY <1>1 DEF MemTypeOK, CopyingBack
  <2>3. call.dest + call.n <= SIZE /\ call.src + call.n <= SIZE
    BY <2>1 DEF Within
  <2> QED
    BY <1>1, <2>2, <2>3 DEF Addr
<1>3. mem[q - 1] = Final(p - 1)
  <2>1. ~Written(q - 1)
    BY <1>1 DEF Written, MemTypeOK, CopyingBack
  <2>2. q - 1 = p - 1 - call.dest + call.src
    BY <1>1 DEF MemTypeOK, CopyingBack
  <2> QED
    BY <1>1, <1>2, <2>1, <2>2 DEF IInv, Contents, Final, CopyingBack
<1>4. MemTypeOK' /\ Legal(call)'
  BY <1>1, <1>2 DEF MemTypeOK, Addr
<1>5. Progress'
  BY <1>1 DEF Progress, CopyingBack, MemTypeOK
<1>6. Contents'
  <2> SUFFICES ASSUME NEW a \in Addr
               PROVE  mem'[a] = IF Written(a)' THEN Final(a)' ELSE call'.old[a]
    BY DEF Contents
  <2>1. mem[a] = IF Written(a) THEN Final(a) ELSE call.old[a]
    BY DEF IInv, Contents
  <2>2. Final(a)' = Final(a)
    BY <1>1 DEF Final
  <2>3. Written(a)' <=> Written(a) \/ a = p - 1
    <3>1. a \in Int
      BY <1>1 DEF Addr
    <3> QED
      BY <1>1, <1>2, <3>1 DEF Written
  <2>4. mem'[a] = IF a = p - 1 THEN mem[q - 1] ELSE mem[a]
    BY <1>1, <1>2 DEF MemTypeOK
  <2> QED
    BY <1>1, <1>3, <2>1, <2>2, <2>3, <2>4
<1>7. AnswerExact'
  BY <1>1 DEF AnswerExact
<1> QED
  BY <1>4, <1>5, <1>6, <1>7 DEF IInv

-----------------------------------------------------------------------------
(* The scans.                                                               *)
LEMMA ScanReads ==
    ASSUME IInv, pc = "scan", call.fn # "strlen" => n > 0
    PROVE  /\ p \in Addr /\ q \in Addr
           /\ mem[p] = call.old[call.dest + (q - call.src)]
           /\ mem[q] = call.old[call.src + (q - call.src)]
<1>1. /\ SIZE \in Nat /\ MemTypeOK /\ Legal(call) /\ Scanning
      /\ \A a \in Addr : mem[a] = call.old[a]
  BY MemoryAssumption DEF IInv, Progress, Contents, Written
<1>2. ASSUME NEW s \in 0..SIZE, NEW len \in Nat,
             Readable(call.old, s, len), q - call.src < len,
             \A i \in 0..(q - call.src - 1) : call.old[s + i] # 0
      PROVE  s + (q - call.src) < SIZE
  <2>1. CASE s + len <= SIZE
    BY <1>1, <1>2, <2>1 DEF MemTypeOK
  <2>2. CASE \E a \in Addr : a >= s /\ call.old[a] = 0
    <3>1. PICK z \in Addr : z >= s /\ call.old[z] = 0
      BY <2>2
    <3>2. z - s \notin 0..(q - call.src - 1) /\ z - s \in Nat
      <4>1. s + (z - s) = z /\ z - s \in Nat
        BY <1>1, <3>1 DEF Addr
      <4> QED
        BY <1>2, <3>1, <4>1
    <3> QED
      BY <1>1, <3>1, <3>2 DEF Addr, MemTypeOK, Scanning
  <2> QED
    BY <1>2, <2>1, <2>2 DEF Readable
<1>3. q - call.src \in Nat /\ call.dest + (q - call.src) = p
                         /\ call.src + (q - call.src) = q
  BY <1>1 DEF MemTypeOK, Scanning
<1>4. call.fn # "strlen" => q - call.src < call.n
  BY <1>1 DEF MemTypeOK, Scanning
<1>5. p < SIZE /\ q < SIZE
  <2>1. CASE call.fn = "memcmp"
    BY <1>1, <1>3, <1>4, <2>1 DEF Legal, Within, MemTypeOK
  <2>2. CASE call.fn = "strncmp"
    <3>1. \A i \in 0..(q - call.src - 1) :
             call.old[call.dest + i] # 0 /\ call.old[call.src + i] # 0
      BY <1>1, <2>2 DEF Scanning, stops
    <3>2. /\ Readable(call.old, call.dest, call.n)
          /\ Readable(call.old, call.src, call.n)
      BY <1>1, <2>2 DEF Legal
    <3>3. /\ call.dest \in 0..SIZE /\ call.src \in 0..SIZE
          /\ call.n \in Nat /\ q - call.src < call.n
      BY <1>1, <1>4, <2>2 DEF MemTypeOK
    <3>4. p < SIZE
      BY <1>2, <1>3, <3>1, <3>2, <3>3
    <3>5. q < SIZE
      BY <1>2, <1>3, <3>1, <3>2, <3>3
    <3> QED
      BY <3>4, <3>5
  <2>3. CASE call.fn = "strnlen"
    <3>1. \A i \in 0..(q - call.src - 1) : call.old[call.src + i] # 0
      BY <1>1, <2>3 DEF Scanning, stops
    <3>2. Readable(call.old, call.src, call.n) /\ call.dest = 0
      BY <1>1, <2>3 DEF Legal
    <3>3. call.src \in 0..SIZE /\ call.n \in Nat /\ q - call.src < call.n
      BY <1>1, <1>4, <2>3 DEF MemTypeOK
    <3>4. q < SIZE
      BY <1>2, <1>3, <3>1, <3>2, <3>3
    <3>5. p = q - call.src
      BY <1>3, <3>2
    <3> QED
      BY <1>1, <1>3, <3>4, <3>5 DEF MemTypeOK
  <2>4. CASE call.fn = "strlen"
    <3>1. \A i \in 0..(q - call.src - 1) : call.old[call.src + i] # 0
      BY <1>1, <2>4 DEF Scanning, stops
    <3>2. Readable(call.old, call.src, SIZE + 1) /\ call.dest = 0
      BY <1>1, <2>4 DEF Legal
    <3>3. q - call.src < SIZE + 1 /\ SIZE + 1 \in Nat
      BY <1>1 DEF MemTypeOK
    <3> QED
      BY <1>1, <1>2, <1>3, <2>4, <3>1, <3>2, <3>3 DEF MemTypeOK
  <2> QED
    BY <1>1, <2>1, <2>2, <2>3, <2>4 DEF Scanning, Scans
<1> QED
  BY <1>1, <1>3, <1>5 DEF MemTypeOK, Addr

LEMMA StepScanInv == ASSUME IInv, step_scan PROVE IInv'
<1>1. /\ SIZE \in Nat /\ MemTypeOK /\ Legal(call) /\ Scanning
      /\ pc = "scan" /\ (call.fn # "strlen" => n > 0)
      /\ ~stops(call.fn, mem[p], mem[q])
      /\ UNCHANGED <<mem, call, pc, res>> /\ p' = p + 1 /\ q' = q + 1
      /\ n' = IF call.fn # "strlen" THEN n - 1 ELSE n
  BY MemoryAssumption DEF IInv, Progress, step_scan, counted
<1>2. /\ p \in Addr /\ q \in Addr
      /\ mem[p] = call.old[call.dest + (q - call.src)]
      /\ mem[q] = call.old[call.src + (q - call.src)]
  BY <1>1, ScanReads
<1>3. MemTypeOK' /\ Legal(call)'
  <2>1. p' \in 0..SIZE /\ q' \in 0..SIZE
    BY <1>1, <1>2 DEF Addr
  <2>2. n' \in Nat
    BY <1>1 DEF MemTypeOK
  <2>3. MemTypeOK'
    BY <1>1, <2>1, <2>2 DEF MemTypeOK
  <2> QED
    BY <1>1, <2>3
<1>4. Scanning'
  <2>1. /\ q' >= call.src /\ q' - call.src = p' - call.dest
        /\ call.fn # "strlen" => q' + n' = call.src + call.n
    BY <1>1 DEF Scanning, MemTypeOK
  <2>2. ASSUME NEW i \in 0..(q' - call.src - 1)
        PROVE  ~stops(call.fn, call.old[call.dest + i], call.old[call.src + i])
    <3>1. i \in 0..(q - call.src - 1) \/ i = q - call.src
      BY <1>1, <2>2 DEF MemTypeOK
    <3> QED
      BY <1>1, <1>2, <3>1 DEF Scanning
  <2> QED
    BY <1>1, <2>1, <2>2 DEF Scanning
<1>5. Progress'
  BY <1>1, <1>4 DEF Progress
<1>6. Contents' /\ AnswerExact'
  BY <1>1 DEF IInv, Contents, Written, AnswerExact
<1> QED
  BY <1>3, <1>5, <1>6 DEF IInv

\* What was passed decides nothing.
LEMMA PassedUndecisive ==
    ASSUME IInv, Scanning
    PROVE  \A i \in Decisive(call) : i >= q - call.src
<1> SUFFICES ASSUME NEW i \in Decisive(call), i < q - call.src PROVE FALSE
  BY MemoryAssumption DEF IInv, MemTypeOK, Decisive
<1>1. i \in 0..(q - call.src - 1)
  BY MemoryAssumption DEF Decisive, IInv, MemTypeOK
<1>2. ~stops(call.fn, call.old[call.dest + i], call.old[call.src + i])
  BY <1>1 DEF Scanning
<1>3. call.fn \in {"memcmp", "strncmp", "strlen", "strnlen"}
  BY DEF Scanning, Scans
<1> QED
  BY <1>2, <1>3 DEF stops, Decisive

LEMMA FoundInv == ASSUME IInv, found PROVE IInv'
<1>1. /\ SIZE \in Nat /\ MemTypeOK /\ Legal(call) /\ Scanning
      /\ pc = "scan" /\ (call.fn # "strlen" => n > 0)
      /\ stops(call.fn, mem[p], mem[q])
      /\ UNCHANGED <<mem, call, p, q, n>> /\ pc' = "done"
      /\ res' = IF call.fn \in {"memcmp", "strncmp"} THEN mem[p] - mem[q]
                                                    ELSE q - call.src
  BY MemoryAssumption DEF IInv, Progress, found, counted
<1>2. /\ p \in Addr /\ q \in Addr
      /\ mem[p] = call.old[call.dest + (q - call.src)]
      /\ mem[q] = call.old[call.src + (q - call.src)]
  BY <1>1, ScanReads
<1>3. MemTypeOK' /\ Legal(call)'
  <2>1. mem[p] \in Int /\ mem[q] \in Int
    <3>1. mem[p] \in Bytes /\ mem[q] \in Bytes
      BY <1>1, <1>2 DEF MemTypeOK
    <3>2. \A b \in Bytes : b \in Nat
      BY MemoryAssumption
    <3> QED
      BY <3>1, <3>2
  <2> QED
    BY <1>1, <2>1 DEF MemTypeOK
<1>4. Progress' /\ Contents'
  BY <1>1 DEF IInv, Progress, Contents, Written, Scanning
<1>5. AnswerExact'
  <2> DEFINE k == q - call.src
  <2>1. /\ k \in 0..(SIZE - 1) /\ call.dest + k = p /\ call.src + k = q
        /\ call.fn # "strlen" => k < call.n
    <3>1. /\ p \in Int /\ q \in Int /\ n \in Nat /\ q < SIZE
          /\ call.dest \in Nat /\ call.src \in Nat /\ call.n \in Nat
      BY <1>1, <1>2 DEF MemTypeOK, Addr
    <3> QED
      BY <1>1, <3>1 DEF Scanning
  <2>2. call.fn \in {"memcmp", "strncmp", "strlen", "strnlen"}
    BY <1>1 DEF Scanning, Scans
  <2>3. \/ /\ call.fn \in {"memcmp", "strncmp"}
           /\ call.old[call.dest + k] # call.old[call.src + k]
        \/ call.fn # "memcmp" /\ call.old[call.src + k] = 0
    BY <1>1, <1>2, <2>2 DEF stops
  <2>4. k \in Decisive(call)
    BY <1>1, <1>2, <2>1, <2>3 DEF Decisive, Addr
  <2>5. Min(Decisive(call)) = k
    <3>1. Decisive(call) \in SUBSET Int
      BY <1>1 DEF Decisive
    <3>2. \A i \in Decisive(call) : k <= i
      BY <1>1, <3>1, PassedUndecisive DEF MemTypeOK
    <3> QED
      BY <2>4, <3>1, <3>2, MinIs
  <2>6. res' = Answer(call)
    BY <1>1, <1>2, <2>4, <2>5 DEF Answer
  <2> QED
    BY <1>1, <2>6 DEF AnswerExact
<1> QED
  BY <1>3, <1>4, <1>5 DEF IInv

LEMMA ExhaustedInv == ASSUME IInv, exhausted PROVE IInv'
<1>1. /\ SIZE \in Nat /\ MemTypeOK /\ Legal(call) /\ Progress /\ Contents
      /\ pc \in {"fill", "copy", "back", "scan"} /\ n = 0 /\ pc' = "done"
      /\ pc = "scan" => call.fn # "strlen"
      /\ UNCHANGED <<mem, call, p, q, n>>
      /\ res' = IF call.fn = "strnlen" THEN q - call.src ELSE 0
  BY MemoryAssumption DEF IInv, exhausted, counted
<1>2. MemTypeOK' /\ Legal(call)'
  BY <1>1 DEF MemTypeOK
<1>3. Progress'
  BY <1>1 DEF Progress
<1>4. Contents'
  <2> SUFFICES ASSUME NEW a \in Addr PROVE Written(a)' <=> Written(a)
    BY <1>1 DEF Contents, Final
  <2>1. CASE pc = "scan"
    BY <1>1, <2>1 DEF Written, Progress, Scanning
  <2>2. CASE pc \in {"fill", "copy", "back"}
    <3>1. /\ call.fn \notin Scans /\ a \in Int
          /\ call.dest \in Int /\ call.n \in Int /\ p \in Int
          /\ p = IF pc = "back" THEN call.dest ELSE call.dest + call.n
      BY <1>1, <2>2
         DEF Progress, Filling, Copying, CopyingBack, MemTypeOK, Scans, Addr
    <3> QED
      BY <1>1, <2>2, <3>1 DEF Written, Destination
  <2> QED
    BY <1>1, <2>1, <2>2
<1>5. AnswerExact'
  <2> SUFFICES ASSUME call.fn \in Scans PROVE res' = Answer(call)
    BY <1>1 DEF AnswerExact
  <2>1. pc = "scan" /\ Scanning
    BY <1>1 DEF Progress, Filling, CopyingBack, Scans
  <2>2. q - call.src = call.n
    BY <1>1, <2>1 DEF Scanning, MemTypeOK
  <2>3. Decisive(call) = {}
    BY <1>1, <2>1, <2>2, PassedUndecisive DEF Decisive, MemTypeOK
  <2> QED
    BY <1>1, <2>1, <2>2, <2>3 DEF Answer, Scanning, Scans
<1> QED
  BY <1>2, <1>3, <1>4, <1>5 DEF IInv

-----------------------------------------------------------------------------
LEMMA Invariance == MemSpec => []IInv
<1>1. MemInit => IInv
  BY InitInv
<1>2. IInv /\ [MemNext]_mvars => IInv'
  <2> SUFFICES ASSUME IInv, [MemNext]_mvars PROVE IInv'
    OBVIOUS
  <2>1. CASE memset \/ memcpy \/ memmove \/ strcpy \/ scan
    BY <2>1, EnterInv
  <2>2. CASE memset_fast
    BY <2>2, MemsetFastInv
  <2>3. CASE memcpy_fast
    BY <2>3, MemcpyFastInv
  <2>4. CASE fill
    BY <2>4, FillInv
  <2>5. CASE copy
    BY <2>5, CopyInv
  <2>6. CASE copy_back
    BY <2>6, CopyBackInv
  <2>7. CASE copy_string
    BY <2>7, CopyStringInv
  <2>8. CASE step_scan
    BY <2>8, StepScanInv
  <2>9. CASE found
    BY <2>9, FoundInv
  <2>10. CASE exhausted
    BY <2>10, ExhaustedInv
  <2>11. CASE UNCHANGED mvars
    BY <2>11 DEF mvars, IInv, MemTypeOK, Progress, Filling, Copying,
                 CopyingBack, Scanning, Contents, Written, Final, AnswerExact
  <2> QED
    BY <2>1, <2>2, <2>3, <2>4, <2>5, <2>6, <2>7, <2>8, <2>9, <2>10, <2>11
       DEF MemNext
<1> QED
  BY <1>1, <1>2, PTL DEF MemSpec

(* No routine reads or writes outside memory, however long its loop runs.   *)
THEOREM MemoryInBounds == MemSpec => []MemTypeOK
<1>1. IInv => MemTypeOK
  BY DEF IInv
<1> QED
  BY <1>1, Invariance, PTL

(* Every fill and copy is exact, at every size, block and alignment.        *)
THEOREM MovesAreExact == MemSpec => []MoveExact
<1>1. IInv => MoveExact
  <2> SUFFICES ASSUME IInv PROVE MoveExact
    OBVIOUS
  <2>1. ASSUME NEW a \in Addr, call.fn \in Scans \/ a \notin Destination(call)
        PROVE  mem[a] = call.old[a]
    <3> SUFFICES ~Written(a)
      BY DEF IInv, Contents
    <3>1. /\ SIZE \in Nat /\ MemTypeOK /\ Progress /\ a \in Int
          /\ call.dest \in Int /\ call.n \in Nat /\ p \in Int /\ n \in Nat
      BY MemoryAssumption DEF IInv, MemTypeOK, Addr
    <3>2. CASE pc \in {"entry", "scan", "done"}
      BY <2>1, <3>1, <3>2 DEF Written
    <3>3. CASE pc = "back"
      BY <2>1, <3>1, <3>3
         DEF Written, Progress, CopyingBack, Destination, Scans
    <3>4. CASE pc \in {"fill_fast", "fill", "copy_fast", "copy", "string"}
      <4>1. call.fn \notin Scans /\ p <= call.dest + call.n
        BY <3>1, <3>4 DEF Progress, Filling, Copying, Scans
      <4> QED
        BY <2>1, <3>1, <3>4, <4>1 DEF Written, Destination
    <3> QED
      BY <3>1, <3>2, <3>3, <3>4 DEF MemTypeOK, Loops, Written
  <2>2. pc = "done" /\ call.fn \notin Scans => mem = Moved(call)
    BY DEF IInv, MemTypeOK, Contents, Written, Final, Moved
  <2> QED
    BY <2>1, <2>2 DEF MoveExact
<1> QED
  BY <1>1, Invariance, PTL

(* Every comparison and length is that of the bytes the caller sees.        *)
THEOREM AnswersAreExact == MemSpec => []AnswerExact
<1>1. IInv => AnswerExact
  BY DEF IInv
<1> QED
  BY <1>1, Invariance, PTL

-----------------------------------------------------------------------------
(* The prover's induction principles take operators for parameters, which   *)
(* it cannot instantiate; that every set of naturals has a least member     *)
(* does as well.                                                            *)
LEMMA LeastIs ==
    ASSUME NEW S \in SUBSET Nat, S # {}
    PROVE  \E m \in S : \A x \in S : m <= x
<1>1. PICK R : /\ IsWellFoundedOn(R, Nat)
               /\ R = {d \in Nat \X Nat : d[1] < d[2]}
  <2>1. OpToRel(<, Nat) = {d \in Nat \X Nat : d[1] < d[2]}
    BY ONLY DEF OpToRel
  <2>2. /\ IsWellFoundedOn(OpToRel(<, Nat), Nat)
        /\ OpToRel(<, Nat) = {d \in Nat \X Nat : d[1] < d[2]}
    BY ONLY NatLessThanWellFounded, <2>1, Zenon
  <2> QED
    BY ONLY <2>2, Zenon
<1>2. PICK m \in S : \A x \in S : <<x, m>> \notin R
  BY <1>1, WFMin
<1>3. \A x \in S : <<x, m>> \in Nat \X Nat /\ (x < m => <<x, m>> \in R)
  BY <1>1, <1>2
<1>4. ASSUME NEW x \in S PROVE m <= x
  <2>1. x \in Nat /\ m \in Nat /\ ~(x < m)
    BY <1>2, <1>3
  <2> QED
    BY <2>1
<1> QED
  BY <1>4

(* A function f on 0..k with values in S, the first a and the next what g   *)
(* makes of the last.                                                       *)
Follows(f, k, S, a, g) ==
    f \in [0..k -> S] /\ f[0] = a /\ \A i \in 1..k : f[i] = g[i][f[i - 1]]

LEMMA Recursion ==
    ASSUME NEW k \in Nat, NEW S, NEW a \in S, NEW g \in [1..k -> [S -> S]]
    PROVE  \E f : Follows(f, k, S, a, g)
<1> DEFINE Bad == {j \in 0..k : ~\E f : Follows(f, j, S, a, g)}
<1>1. SUFFICES ASSUME Bad # {} PROVE FALSE
  <2>1. k \in 0..k
    OBVIOUS
  <2>2. CASE \E f : Follows(f, k, S, a, g)
    BY <2>2
  <2> QED  BY <2>1, <2>2
<1>2. PICK m \in Bad : \A j \in Bad : m <= j
  <2>1. Bad \in SUBSET Nat
    OBVIOUS
  <2> HIDE DEF Bad
  <2> QED  BY <1>1, <2>1, LeastIs
<1>3. m # 0
  <2>1. Follows([i \in 0..0 |-> a], 0, S, a, g)
    BY DEF Follows
  <2> QED  BY <2>1, <1>2
<1>4. PICK f : Follows(f, m - 1, S, a, g)
  <2>1. m - 1 \in 0..k /\ ~(m <= m - 1)
    BY <1>2, <1>3
  <2> QED  BY <1>2, <2>1
<1> DEFINE h == [i \in 0..m |-> IF i = m THEN g[m][f[m - 1]] ELSE f[i]]
<1>5. m \in 1..k /\ m - 1 \in 0..(m - 1)
  BY <1>2, <1>3
<1>6. h \in [0..m -> S]
  <2>1. g[m][f[m - 1]] \in S
    BY <1>4, <1>5 DEF Follows
  <2>2. ASSUME NEW i \in 0..m, i # m PROVE f[i] \in S
    BY <1>4, <1>5, <2>2 DEF Follows
  <2> QED  BY <2>1, <2>2
<1>7. h[0] = a
  BY <1>4, <1>5 DEF Follows
<1>8. ASSUME NEW i \in 1..m PROVE h[i] = g[i][h[i - 1]]
  <2>1. h[i - 1] = f[i - 1]
    BY <1>5
  <2>2. CASE i = m
    BY <2>1, <2>2
  <2>3. CASE i # m
    <3>1. i \in 1..(m - 1)
      BY <1>5, <2>3
    <3>2. h[i] = f[i]
      BY <1>5, <2>3
    <3> QED  BY <1>4, <2>1, <3>1, <3>2 DEF Follows
  <2> QED  BY <2>2, <2>3
<1>9. Follows(h, m, S, a, g)
  <2> HIDE DEF h
  <2> QED  BY <1>6, <1>7, <1>8 DEF Follows
<1> QED  BY <1>2, <1>9

LEMMA StaysIn ==
    ASSUME NEW k \in Nat, NEW S, NEW f, f[0] \in S,
           \A i \in 1..k : f[i - 1] \in S => f[i] \in S
    PROVE  \A i \in 0..k : f[i] \in S
<1> DEFINE Bad == {i \in 0..k : f[i] \notin S}
<1>1. SUFFICES ASSUME Bad # {} PROVE FALSE
  OBVIOUS
<1>2. PICK m \in Bad : \A i \in Bad : m <= i
  <2>1. Bad \in SUBSET Nat
    OBVIOUS
  <2> HIDE DEF Bad
  <2> QED  BY <1>1, <2>1, LeastIs
<1>3. m \in 1..k
  BY <1>2
<1>4. m - 1 \in 0..k /\ ~(m <= m - 1)
  BY <1>3
<1>5. f[m - 1] \in S
  BY <1>2, <1>4
<1> QED  BY <1>2, <1>3, <1>5

-----------------------------------------------------------------------------
LEMMA PowersAre ==
    ASSUME NEW base \in Bases
    PROVE  /\ Powers(base)[0] = 1
           /\ \A i \in 1..TMP : Powers(base)[i] = base * Powers(base)[i - 1]
           /\ \A i \in 0..TMP : Powers(base)[i] \in Nat \ {0}
<1> DEFINE g == [i \in 1..TMP |-> [y \in Nat |-> base * y]]
           Is(f) == f = [i \in 0..TMP |-> IF i = 0 THEN 1 ELSE base * f[i - 1]]
<1>1. base \in Nat \ {0} /\ TMP \in Nat
  BY PrintfAssumption DEF Bases
<1>2. PICK f : Follows(f, TMP, Nat, 1, g)
  <2>1. g \in [1..TMP -> [Nat -> Nat]] /\ 1 \in Nat
    BY <1>1
  <2> HIDE DEF g
  <2> QED  BY <1>1, <2>1, Recursion
<1>3. Is(f)
  <2>1. ASSUME NEW i \in 1..TMP PROVE f[i] = base * f[i - 1]
    <3>1. f[i - 1] \in Nat
      BY <1>1, <1>2 DEF Follows
    <3> QED  BY <1>2, <3>1 DEF Follows
  <2>2. ASSUME NEW i \in 0..TMP
        PROVE  f[i] = IF i = 0 THEN 1 ELSE base * f[i - 1]
    BY <1>1, <1>2, <2>1 DEF Follows
  <2> QED  BY <1>2, <2>2 DEF Follows
<1>4. Is(Powers(base))
  <2>1. Powers(base) = CHOOSE power : Is(power)
    BY DEF Powers
  <2> HIDE DEF Is
  <2> QED  BY <1>3, <2>1
<1>5. /\ Powers(base)[0] = 1
      /\ \A i \in 1..TMP : Powers(base)[i] = base * Powers(base)[i - 1]
  BY <1>1, <1>4
<1>6. \A i \in 0..TMP : Powers(base)[i] \in Nat \ {0}
  <2>1. ASSUME NEW i \in 1..TMP, Powers(base)[i - 1] \in Nat \ {0}
        PROVE  Powers(base)[i] \in Nat \ {0}
    BY <1>1, <1>5, <2>1
  <2>2. Powers(base)[0] \in Nat \ {0}
    BY <1>5
  <2> QED  BY <1>1, <2>1, <2>2, StaysIn, Zenon
<1> QED  BY <1>5, <1>6

(* They grow.                                                               *)
LEMMA PowersGrow ==
    ASSUME NEW base \in Bases, NEW i \in 0..TMP, NEW j \in i..TMP
    PROVE  Powers(base)[i] <= Powers(base)[j]
<1> DEFINE f == [d \in 0..(TMP - i) |-> Powers(base)[i + d]]
           S == {y \in Nat : Powers(base)[i] <= y}
<1>1. base \in Nat \ {0} /\ TMP \in Nat /\ TMP - i \in Nat
  BY PrintfAssumption DEF Bases
<1>2. f[0] \in S
  BY <1>1, PowersAre
<1>3. ASSUME NEW d \in 1..(TMP - i), f[d - 1] \in S PROVE f[d] \in S
  <2>1. i + d \in 1..TMP /\ i + (d - 1) = (i + d) - 1 /\ d - 1 \in 0..(TMP - i)
    BY <1>1
  <2>2. f[d] = base * f[d - 1]
    BY <1>1, <2>1, PowersAre
  <2>3. base * f[d - 1] >= f[d - 1]
    BY <1>1, <1>3
  <2> QED  BY <1>1, <1>2, <1>3, <2>2, <2>3
<1>4. f[j - i] \in S
  <2>1. \A d \in 0..(TMP - i) : f[d] \in S
    <3> HIDE DEF f, S
    <3> QED  BY <1>1, <1>2, <1>3, StaysIn
  <2> QED  BY <1>1, <2>1
<1> QED  BY <1>1, <1>4

LEMMA DivDiv ==
    ASSUME NEW v \in Nat, NEW d \in Nat \ {0}, NEW base \in Nat \ {0}
    PROVE  v \div (base * d) = (v \div d) \div base
<1> DEFINE y == v \div d
           z == y \div base
<1>1. y \in Nat /\ z \in Nat
  OBVIOUS
<1>2. y * d <= v /\ v < (y + 1) * d
  OBVIOUS
<1>3. z * base <= y /\ y + 1 <= (z + 1) * base
  OBVIOUS
<1> HIDE DEF y, z
<1>4. (z * base) * d <= y * d /\ (y + 1) * d <= ((z + 1) * base) * d
  BY <1>1, <1>3
<1>5. z * (base * d) <= v /\ v < (z + 1) * (base * d)
  BY <1>1, <1>2, <1>4
<1>6. base * d \in Nat \ {0}
  OBVIOUS
<1>7. v \div (base * d) = z
  BY <1>1, <1>5, <1>6
<1> QED  BY <1>7 DEF y, z

-----------------------------------------------------------------------------
(* The digits.                                                              *)
Places(v, base, k) ==
    /\ k \in 1..TMP /\ v < Powers(base)[k]
    /\ k = 1 \/ Powers(base)[k - 1] <= v

LEMMA PositionalOf ==
    ASSUME NEW base \in Bases, NEW v \in Nat, NEW k, Places(v, base, k)
    PROVE  Positional(v, base) =
             [i \in 1..k |-> (v \div Powers(base)[k - i]) % base]
<1> DEFINE S == {j \in 1..TMP : v < Powers(base)[j]}
<1>0. TMP \in Nat
  BY PrintfAssumption
<1>1. k \in S /\ S \in SUBSET Int
  BY DEF Places
<1>2. ASSUME NEW j \in S PROVE k <= j
  <2> SUFFICES ASSUME j < k PROVE FALSE
    BY <1>1
  <2>1. k - 1 \in j..TMP /\ j \in 0..TMP /\ k # 1
    BY <1>0 DEF Places
  <2>2. Powers(base)[j] <= Powers(base)[k - 1] /\ Powers(base)[k - 1] <= v
    BY <2>1, PowersGrow DEF Places
  <2>3. v < Powers(base)[j] /\ Powers(base)[j] \in Nat
        /\ Powers(base)[k - 1] \in Nat
    BY <1>0, <2>1, PowersAre
  <2> QED  BY <2>2, <2>3
<1>3. Min(S) = k
  <2> HIDE DEF S
  <2> QED  BY <1>1, <1>2, MinIs
<1> QED  BY <1>3 DEF Positional

LEMMA PlacesExist ==
    ASSUME NEW base \in Bases, NEW v \in Nat, v < INT_SPAN
    PROVE  \E k : Places(v, base, k)
<1> DEFINE S == {j \in 1..TMP : v < Powers(base)[j]}
<1>1. TMP \in Nat \ {0} /\ INT_SPAN \in Nat /\ INT_SPAN <= Powers(base)[TMP]
  BY PrintfAssumption
<1>2. TMP \in S
  BY <1>1, PowersAre
<1>3. PICK k \in S : \A j \in S : k <= j
  <2>1. S \in SUBSET Nat /\ S # {}
    BY <1>2
  <2> HIDE DEF S
  <2> QED  BY <2>1, LeastIs
<1>4. ASSUME k # 1 PROVE Powers(base)[k - 1] <= v
  <2>1. k - 1 \in 1..TMP /\ k - 1 \in 0..TMP /\ ~(k <= k - 1)
    BY <1>1, <1>4
  <2>2. ~(v < Powers(base)[k - 1])
    BY <1>3, <2>1
  <2>3. Powers(base)[k - 1] \in Nat
    BY <2>1, PowersAre
  <2> QED  BY <2>2, <2>3
<1> QED  BY <1>3, <1>4 DEF Places

LEMMA PositionalType ==
    ASSUME NEW base \in Bases, NEW v \in Nat, v < INT_SPAN
    PROVE  Positional(v, base) \in Seq(Nat)
<1>1. PICK k : Places(v, base, k)
  BY PlacesExist
<1>2. k \in Nat /\ TMP \in Nat
  BY <1>1, PrintfAssumption DEF Places
<1>3. ASSUME NEW i \in 1..k
      PROVE  (v \div Powers(base)[k - i]) % base \in Nat
  <2>1. k - i \in 0..TMP
    BY <1>1, <1>2 DEF Places
  <2>2. Powers(base)[k - i] \in Nat \ {0}
    BY <2>1, PowersAre
  <2>3. base \in Nat \ {0}
    BY DEF Bases
  <2>4. v \div Powers(base)[k - i] \in Nat
    BY <2>2
  <2> QED  BY <2>3, <2>4
<1>4. [i \in 1..k |-> (v \div Powers(base)[k - i]) % base] \in Seq(Nat)
  BY <1>2, <1>3
<1> QED  BY <1>1, <1>4, PositionalOf

(* What the digits so far are of the number v.                              *)
Digit(v, base, j) == (v \div Powers(base)[j - 1]) % base
Converted(v, base) ==
    \/ v = 0 /\ value = 0 /\ tmp = <<0>>
    \/ /\ v > 0 /\ Len(tmp) <= TMP
       /\ value = v \div Powers(base)[Len(tmp)]
       /\ Len(tmp) > 0 => Powers(base)[Len(tmp) - 1] <= v
       /\ \A j \in 1..Len(tmp) : tmp[j] = Digit(v, base, j)

LEMMA DigitsDone ==
    ASSUME NEW base \in Bases, NEW v \in Nat, Converted(v, base),
           tmp \in Seq(Nat), value = 0
    PROVE  Reverse(tmp) = Positional(v, base)
<1>0. TMP \in Nat \ {0}
  BY PrintfAssumption
<1>b. base \in Nat \ {0}
  BY DEF Bases
<1>1. CASE v = 0
  <2>1. tmp = <<0>>
    BY <1>1 DEF Converted
  <2>2. Places(v, base, 1)
    <3>1. 1 \in 1..TMP
      BY <1>0
    <3>2. Powers(base)[1] \in Nat \ {0}
      BY <1>0, PowersAre
    <3> QED  BY <1>1, <3>1, <3>2 DEF Places
  <2>3. Positional(v, base)
          = [i \in 1..1 |-> (v \div Powers(base)[1 - i]) % base]
    BY <2>2, PositionalOf
  <2>4. (v \div Powers(base)[1 - 1]) % base = 0
    <3>1. Powers(base)[0] = 1
      BY PowersAre
    <3> QED  BY <1>1, <1>b, <3>1
  <2>5. Reverse(tmp) = [i \in 1..1 |-> 0]
    BY <2>1 DEF Reverse
  <2> QED  BY <2>3, <2>4, <2>5
<1>2. CASE v > 0
  <2> DEFINE k == Len(tmp)
  <2>0. k \in Nat
    OBVIOUS
  <2>1. /\ k <= TMP
        /\ v \div Powers(base)[k] = 0
        /\ k > 0 => Powers(base)[k - 1] <= v
        /\ \A j \in 1..k : tmp[j] = Digit(v, base, j)
    BY <1>2 DEF Converted
  <2>2. k # 0
    <3>1. Powers(base)[0] = 1
      BY PowersAre
    <3> QED  BY <1>2, <2>1, <3>1
  <2>3. Places(v, base, k)
    <3>1. k \in 1..TMP
      BY <1>0, <2>0, <2>1, <2>2
    <3>2. Powers(base)[k] \in Nat \ {0}
      BY <1>0, <3>1, PowersAre
    <3>3. v < Powers(base)[k]
      BY <2>1, <3>2
    <3> QED  BY <2>0, <2>1, <2>2, <3>1, <3>3 DEF Places
  <2>4. Positional(v, base)
          = [i \in 1..k |-> (v \div Powers(base)[k - i]) % base]
    BY <2>3, PositionalOf
  <2>5. ASSUME NEW i \in 1..k
        PROVE  tmp[k - i + 1] = (v \div Powers(base)[k - i]) % base
    <3>1. k - i + 1 \in 1..k /\ (k - i + 1) - 1 = k - i
      BY <2>0
    <3> QED  BY <2>1, <3>1 DEF Digit
  <2> QED  BY <2>4, <2>5 DEF Reverse
<1> QED  BY <1>1, <1>2

(* A digit more.                                                            *)
LEMMA DigitAdded ==
    ASSUME NEW base \in Bases, NEW v \in Nat, v < INT_SPAN,
           Converted(v, base), tmp \in Seq(Nat), value # 0,
           tmp' = Append(tmp, value % base), value' = value \div base
    PROVE  Converted(v, base)' /\ tmp' \in Seq(Nat) /\ value' \in Nat
<1> DEFINE k == Len(tmp)
<1>0. TMP \in Nat \ {0} /\ base \in Nat \ {0} /\ k \in Nat
      /\ INT_SPAN \in Nat /\ INT_SPAN <= Powers(base)[TMP]
  BY PrintfAssumption DEF Bases
<1>1. /\ v > 0 /\ k <= TMP
      /\ value = v \div Powers(base)[k]
      /\ \A j \in 1..k : tmp[j] = Digit(v, base, j)
  BY DEF Converted
<1>2. k \in 0..TMP
  BY <1>0, <1>1
<1>3. Powers(base)[k] \in Nat \ {0}
  BY <1>2, PowersAre
<1>4. value \in Nat
  BY <1>1, <1>3
<1>5. Powers(base)[k] <= v
  BY <1>1, <1>3, <1>4
<1>6. k < TMP
  BY <1>0, <1>2, <1>3, <1>5
<1>7. k + 1 \in 1..TMP /\ (k + 1) - 1 = k
  BY <1>0, <1>6
<1>8. Powers(base)[k + 1] = base * Powers(base)[k]
  BY <1>7, PowersAre
<1>9. v \div Powers(base)[k + 1] = (v \div Powers(base)[k]) \div base
  BY <1>0, <1>3, <1>8, DivDiv
<1>10. value % base \in Nat /\ value \div base \in Nat
  BY <1>0, <1>4
<1>11. tmp' \in Seq(Nat) /\ Len(tmp') = k + 1
  BY <1>10
<1>12. ASSUME NEW j \in 1..(k + 1) PROVE tmp'[j] = Digit(v, base, j)
  <2>1. CASE j = k + 1
    BY <1>1, <1>7, <2>1 DEF Digit
  <2>2. CASE j # k + 1
    <3>1. j \in 1..k
      BY <1>0, <2>2
    <3> QED  BY <1>1, <3>1
  <2> QED  BY <2>1, <2>2
<1>13. value' = v \div Powers(base)[k + 1]
  BY <1>1, <1>9
<1>14. Converted(v, base)'
  <2>1. /\ v > 0 /\ Len(tmp') <= TMP
        /\ value' = v \div Powers(base)[Len(tmp')]
        /\ Len(tmp') > 0 => Powers(base)[Len(tmp') - 1] <= v
        /\ \A j \in 1..Len(tmp') : tmp'[j] = Digit(v, base, j)
    BY <1>1, <1>5, <1>7, <1>11, <1>12, <1>13
  <2> QED  BY <2>1 DEF Converted, Digit
<1> QED  BY <1>10, <1>11, <1>14

-----------------------------------------------------------------------------
(* The number an item means and the one that is written.                    *)
LEMMA Magnitude ==
    ASSUME NEW i, IsItem(i), i.kind = "num"
    PROVE  /\ Value(i) \in Int
           /\ negative(i) <=> Value(i) < 0
           /\ magnitude(i) = IF Value(i) < 0 THEN -Value(i) ELSE Value(i)
           /\ magnitude(i) \in Nat /\ magnitude(i) < INT_SPAN
<1>1. /\ CHAR_SPAN \in Nat \ {0} /\ SHORT_SPAN \in Nat \ {0}
      /\ INT_SPAN \in Nat \ {0}
      /\ 2 * CHAR_SPAN <= INT_SPAN /\ SHORT_SPAN <= INT_SPAN
  BY PrintfAssumption
<1>2. i.arg \in Nat /\ i.sign \in BOOLEAN
      /\ i.size \in {"char", "short", "int"}
  BY DEF IsItem
<1>3. CASE i.size = "char"
  <2> DEFINE y == i.arg % CHAR_SPAN
  <2>1. y \in Nat /\ y < CHAR_SPAN
    BY <1>1, <1>2
  <2>2. truncate(i) = y /\ Value(i) = y
    BY <1>3 DEF truncate, Value
  <2> HIDE DEF y
  <2>3. ~negative(i)
    BY <1>1, <2>1, <2>2 DEF negative
  <2> QED  BY <1>1, <2>1, <2>2, <2>3 DEF magnitude
<1>4. CASE i.size = "short"
  <2> DEFINE y == i.arg % SHORT_SPAN
  <2>1. y \in Nat /\ y < SHORT_SPAN
    BY <1>1, <1>2
  <2>2. /\ truncate(i) = IF i.sign /\ 2 * y >= SHORT_SPAN
                         THEN INT_SPAN - SHORT_SPAN + y ELSE y
        /\ Value(i) = IF i.sign /\ 2 * y >= SHORT_SPAN
                      THEN y - SHORT_SPAN ELSE y
    BY <1>4 DEF truncate, Value
  <2> HIDE DEF y
  <2>3. CASE i.sign /\ 2 * y >= SHORT_SPAN
    BY <1>1, <2>1, <2>2, <2>3 DEF negative, magnitude
  <2>4. CASE ~(i.sign /\ 2 * y >= SHORT_SPAN)
    BY <1>1, <2>1, <2>2, <2>4 DEF negative, magnitude
  <2> QED  BY <2>3, <2>4
<1>5. CASE i.size = "int"
  <2> DEFINE y == i.arg % INT_SPAN
  <2>1. y \in Nat /\ y < INT_SPAN
    BY <1>1, <1>2
  <2>2. /\ truncate(i) = y
        /\ Value(i) = IF i.sign /\ 2 * y >= INT_SPAN
                      THEN y - INT_SPAN ELSE y
    BY <1>5 DEF truncate, Value
  <2> HIDE DEF y
  <2>3. CASE i.sign /\ 2 * y >= INT_SPAN
    BY <1>1, <2>1, <2>2, <2>3 DEF negative, magnitude
  <2>4. CASE ~(i.sign /\ 2 * y >= INT_SPAN)
    BY <1>1, <2>1, <2>2, <2>4 DEF negative, magnitude
  <2> QED  BY <2>3, <2>4
<1> QED  BY <1>2, <1>3, <1>4, <1>5

LEMMA TimesType ==
    ASSUME NEW k \in Int, NEW char \in Nat
    PROVE  Times(k, char) \in Seq(Nat)
<1>1. CASE k > 0
  <2>1. [i \in 1..k |-> char] \in Seq(Nat)
    BY <1>1
  <2> QED  BY <1>1, <2>1 DEF Times
<1>2. CASE ~(k > 0)
  BY <1>2 DEF Times
<1> QED  BY <1>1, <1>2

(* The text of an item is the field it should be, and a sequence.           *)
LEMMA NumberIs ==
    ASSUME NEW i, IsItem(i), i.kind = "num"
    PROVE  /\ number(i, Positional(magnitude(i), i.base)) = Field(i)
           /\ Field(i) \in Seq(Nat)
<1> DEFINE digits == Positional(magnitude(i), i.base)
           minus == IF negative(i) THEN <<MINUS>> ELSE <<>>
           prefix == IF ~i.alt \/ i.base = 10 THEN <<>>
                     ELSE IF i.base = 8 THEN <<0>> ELSE <<0, EKS>>
           pads == i.width - Len(minus \o prefix \o digits)
<1>1. i.base \in Bases /\ i.width \in Int /\ i.alt \in BOOLEAN
      /\ i.zero \in BOOLEAN
  BY DEF IsItem
<1>2. digits \in Seq(Nat)
  BY <1>1, Magnitude, PositionalType
<1>3. minus \in Seq(Nat) /\ Len(minus) = sign_width(i)
  BY DEF MINUS, sign_width
<1>4. prefix \in Seq(Nat)
  BY DEF EKS
<1>5. Field(i) = IF i.zero THEN minus \o prefix \o Times(pads, 0) \o digits
                 ELSE prefix \o Times(pads, BLANK) \o minus \o digits
  <2>1. (IF Value(i) < 0 THEN -Value(i) ELSE Value(i)) = magnitude(i)
    BY Magnitude
  <2>2. (IF Value(i) < 0 THEN <<MINUS>> ELSE <<>>) = minus
    BY Magnitude
  <2> HIDE DEF minus
  <2> QED  BY <1>1, <2>1, <2>2 DEF Field
<1>6. prefix = alternate(i)
  BY <1>1 DEF alternate, Bases
<1> HIDE DEF prefix, minus, digits
<1>7. Len(minus \o prefix \o digits)
        = sign_width(i) + Len(prefix) + Len(digits)
  <2>1. minus \o prefix \in Seq(Nat)
        /\ Len(minus \o prefix) = Len(minus) + Len(prefix)
    BY <1>3, <1>4
  <2>2. Len((minus \o prefix) \o digits) = Len(minus \o prefix) + Len(digits)
    BY <1>2, <2>1
  <2> QED  BY <1>3, <2>1, <2>2
<1>8. i.width - sign_width(i) - Len(prefix) - Len(digits) = pads
  <2>1. Len(prefix) \in Nat /\ Len(digits) \in Nat /\ sign_width(i) \in Nat
    BY <1>2, <1>4 DEF sign_width
  <2> QED  BY <1>1, <1>7, <2>1
<1> HIDE DEF pads
<1>9. number(i, digits)
        = IF i.zero THEN minus \o prefix \o Times(pads, 0) \o digits
          ELSE prefix \o Times(pads, BLANK) \o minus \o digits
  <2>1. number(i, digits)
          = LET pad == Times(i.width - sign_width(i) - Len(prefix)
                               - Len(digits), IF i.zero THEN 0 ELSE BLANK)
            IN  IF i.zero THEN minus \o prefix \o pad \o digits
                ELSE prefix \o pad \o minus \o digits
    BY <1>6 DEF number, minus
  <2> QED  BY <1>8, <2>1
<1>10. Field(i) \in Seq(Nat)
  <2>1. pads \in Int
    BY <1>1, <1>2, <1>3, <1>4 DEF pads
  <2>2. Times(pads, 0) \in Seq(Nat) /\ Times(pads, BLANK) \in Seq(Nat)
    BY <2>1, TimesType DEF BLANK
  <2> QED  BY <1>1, <1>2, <1>3, <1>4, <1>5, <2>2
<1> QED  BY <1>5, <1>9, <1>10 DEF digits

LEMMA FieldType ==
    ASSUME NEW i, IsItem(i)
    PROVE  Field(i) \in Seq(Nat)
<1>1. CASE i.kind = "num"
  BY <1>1, NumberIs
<1>2. CASE i.kind = "char"
  BY <1>2 DEF IsItem, Field
<1>3. CASE i.kind = "str"
  <2>1. i.arg \in Seq(Nat) /\ i.width \in Int
    BY <1>3 DEF IsItem
  <2>2. i.width - Len(i.arg) \in Int /\ BLANK \in Nat
    BY <2>1 DEF BLANK
  <2>3. Times(i.width - Len(i.arg), BLANK) \in Seq(Nat)
    BY <2>2, TimesType
  <2>4. Field(i) = i.arg \o Times(i.width - Len(i.arg), BLANK)
    BY <1>3 DEF Field
  <2> QED  BY <2>1, <2>3, <2>4
<1> QED  BY <1>1, <1>2, <1>3 DEF IsItem

LEMMA TextsAre ==
    ASSUME NEW f \in Formats
    PROVE  /\ Texts(f)[0] = <<>>
           /\ \A i \in 1..Len(f) : Texts(f)[i] = Texts(f)[i - 1] \o Field(f[i])
           /\ \A i \in 0..Len(f) : Texts(f)[i] \in Seq(Nat)
<1> DEFINE g == [i \in 1..Len(f) |-> [y \in Seq(Nat) |-> y \o Field(f[i])]]
           Is(t) == t = [i \in 0..Len(f) |->
                           IF i = 0 THEN <<>> ELSE t[i - 1] \o Field(f[i])]
<1>1. Len(f) \in Nat /\ \A i \in 1..Len(f) : Field(f[i]) \in Seq(Nat)
  BY FieldType, PrintfAssumption
<1>2. PICK t : Follows(t, Len(f), Seq(Nat), <<>>, g)
  <2>1. ASSUME NEW i \in 1..Len(f), NEW y \in Seq(Nat)
        PROVE  y \o Field(f[i]) \in Seq(Nat)
    BY <1>1
  <2>2. g \in [1..Len(f) -> [Seq(Nat) -> Seq(Nat)]]
    BY <2>1
  <2>3. <<>> \in Seq(Nat)
    OBVIOUS
  <2> HIDE DEF g
  <2> QED  BY <1>1, <2>2, <2>3, Recursion
<1>3. Is(t)
  <2>1. ASSUME NEW i \in 1..Len(f) PROVE t[i] = t[i - 1] \o Field(f[i])
    <3>1. t[i - 1] \in Seq(Nat)
      <4>1. i - 1 \in 0..Len(f)
        BY <1>1
      <4> QED  BY <1>2, <4>1 DEF Follows
    <3> QED  BY <1>2, <3>1 DEF Follows
  <2>2. ASSUME NEW i \in 0..Len(f)
        PROVE  t[i] = IF i = 0 THEN <<>> ELSE t[i - 1] \o Field(f[i])
    <3>1. CASE i = 0
      BY <1>2, <3>1 DEF Follows
    <3>2. CASE i # 0
      <4>1. i \in 1..Len(f)
        BY <1>1, <3>2
      <4> QED  BY <2>1, <3>2, <4>1
    <3> QED  BY <3>1, <3>2
  <2>3. t = [i \in 0..Len(f) |-> t[i]]
    BY <1>2 DEF Follows
  <2> QED  BY <2>2, <2>3
<1>4. Is(Texts(f))
  <2>1. Texts(f) = CHOOSE text : Is(text)
    BY DEF Texts
  <2> HIDE DEF Is
  <2> QED  BY <1>3, <2>1
<1>5. /\ Texts(f)[0] = <<>>
      /\ \A i \in 1..Len(f) : Texts(f)[i] = Texts(f)[i - 1] \o Field(f[i])
  BY <1>1, <1>4
<1>6. \A i \in 0..Len(f) : Texts(f)[i] \in Seq(Nat)
  <2>1. ASSUME NEW i \in 1..Len(f), Texts(f)[i - 1] \in Seq(Nat)
        PROVE  Texts(f)[i] \in Seq(Nat)
    <3>1. Texts(f)[i] = Texts(f)[i - 1] \o Field(f[i])
      BY <1>5
    <3>2. Field(f[i]) \in Seq(Nat)
      BY <1>1
    <3> QED  BY <2>1, <3>1, <3>2
  <2>2. Texts(f)[0] \in Seq(Nat)
    BY <1>5
  <2> QED  BY <1>1, <2>1, <2>2, StaysIn, Zenon
<1> QED  BY <1>5, <1>6

-----------------------------------------------------------------------------
(* The buffer holds as much of a text as there is room for.                 *)
Cut(text) ==
    /\ pos = Len(text)
    /\ DOMAIN str = {a \in 0..(pos - 1) : a < end}
    /\ \A a \in DOMAIN str : str[a] = text[a + 1]

PrintType ==
    /\ format \in Formats /\ at \in 1..(Len(format) + 1)
    /\ size \in Nat /\ pos \in Nat /\ value \in Nat /\ tmp \in Seq(Nat)
    /\ printed \in BOOLEAN

Converting ==
    value # 0 \/ tmp # <<>>
        => comes("num") /\ Converted(magnitude(item), item.base)

Returned == printed => at > Len(format) /\ PrintBounded /\ PrintExact

PrintInv ==
    /\ PrintType /\ Converting /\ Returned
    /\ ~printed => Cut(Texts(format)[at - 1])

LEMMA ItemType ==
    ASSUME PrintType, at <= Len(format)
    PROVE  IsItem(item) /\ item.base \in Bases
<1>1. at \in 1..Len(format)
  BY PrintfAssumption DEF PrintType
<1> QED  BY <1>1, PrintfAssumption DEF PrintType, item, IsItem

(* Writing the field of an item.                                            *)
LEMMA PutField ==
    ASSUME PrintInv, at <= Len(format), put(Field(item)), tmp' = <<>>,
           value = 0
    PROVE  PrintInv'
<1> DEFINE text == Field(item)
           T == Texts(format)[at - 1]
           U == Texts(format)[at]
           room == {a \in pos..(pos + Len(text) - 1) : a < end}
<1>1. PrintType /\ ~printed /\ Cut(T) /\ Len(format) \in Nat
  BY PrintfAssumption DEF PrintInv, PrintType, Returned
<1>2. /\ at \in 1..Len(format) /\ at \in 0..Len(format)
      /\ at - 1 \in 0..Len(format)
  BY <1>1 DEF PrintType
<1>3. T \in Seq(Nat) /\ text \in Seq(Nat) /\ U = T \o text /\ U \in Seq(Nat)
  <2>1. text \in Seq(Nat)
    BY <1>1, ItemType, FieldType
  <2> QED  BY <1>1, <1>2, <2>1, TextsAre DEF PrintType, item
<1>4. /\ str' = [a \in DOMAIN str \cup room |->
                   IF a \in room THEN text[a - pos + 1] ELSE str[a]]
      /\ pos' = pos + Len(text) /\ at' = at + 1
      /\ UNCHANGED <<format, size, value, printed>>
  BY DEF put, do_putch
<1>5. PrintType'
  BY <1>1, <1>2, <1>3, <1>4 DEF PrintType
<1>6. Converting' /\ Returned'
  BY <1>1, <1>4 DEF Converting, Returned
<1>7. /\ pos' = Len(U)
      /\ DOMAIN str' = {a \in 0..(pos' - 1) : a < end'}
      /\ \A a \in DOMAIN str' : str'[a] = U[a + 1]
  <2>0. /\ pos = Len(T) /\ Len(T) \in Nat /\ Len(text) \in Nat
        /\ Len(U) = Len(T) + Len(text) /\ end \in Int
        /\ \A j \in 1..Len(U) : U[j] = IF j <= Len(T) THEN T[j]
                                       ELSE text[j - Len(T)]
    BY <1>1, <1>3 DEF Cut, PrintType, end
  <2>1. pos' = Len(U)
    BY <1>4, <2>0
  <2>2. DOMAIN str = {a \in 0..(pos - 1) : a < end}
    BY <1>1 DEF Cut
  <2>3. DOMAIN str' = {a \in 0..(pos' - 1) : a < end}
    BY <1>4, <2>0, <2>2
  <2>4. ASSUME NEW a \in DOMAIN str' PROVE str'[a] = U[a + 1]
    <3>1. a \in 0..(pos' - 1) /\ a < end /\ a + 1 \in 1..Len(U)
      BY <2>0, <2>1, <2>3
    <3>2. CASE a \in room
      <4>1. str'[a] = text[a - pos + 1] /\ ~(a + 1 <= Len(T))
            /\ (a + 1) - Len(T) = a - pos + 1
        BY <1>4, <2>0, <3>2
      <4> QED  BY <2>0, <3>1, <4>1
    <3>3. CASE a \notin room
      <4>1. a \in DOMAIN str /\ str'[a] = str[a]
        BY <1>4, <2>4, <3>3
      <4>2. a + 1 <= Len(T)
        BY <2>0, <2>2, <4>1
      <4>3. str[a] = T[a + 1]
        BY <1>1, <4>1 DEF Cut
      <4> QED  BY <2>0, <3>1, <4>1, <4>2, <4>3
    <3> QED  BY <3>2, <3>3
  <2> HIDE DEF U
  <2>5. end' = end
    BY <1>4 DEF end
  <2> QED  BY <2>1, <2>3, <2>4, <2>5
<1>8. Cut(Texts(format)[at - 1])'
  <2>1. Texts(format')[at' - 1] = U
    BY <1>2, <1>4
  <2> QED  BY <1>7, <2>1 DEF Cut
<1> QED  BY <1>5, <1>6, <1>8 DEF PrintInv

LEMMA PrintInitInv == PrintInit => PrintInv
<1> SUFFICES ASSUME PrintInit PROVE PrintInv
  OBVIOUS
<1> USE DEF PrintInit
<1>1. Len(format) \in Nat
  BY PrintfAssumption
<1>2. PrintType
  <2>1. 1 \in 1..(Len(format) + 1) /\ size \in Nat
    BY <1>1, PrintfAssumption
  <2>2. tmp \in Seq(Nat)
    OBVIOUS
  <2> QED  BY <2>1, <2>2 DEF PrintType
<1>3. Cut(Texts(format)[at - 1])
  <2>1. Texts(format)[at - 1] = <<>>
    <3>1. at - 1 = 0
      OBVIOUS
    <3>2. Texts(format)[0] = <<>>
      BY TextsAre
    <3> QED  BY <3>1, <3>2
  <2>2. DOMAIN str = {} /\ Len(<<>>) = 0
    OBVIOUS
  <2>3. 0..(0 - 1) = {}
    OBVIOUS
  <2> QED  BY <2>1, <2>2, <2>3 DEF Cut
<1> QED  BY <1>2, <1>3 DEF PrintInv, Converting, Returned

LEMMA ConvertInv == ASSUME PrintInv, convert PROVE PrintInv'
<1> USE DEF convert, comes
<1>1. PrintType /\ ~printed /\ Len(format) \in Nat
  BY PrintfAssumption DEF PrintInv, PrintType, Returned
<1>2. /\ IsItem(item) /\ item.base \in Bases
      /\ magnitude(item) \in Nat
  BY <1>1, ItemType, Magnitude
<1>3. PrintType'
  BY <1>1, <1>2 DEF PrintType
<1>4. Converting'
  <2>1. comes("num")' /\ item' = item
    BY DEF item
  <2>2. Converted(magnitude(item), item.base)'
    <3>1. CASE magnitude(item) = 0
      BY <2>1, <3>1 DEF Converted
    <3>2. CASE magnitude(item) # 0
      <4>1. tmp' = <<>> /\ Len(tmp') = 0
        BY <3>2
      <4>2. Powers(item.base)[0] = 1
        BY <1>2, PowersAre
      <4>3. value' = magnitude(item) \div Powers(item.base)[Len(tmp')]
        BY <1>2, <4>1, <4>2
      <4>4. Len(tmp') <= TMP
        BY <4>1, PrintfAssumption
      <4> QED  BY <1>2, <2>1, <3>2, <4>1, <4>3, <4>4 DEF Converted
    <3> QED  BY <3>1, <3>2
  <2> QED  BY <2>1, <2>2 DEF Converting
<1>5. Cut(Texts(format)[at - 1])'
  <2>1. Cut(Texts(format)[at - 1])
    BY <1>1 DEF PrintInv
  <2> QED  BY <2>1 DEF Cut, end
<1> QED  BY <1>1, <1>3, <1>4, <1>5 DEF PrintInv, Returned

LEMMA NextDigitInv == ASSUME PrintInv, next_digit PROVE PrintInv'
<1> USE DEF next_digit
<1>1. /\ PrintType /\ comes("num")
      /\ Converted(magnitude(item), item.base)
      /\ tmp \in Seq(Nat)
  BY DEF PrintInv, PrintType, Converting
<1>2. /\ IsItem(item) /\ item.base \in Bases
      /\ magnitude(item) \in Nat /\ magnitude(item) < INT_SPAN
  BY <1>1, ItemType, Magnitude DEF comes
<1>3. /\ tmp' \in Seq(Nat) /\ value' \in Nat
      /\ Converted(magnitude(item), item.base)'
  <2>1. item' = item
    BY DEF item
  <2>2. ASSUME NEW base \in Bases, NEW v \in Nat, v < INT_SPAN,
               Converted(v, base), base = item.base
        PROVE  Converted(v, base)' /\ tmp' \in Seq(Nat) /\ value' \in Nat
    BY <1>1, <2>2, DigitAdded
  <2>3. PICK base \in Bases : base = item.base
    BY <1>2
  <2>4. PICK v \in Nat : v = magnitude(item)
    BY <1>2
  <2>5. Converted(v, base)' /\ tmp' \in Seq(Nat) /\ value' \in Nat
    BY <1>1, <1>2, <2>2, <2>3, <2>4
  <2> QED  BY <2>1, <2>3, <2>4, <2>5 DEF Converted
<1>4. PrintType'
  BY <1>1, <1>3 DEF PrintType
<1>5. comes("num")' /\ ~printed /\ Len(format) \in Nat
  BY <1>1, PrintfAssumption DEF comes, item, PrintInv, Returned, PrintType
<1>6. Cut(Texts(format)[at - 1])'
  <2>1. Cut(Texts(format)[at - 1])
    BY <1>5 DEF PrintInv
  <2> QED  BY <2>1 DEF Cut, end
<1> QED  BY <1>3, <1>4, <1>5, <1>6 DEF PrintInv, Converting, Returned

LEMMA PutNumberInv == ASSUME PrintInv, put_number PROVE PrintInv'
<1> USE DEF put_number
<1>1. /\ PrintType /\ comes("num")
      /\ Converted(magnitude(item), item.base)
      /\ tmp \in Seq(Nat) /\ at <= Len(format)
  BY DEF PrintInv, PrintType, Converting, comes
<1>2. /\ IsItem(item) /\ item.base \in Bases
      /\ magnitude(item) \in Nat
  BY <1>1, ItemType, Magnitude DEF comes
<1>3. Reverse(tmp) = Positional(magnitude(item), item.base)
  BY <1>1, <1>2, DigitsDone
<1>4. number(item, Reverse(tmp)) = Field(item)
  BY <1>1, <1>2, <1>3, NumberIs DEF comes
<1> QED  BY <1>1, <1>4, PutField

LEMMA PutCharInv == ASSUME PrintInv, put_char \/ put_string PROVE PrintInv'
<1> USE DEF put_char, put_string
<1>1. at <= Len(format) /\ item.kind \in {"char", "str"}
  BY DEF comes
<1>2. value = 0 /\ tmp = <<>> /\ tmp' = <<>>
  BY <1>1 DEF PrintInv, Converting, comes
<1>3. put(Field(item))
  BY DEF Field, comes
<1> QED  BY <1>1, <1>2, <1>3, PutField

LEMMA TerminateInv == ASSUME PrintInv, terminate PROVE PrintInv'
<1> USE DEF terminate
<1> DEFINE nul == IF pos <= end THEN {pos} ELSE IF 0 <= end THEN {end} ELSE {}
<1>1. /\ PrintType /\ ~printed /\ Len(format) \in Nat
      /\ at > Len(format) /\ at = Len(format) + 1
      /\ Cut(Texts(format)[at - 1])
  BY PrintfAssumption DEF PrintInv, PrintType
<1>2. Texts(format)[at - 1] = Text /\ Cut(Text)
  BY <1>1 DEF Text
<1>3. value = 0 /\ tmp = <<>>
  BY <1>1 DEF PrintInv, Converting, comes
<1>4. PrintType'
  BY <1>1 DEF PrintType
<1>5. Converting'
  BY <1>3 DEF Converting
<1>6. /\ pos \in Nat /\ size \in Nat /\ end = size - 1
      /\ pos = Len(Text)
      /\ DOMAIN str = {a \in 0..(pos - 1) : a < end}
      /\ \A a \in DOMAIN str : str[a] = Text[a + 1]
  BY <1>1, <1>2 DEF Cut, PrintType, end
<1>7. /\ DOMAIN str' = DOMAIN str \cup nul
      /\ \A a \in DOMAIN str \cup nul :
            str'[a] = IF a \in nul THEN NUL ELSE str[a]
      /\ UNCHANGED <<format, at, size, pos, value, tmp>> /\ printed'
  OBVIOUS
<1>8. nul = IF size = 0 THEN {}
            ELSE IF pos < size THEN {pos} ELSE {size - 1}
  BY <1>6
<1> HIDE DEF nul
<1>9. PrintBounded'
  <2>1. DOMAIN str' \subseteq 0..(size - 1)
    BY <1>6, <1>7, <1>8
  <2>2. size > 0 => \E a \in DOMAIN str' : str'[a] = NUL
    BY <1>6, <1>7, <1>8
  <2>3. Len(tmp) <= TMP
    BY <1>3, PrintfAssumption
  <2> QED  BY <1>7, <2>1, <2>2, <2>3 DEF PrintBounded
<1>10. PrintExact'
  <2>1. ASSUME NEW a \in 0..(size - 2), a < pos PROVE str'[a] = Text[a + 1]
    <3>1. a \in DOMAIN str /\ a \notin nul
      BY <1>6, <1>8, <2>1
    <3> QED  BY <1>6, <1>7, <3>1
  <2>2. size > 0 => str'[IF pos < size THEN pos ELSE size - 1] = NUL
    BY <1>6, <1>7, <1>8
  <2>3. Text' = Text
    BY DEF Text
  <2> QED  BY <1>6, <1>7, <2>1, <2>2, <2>3 DEF PrintExact
<1> QED  BY <1>1, <1>4, <1>5, <1>7, <1>9, <1>10 DEF PrintInv, Returned

LEMMA PrintInvariance == PrintSpec => []PrintInv
<1>1. PrintInv /\ UNCHANGED pvars => PrintInv'
  BY DEF pvars, PrintInv, PrintType, Converting, Returned, Cut, Converted,
     PrintBounded, PrintExact, Text, comes, item, end, Digit
<1>2. PrintInv /\ [PrintNext]_pvars => PrintInv'
  BY <1>1, PutCharInv, ConvertInv, NextDigitInv, PutNumberInv, TerminateInv
     DEF PrintNext
<1> QED  BY <1>2, PrintInitInv, PTL DEF PrintSpec

(* Whatever the format, the arguments and the size of the buffer - none at  *)
(* all included - nothing is written outside it, the digits of a number fit *)
(* in tmp[], and what is there at the end is terminated (string.c:12-25,    *)
(* 133-153).                                                                *)
THEOREM PrintInBounds == PrintSpec => []PrintBounded
<1>1. PrintInv => PrintBounded
  <2> SUFFICES ASSUME PrintInv PROVE PrintBounded
    OBVIOUS
  <2>1. CASE printed
    BY <2>1 DEF PrintInv, Returned
  <2>2. CASE ~printed
    <3>1. /\ DOMAIN str = {a \in 0..(pos - 1) : a < end}
          /\ pos \in Nat /\ size \in Nat
      BY <2>2 DEF PrintInv, PrintType, Cut
    <3>2. DOMAIN str \subseteq 0..(size - 1)
      BY <3>1 DEF end
    <3>3. Len(tmp) <= TMP
      <4>1. CASE tmp = <<>>
        BY <4>1, PrintfAssumption
      <4>2. CASE tmp # <<>>
        <5>1. Converted(magnitude(item), item.base)
          BY <4>2 DEF PrintInv, Converting
        <5>2. CASE tmp = <<0>>
          BY <5>2, PrintfAssumption
        <5> QED  BY <5>1, <5>2 DEF Converted
      <4> QED  BY <4>1, <4>2
    <3> QED  BY <2>2, <3>2, <3>3 DEF PrintBounded
  <2> QED  BY <2>1, <2>2 DEF PrintInv, PrintType
<1> QED  BY <1>1, PrintInvariance, PTL

(* At the end the buffer holds as much of the text as there is room for,    *)
(* and the call returns the length of all of it: the fields have the values *)
(* and the widths asked for, the least negative number included             *)
(* (string.c:81-155).                                                       *)
THEOREM PrintingIsExact == PrintSpec => []PrintExact
<1>1. PrintInv => PrintExact
  BY DEF PrintInv, Returned, PrintExact
<1> QED  BY <1>1, PrintInvariance, PTL
=============================================================================
