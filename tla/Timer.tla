------------------------------- MODULE Timer -------------------------------
(***************************************************************************)
(* System time and deadline timers (src/time.c, src/timer.c): a thread     *)
(* that reads the time and sets and cancels timers, and the interrupt that *)
(* runs their callbacks between any two of its steps.                      *)
(*                                                                         *)
(* Time is 32 bits wide, of which the hardware counts (down) the lower 24; *)
(* the rest is in time_stamp, which a timer of its own renews.  Here these *)
(* are SPAN and WRAP.  clock is the true time, modulo SPAN: nothing bounds *)
(* how long the system runs.                                               *)
(***************************************************************************)
EXTENDS Integers, SequencesExt

CONSTANTS
    SPAN,          \* 2^32
    WRAP,          \* 2^24, the period of the hardware counter
    SLACK_TICKS,
    Timers,        \* the timers the program sets
    STAMP,         \* time_stamp_timer
    Delays,        \* how far from now the program sets deadlines
    LATENCY,       \* ticks from the timer's interrupt to the end of its handler
    GAP            \* ticks the thread is held up between time_now's two reads

ASSUME TimerAssumption ==
    /\ WRAP \in Nat \ {0} /\ SPAN \in Nat /\ SPAN % WRAP = 0 /\ WRAP % 2 = 0
    /\ SLACK_TICKS \in Nat /\ LATENCY \in Nat /\ GAP \in Nat
    /\ STAMP \notin Timers
    /\ \A d \in Delays : d \in Int /\ d > -WRAP /\ d < WRAP

\* The stamp is renewed twice as often as the counter wraps.
TIME_UPDATE_PERIOD == WRAP \div 2

\* How late a callback can start: the hardware needs 2 ticks, the handler
\* LATENCY, and a deadline may have been in the past when it was set.
LATE == 2 + LATENCY + Max({0} \cup {-d : d \in Delays})

(* A late renewal and a held-up reader share the other half of the counter's *)
(* period (time.c:15-17); time is wide enough to tell a deadline ahead from  *)
(* one behind, and the slack is no longer than the renewal's delay.          *)
ASSUME MarginAssumption ==
    /\ SPAN >= 2 * WRAP /\ SLACK_TICKS <= TIME_UPDATE_PERIOD
    /\ LATE + GAP < TIME_UPDATE_PERIOD

VARIABLES
    clock,       \* the true time
    time_stamp,
    head,        \* the list of active timers, each with its deadline
    tim,         \* ticks until the hardware timer's event, -1 when stopped
    pending,     \* its interrupt is pending
    irq,         \* IRQ_timer: "none", "loop" or "call"
    cur,         \* the timer whose callback is running (else STAMP)
    thread,      \* the thread is "idle" or inside time_now ("read")
    seen,        \* the stamp it has read there (else 0)
    held,        \* ticks since it did
    busy         \* ticks since the interrupt was raised

vars == <<clock, time_stamp, head, tim, pending, irq, cur, thread, seen, held,
          busy>>

All == Timers \cup {STAMP}
Times == 0..(SPAN - 1)

TypeOK ==
    /\ clock \in Times /\ time_stamp \in Times
    /\ head \in Seq([timer: All, deadline: Times])
    /\ tim \in -1..SPAN
    /\ pending \in BOOLEAN
    /\ irq \in {"none", "loop", "call"} /\ cur \in All
    /\ thread \in {"idle", "read"} /\ seen \in Times
    /\ held \in 0..GAP /\ busy \in 0..LATENCY

-----------------------------------------------------------------------------
(* Time.                                                                    *)

inverted(x) == SPAN - 1 - x                         \* ~x
time_add(x, d) == (x + d) % SPAN
time_diff(x, y) == ((y - x + SPAN \div 2) % SPAN) - SPAN \div 2

\* The hardware counter, and time_now for a stamp s read earlier.
stk_now == inverted(clock) % WRAP
wrapped_at_equal(t, s) == IF t >= s THEN t - WRAP ELSE t   \* variant
wrapped(t, s) == IF t > s THEN t - WRAP ELSE t
time_now(s) ==
    inverted(wrapped(stk_now + (s \div WRAP) * WRAP, s) % SPAN)

-----------------------------------------------------------------------------
(* Timers.  These run with the timer interrupt masked, or inside it.        *)

\* The event comes when the counter passes arr.  Clearing SR withdraws an
\* interrupt, unless the core has latched it.
reprogram_timer(delta) ==
    /\ tim' = IF delta <= SLACK_TICKS THEN 2 ELSE delta - SLACK_TICKS + 1
    /\ pending' \in {pending, FALSE}

cancelled(t) == RemoveFirstMatch(head, LAMBDA n : n.timer = t)

\* Where a timer with delta to go belongs in the list l.
place_by_deadline(l, now, delta) ==     \* variant: deadlines compared as such
    LET i == SelectInSeq(l, LAMBDA n : time_add(now, delta) <= n.deadline)
    IN  IF i = 0 THEN Len(l) + 1 ELSE i
place(l, now, delta) ==
    LET i == SelectInSeq(l, LAMBDA n : delta <= time_diff(now, n.deadline))
    IN  IF i = 0 THEN Len(l) + 1 ELSE i

\* Variant of is_earliest: the hardware is programmed for the first timer only.
is_only(t) == Len(head') = 1
is_earliest(t) == Head(head').timer = t

timer_set(t, dl, now) ==
    LET delta == time_diff(now, dl)
        rest == cancelled(t)
    IN  /\ head' = InsertAt(rest, place(rest, now, delta),
                             [timer |-> t, deadline |-> dl])
        /\ IF is_earliest(t) THEN reprogram_timer(delta)
                             ELSE UNCHANGED <<tim, pending>>

timer_cancel(t) ==
    /\ head' = cancelled(t)
    /\ UNCHANGED <<tim, pending>>

(* time_init, at any value of the counter.                                  *)
Init ==
    /\ clock \in {inverted(x) : x \in 0..(WRAP - 1)}
    /\ time_stamp = stk_now
    /\ head = <<[timer    |-> STAMP,
                 deadline |-> time_add(clock, TIME_UPDATE_PERIOD)]>>
    /\ tim = TIME_UPDATE_PERIOD - SLACK_TICKS + 1 /\ pending = FALSE
    /\ irq = "none" /\ cur = STAMP
    /\ thread = "idle" /\ seen = 0 /\ held = 0 /\ busy = 0

-----------------------------------------------------------------------------
(* The hardware.                                                            *)

Serving == pending \/ irq # "none"

Tick ==
    /\ Serving => busy < LATENCY
    /\ thread = "read" => held < GAP
    /\ clock' = time_add(clock, 1)
    /\ tim' = IF tim <= 1 THEN -1 ELSE tim - 1
    /\ pending' = (pending \/ tim = 1)
    /\ busy' = IF Serving THEN busy + 1 ELSE 0
    /\ held' = IF thread = "read" THEN held + 1 ELSE 0
    /\ UNCHANGED <<time_stamp, head, irq, cur, thread, seen>>

-----------------------------------------------------------------------------
(* The thread.                                                              *)

other == <<clock, irq, cur, busy>>

\* time_now reads the stamp, and then the counter.
read_stamp ==
    /\ irq = "none" /\ thread = "idle"
    /\ thread' = "read" /\ seen' = time_stamp /\ held' = 0
    /\ UNCHANGED <<other, time_stamp, head, tim, pending>>

read_counter ==
    /\ irq = "none" /\ thread = "read"
    /\ thread' = "idle" /\ held' = 0 /\ seen' = 0
    /\ UNCHANGED <<other, time_stamp, head, tim, pending>>

thread_sets(t, d) ==
    /\ irq = "none" /\ thread = "idle"
    /\ LET now == time_now(time_stamp)
       IN  timer_set(t, time_add(now, d), now)
    /\ UNCHANGED <<other, time_stamp, thread, seen, held>>

thread_cancels(t) ==
    /\ irq = "none" /\ thread = "idle"
    /\ timer_cancel(t)
    /\ UNCHANGED <<other, time_stamp, thread, seen, held>>

-----------------------------------------------------------------------------
(* IRQ_timer: one round of its loop is two steps, so that time passes and   *)
(* callbacks change the list between them.                                  *)

irq_enter ==
    /\ pending /\ irq = "none"
    /\ pending' = FALSE /\ irq' = "loop"
    /\ UNCHANGED <<clock, time_stamp, head, tim, cur, thread, seen,
                   held, busy>>

irq_leave ==
    /\ irq' = "none" /\ busy' = 0
    /\ UNCHANGED <<clock, time_stamp, head, cur, thread, seen, held>>

to_go(n) == time_diff(time_now(time_stamp), n.deadline)

irq_done ==
    /\ irq = "loop"
    /\ \/ head = <<>> /\ UNCHANGED <<tim, pending>>
       \/ /\ head # <<>> /\ to_go(Head(head)) > SLACK_TICKS
          /\ reprogram_timer(to_go(Head(head)))
    /\ irq_leave

irq_fires ==
    /\ irq = "loop"
    /\ head # <<>> /\ to_go(Head(head)) <= SLACK_TICKS
    /\ cur' = Head(head).timer /\ head' = Tail(head)
    /\ irq' = "call"
    /\ UNCHANGED <<clock, time_stamp, tim, pending, thread, seen,
                   held, busy>>

called ==
    /\ irq' = "loop" /\ cur' = STAMP
    /\ UNCHANGED <<clock, thread, seen, held, busy>>

time_stamp_update ==
    /\ irq = "call" /\ cur = STAMP
    /\ LET now == time_now(time_stamp)
       IN  /\ time_stamp' = inverted(now)
           /\ timer_set(STAMP, time_add(now, TIME_UPDATE_PERIOD),
                        time_now(time_stamp'))
    /\ called

\* The program's callbacks may set and cancel timers.  They leave what they
\* set some time to go: a callback that is due at once would never let the
\* loop end.
callback ==
    /\ irq = "call" /\ cur # STAMP
    /\ \/ UNCHANGED <<head, tim, pending>>
       \/ \E t \in Timers : timer_cancel(t)
       \/ \E t \in Timers, d \in {e \in Delays : e > SLACK_TICKS + LATENCY} :
             LET now == time_now(time_stamp)
             IN  timer_set(t, time_add(now, d), now)
    /\ UNCHANGED time_stamp
    /\ called

IRQ_timer ==
    irq_enter \/ irq_done \/ irq_fires \/ time_stamp_update \/ callback

Next ==
    \/ Tick
    \/ read_stamp \/ read_counter
    \/ \E t \in Timers, d \in Delays : thread_sets(t, d)
    \/ \E t \in Timers : thread_cancels(t)
    \/ IRQ_timer

Spec == Init /\ [][Next]_vars

-----------------------------------------------------------------------------
(* Correctness.                                                             *)

(* Whoever calls time_now gets the true time, whenever he has read the      *)
(* stamp: time never jumps, at no wrap of the counter or of the 32 bits,    *)
(* even if the stamp is renewed between the two reads (time.c:26-34).       *)
TimeExact ==
    \A s \in {time_stamp} \cup {x \in {seen} : thread = "read"} :
        time_now(s) = clock

(* Every variable has its type, and the list is in the order of the         *)
(* deadlines, across the wrap of time, with no timer in it twice            *)
(* (timer.c:94-101).                                                        *)
ListSorted ==
    /\ TypeOK
    /\ \A i, j \in DOMAIN head :
          i < j => /\ head[i].timer # head[j].timer
                   /\ time_diff(clock, head[i].deadline)
                          <= time_diff(clock, head[j].deadline)

(* No timer is forgotten: its callback starts within LATE ticks of its       *)
(* deadline, whatever was set, cancelled or fired meanwhile (timer.c:82-    *)
(* 146).                                                                    *)
NotLate ==
    \A i \in DOMAIN head : time_diff(head[i].deadline, clock) <= LATE
=============================================================================
