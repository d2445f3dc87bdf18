------------------------------ MODULE Keyboard ------------------------------
(***************************************************************************)
(* The keyboard class (src/keyboard.c with the keyboard interface of       *)
(* src/usb/hid/hid_keyboard.c): the matrix scan of the main loop, the      *)
(* report it builds and when it is queued, while keys move, the host polls *)
(* the endpoint at its own pace and the class is reset and configured.     *)
(*                                                                         *)
(* The endpoint behaves as Usbd's proofs say (KeyboardTxAccounted): ready, *)
(* or a report in flight, or its completion waiting for usb_process.       *)
(***************************************************************************)
EXTENDS Integers, FiniteSets

CONSTANTS
    KEYS,        \* how many keys there are; a key is its place in scan order
    Column,      \* the column of each key: keys of one are read together,
                 \* the special keys are columns of one
    Modifiers,   \* the keys that have a bit of their own in a report
    ROLLOVER,    \* other keys a report has room for (6)
    EMPTY,       \* an empty slot of a report, and no report
    PHANTOM,     \* what fills every slot when there are too many keys
    UNKNOWN,     \* last_report after configuration: no report equals it
    SESSIONS     \* bound: how many times the host configures the device

Keys == 1..KEYS
Slots == Keys \cup {EMPTY, PHANTOM}
Bufs == [mods: SUBSET Modifiers, slots: [1..ROLLOVER -> Slots]]

ASSUME KeyboardAssumption ==
    /\ KEYS \in Nat /\ ROLLOVER \in Nat /\ SESSIONS \in Nat
    /\ Column \in [Keys -> Nat]
    /\ \A j, k \in Keys : j <= k => Column[j] <= Column[k]
    /\ Modifiers \subseteq Keys
    /\ EMPTY \notin Bufs /\ UNKNOWN \notin Bufs

VARIABLES
    pressed,      \* the keys that are down
    initialised,  \* keyboard.c: configured, and not reset since
    led,          \* kbd_state.led, its Caps Lock bit
    pin,          \* the Caps Lock output pin
    next,         \* the key keyboard_scan comes to: 0 outside it
    idr,          \* the keys that were down when their column was read
    report,       \* the report being built
    last_report,  \* the report last queued
    ep,           \* "off", "ready", "sending" or "sent"
    host_report,  \* the report the host had last in this session
    steady,       \* history: no key has moved since the scan began
    sessions      \* configurations so far

kbd_vars == <<pressed, initialised, led, pin, next, idr, report, last_report,
              ep, host_report, steady, sessions>>

scan == <<next, idr, report>>
Reports == [buf: Bufs, nr_codes: 0..ROLLOVER]

KbdTypeOK ==
    /\ pressed \in SUBSET Keys
    /\ initialised \in BOOLEAN /\ led \in BOOLEAN /\ pin \in BOOLEAN
    /\ next \in 0..(KEYS + 1) /\ idr \in SUBSET Keys
    /\ report \in Reports
    /\ last_report \in Bufs \cup {UNKNOWN}
    /\ ep \in {"off", "ready", "sending", "sent"}
    /\ host_report \in Bufs \cup {EMPTY}
    /\ steady \in BOOLEAN
    /\ sessions \in 0..SESSIONS

report_init ==
    [buf |-> [mods |-> {}, slots |-> [i \in 1..ROLLOVER |-> EMPTY]],
     nr_codes |-> 0]

\* Variant of report_add: the limit is checked one key too late.
report_add_late(r, code) ==
    IF code \in Modifiers THEN [r EXCEPT !.buf.mods = @ \cup {code}]
    ELSE IF r.nr_codes > ROLLOVER
    THEN [r EXCEPT !.buf.slots = [i \in 1..ROLLOVER |-> PHANTOM]]
    ELSE [r EXCEPT !.buf.slots[r.nr_codes + 1] = code, !.nr_codes = @ + 1]
report_add(r, code) ==
    IF code \in Modifiers THEN [r EXCEPT !.buf.mods = @ \cup {code}]
    ELSE IF r.nr_codes = ROLLOVER
    THEN [r EXCEPT !.buf.slots = [i \in 1..ROLLOVER |-> PHANTOM]]
    ELSE [r EXCEPT !.buf.slots[r.nr_codes + 1] = code, !.nr_codes = @ + 1]

KbdInit ==
    /\ pressed \in SUBSET Keys
    /\ initialised = FALSE /\ led = FALSE /\ pin = FALSE
    /\ next = 0 /\ idr = {} /\ report = report_init
    /\ last_report = report_init.buf
    /\ ep = "off" /\ host_report = EMPTY /\ steady = FALSE /\ sessions = 0

-----------------------------------------------------------------------------
(* Keys and host.                                                           *)

KeyMoves(k) ==
    /\ pressed' = (IF k \in pressed THEN pressed \ {k} ELSE pressed \cup {k})
    /\ steady' = FALSE
    /\ UNCHANGED <<initialised, led, pin, scan, last_report, ep,
                   host_report, sessions>>

\* The host fetches the report in the endpoint, the one queued last.
HostPolls ==
    /\ ep = "sending"
    /\ ep' = "sent"
    /\ host_report' = last_report
    /\ UNCHANGED <<pressed, initialised, led, pin, scan,
                   last_report, steady, sessions>>

-----------------------------------------------------------------------------
(* usb_process, as far as it concerns the keyboard.  It runs between two    *)
(* calls of keyboard_process.                                               *)

tx_completed ==
    /\ next = 0 /\ ep = "sent"
    /\ ep' = "ready"
    /\ UNCHANGED <<pressed, initialised, led, pin, scan,
                   last_report, host_report, steady, sessions>>

\* kbd_initialise, then usb_hid_configure.
configure_keeps_last ==           \* variant of usb_hid_configure
    UNCHANGED last_report /\ initialised' = TRUE
usb_hid_configure ==
    last_report' = UNKNOWN /\ initialised' = TRUE

kbd_set_configuration ==
    /\ next = 0 /\ sessions < SESSIONS
    /\ led' = FALSE
    /\ ep' = "ready"
    /\ usb_hid_configure
    /\ host_report' = EMPTY
    /\ sessions' = sessions + 1
    /\ UNCHANGED <<pressed, pin, scan, steady>>

\* SET_REPORT(Output).
kbd_report_leds(on) ==
    /\ next = 0 /\ initialised
    /\ led' = on
    /\ UNCHANGED <<pressed, initialised, pin, scan, last_report,
                   ep, host_report, steady, sessions>>

\* usb_hid_reset, in the driver's reset handler.
leave_pin == UNCHANGED pin        \* variant of clear_pin
clear_pin == pin' = FALSE
usb_hid_reset ==
    /\ next = 0
    /\ initialised' = FALSE
    /\ clear_pin
    /\ ep' = "off"
    /\ host_report' = EMPTY
    /\ UNCHANGED <<pressed, led, scan, last_report, steady, sessions>>

-----------------------------------------------------------------------------
(* keyboard_process: the pin, the scan one key at a time, and the report if *)
(* it is news and the endpoint is free.                                     *)

begin_scan ==
    /\ next = 0 /\ initialised
    /\ pin' = led
    /\ next' = 1
    /\ report' = report_init
    /\ steady' = TRUE
    /\ UNCHANGED <<pressed, initialised, led, idr, last_report, ep,
                   host_report, sessions>>

\* The first key of a column has the whole column read.
begins_column(k) == k = 1 \/ Column[k - 1] # Column[k]
keyboard_scan ==
    /\ next \in Keys
    /\ idr' = IF begins_column(next)
              THEN {k \in pressed : Column[k] = Column[next]} ELSE idr
    /\ report' = IF next \in idr' THEN report_add(report, next) ELSE report
    /\ next' = next + 1
    /\ UNCHANGED <<pressed, initialised, led, pin, last_report, ep,
                   host_report, steady, sessions>>

news_or_not == ep = "ready"       \* variant of news
news == ep = "ready" /\ report.buf # last_report

queue ==
    /\ ep' = "sending"
    /\ last_report' = report.buf

end_scan ==
    /\ next = KEYS + 1
    /\ IF news THEN queue ELSE UNCHANGED <<ep, last_report>>
    /\ next' = 0 /\ idr' = {}
    /\ UNCHANGED <<pressed, initialised, led, pin, report, host_report,
                   steady, sessions>>

-----------------------------------------------------------------------------
keyboard_process == begin_scan \/ keyboard_scan \/ end_scan

KbdNext ==
    \/ \E k \in Keys : KeyMoves(k)
    \/ HostPolls
    \/ tx_completed
    \/ kbd_set_configuration
    \/ \E on \in BOOLEAN : kbd_report_leds(on)
    \/ usb_hid_reset
    \/ keyboard_process

KbdSpec == KbdInit /\ [][KbdNext]_kbd_vars

(* The main loop runs for ever and serves a completion in one of its polls  *)
(* (the driver reports endpoint 0 first, so this assumes that the host does *)
(* not fill every poll with control transfers); the host keeps polling the  *)
(* endpoint.                                                                *)
FairKbdSpec ==
    /\ KbdSpec
    /\ WF_kbd_vars(keyboard_process)
    /\ SF_kbd_vars(tx_completed) /\ WF_kbd_vars(HostPolls)

-----------------------------------------------------------------------------
(* Correctness.                                                             *)

\* The report a set K of keys should give: each modifier its bit; the other
\* keys one slot each in scan order, or the phantom state if they do not fit.
Others(K) == K \ Modifiers
Rank(k, K) == Cardinality({j \in Others(K) : j <= k})
ReportOf(K) ==
    [mods  |-> K \cap Modifiers,
     slots |-> [i \in 1..ROLLOVER |->
                  IF Cardinality(Others(K)) > ROLLOVER THEN PHANTOM
                  ELSE IF i <= Cardinality(Others(K))
                  THEN CHOOSE k \in Others(K) : Rank(k, K) = i ELSE EMPTY]]

(* A scan in which no key moves reports exactly the keys that are down,     *)
(* keeps the modifiers in the phantom state, and never writes beyond the    *)
(* report (keyboard.c:113-157).                                             *)
ScanExact ==
    /\ KbdTypeOK
    /\ next = KEYS + 1 /\ steady => report.buf = ReportOf(pressed)

(* The host is never sent the report it already has (keyboard.c:170-173):   *)
(* within a session every report it fetches is a change.                    *)
ReportsAreNews ==
    [][HostPolls => host_report' # host_report]_kbd_vars

(* The Caps Lock light is out while the device is not configured            *)
(* (keyboard.c:177-181), although the LED state survives a reset.           *)
LightOut == ~initialised => ~pin

(* No change is lost for good: if the keys come to rest while the device    *)
(* stays configured, the host ends up with the report of those keys, though *)
(* reports between may be missed.                                           *)
HostCatchesUp ==
    <>[][pressed' = pressed]_kbd_vars /\ <>[]initialised
        => <>[](host_report = ReportOf(pressed))
=============================================================================
