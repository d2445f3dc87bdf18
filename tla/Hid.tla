-------------------------------- MODULE Hid --------------------------------
(***************************************************************************)
(* The HID class requests (src/usb/hid/), the commands of the vendor       *)
(* interface and the hand-over to the bootloader (src/main.c), used by the *)
(* operating system's keyboard driver and by programs like                 *)
(* scripts/samisara.py, several of them at once.                           *)
(*                                                                         *)
(* A class request is one step: the USB stack delivers it whole and once,  *)
(* or refuses it (ControlPipe).  What a program does takes several.        *)
(***************************************************************************)
EXTENDS Integers

CONSTANTS
    Clients,     \* programs that have the vendor interface open
    Commands,    \* the vendor commands they send
    NONE         \* no program, no report, no reply

SUBREPORT_MAX == 2
Subreports == 0..SUBREPORT_MAX
REPORT_SZ == 48

Command ==
    [cmd: {"subreport", "dfu", "other"},
     len: 0..255,                  \* data[1], which counts cmd and itself
     padded: BOOLEAN,              \* every byte from len on is 0
     arg: Nat,                     \* the subreport
     deadbeef: BOOLEAN]            \* or whether the magic is right

ASSUME HidAssumption ==
    /\ Commands \subseteq Command
    /\ NONE \notin Clients \cup Subreports

VARIABLES
    kbd_state,    \* idle and protocol of the keyboard interface
    vdr_state,    \* subreport and cmd_result of the vendor interface
    reset_flag,   \* "deadbeef" or "other", in RAM that a reset preserves
    pc,           \* where the program is; "bootloader" is the MCU's own
    configured,   \* the host has configured the device
    chosen,       \* what the keyboard driver has set since configuration
    reply,        \* what it was told last when it asked for the protocol
    client,       \* what each program is doing
    chooser,      \* history: the program that chose the current subreport
    asked         \* history: DFU asked for, the bootloader not yet entered

vars == <<kbd_state, vdr_state, reset_flag, pc, configured, chosen, reply,
          client, chooser, asked>>

Places == {"off", "reset", "main", "deinit", "flagged", "bootloader"}

KbdStates == [idle: 0..1, protocol: 0..1]
zeroed_kbd_state == [idle |-> 0, protocol |-> 0]     \* as BSS is
default_kbd_state == [idle |-> 0, protocol |-> 1]
default_vdr_state == [subreport |-> 0, cmd_result |-> "okay"]

\* A program asks for a subreport ("asked") and then gets one ("got"); alone
\* if no one else has chosen a subreport between the two.
Programs ==
    [step: {"idle", "asked", "got"}, want: Subreports,
     got: Subreports \cup {NONE}, alone: BOOLEAN]
idle_program == [step |-> "idle", want |-> 0, got |-> NONE, alone |-> FALSE]

TypeOK ==
    /\ kbd_state \in KbdStates
    /\ vdr_state \in [subreport: Subreports, cmd_result: {"okay", "bad"}]
    /\ reset_flag \in {"deadbeef", "other"}
    /\ pc \in Places
    /\ configured \in BOOLEAN
    /\ chosen \in KbdStates /\ reply \in {0, 1, NONE}
    /\ client \in [Clients -> Programs]
    /\ chooser \in Clients \cup {NONE}
    /\ asked \in BOOLEAN

Init ==
    /\ kbd_state = zeroed_kbd_state /\ vdr_state = default_vdr_state
    /\ reset_flag = "other" /\ pc = "off" /\ configured = FALSE
    /\ chosen = default_kbd_state /\ reply = NONE
    /\ client = [c \in Clients |-> idle_program]
    /\ chooser = NONE /\ asked = FALSE

class    == <<kbd_state, vdr_state>>
boot     == <<reset_flag, pc, configured, asked>>
driver   == <<chosen, reply>>
programs == <<client, chooser>>

\* Class requests reach a configured device in its main loop.
Ready == pc = "main" /\ configured

-----------------------------------------------------------------------------
(* The keyboard interface.  SET_IDLE and SET_PROTOCOL carry their value in  *)
(* the high and in the low byte of wValue; the other byte is 0.             *)

\* hid_handle_class_request: the handler that gets a request.
handler == [idle |-> "idle", protocol |-> "idle"]

\* What a handler does with wValue = [hi, lo].
handle_idle(wValue) == [kbd_state EXCEPT !.idle = wValue.hi]
handle_protocol(wValue) == [kbd_state EXCEPT !.protocol = wValue.lo]

set_request(request, v) ==
    /\ Ready
    /\ LET wValue == IF request = "idle" THEN [hi |-> v, lo |-> 0]
                                         ELSE [hi |-> 0, lo |-> v]
       IN  kbd_state' = IF handler[request] = "idle" THEN handle_idle(wValue)
                                                     ELSE handle_protocol(wValue)
    /\ chosen' = [chosen EXCEPT ![request] = v]
    /\ reply' = NONE
    /\ UNCHANGED <<vdr_state, boot, programs>>

get_protocol ==
    /\ Ready
    /\ reply' = IF handler["protocol"] = "idle" THEN kbd_state.idle
                                                ELSE kbd_state.protocol
    /\ UNCHANGED <<class, boot, chosen, programs>>

-----------------------------------------------------------------------------
(* The vendor interface.                                                    *)

well_formed(c) == c.len \in 2..REPORT_SZ /\ c.padded

in_range_exclusive(idx) == idx < SUBREPORT_MAX     \* variants of in_range
in_range_late(idx) == idx <= SUBREPORT_MAX + 1
in_range(idx) == idx <= SUBREPORT_MAX

selects(c) ==
    well_formed(c) /\ c.cmd = "subreport" /\ c.len - 2 = 2 /\ in_range(c.arg)
enters_dfu(c) ==
    well_formed(c) /\ c.cmd = "dfu" /\ c.len - 2 = 4 /\ c.deadbeef

(* vdr_cmd, for a report of the right identifier and size.                  *)
vdr_cmd(c) ==
    \/ /\ selects(c)
       /\ vdr_state' = [subreport |-> c.arg, cmd_result |-> "okay"]
       /\ UNCHANGED boot
    \/ /\ enters_dfu(c)
       /\ pc' = "deinit" /\ asked' = TRUE
       /\ UNCHANGED <<vdr_state, reset_flag, configured>>
    \/ /\ ~selects(c) /\ ~enters_dfu(c)
       /\ vdr_state' = [vdr_state EXCEPT !.cmd_result = "bad"]
       /\ UNCHANGED boot

\* A program sends some command.
send_command(p, c) ==
    /\ Ready /\ client[p].step = "idle"
    /\ vdr_cmd(c)
    /\ chooser' = IF selects(c) THEN p ELSE chooser
    /\ UNCHANGED <<kbd_state, driver, client>>

(* Unit.get_subreport of samisara.py: a command, and then a report.         *)
subreport_cmd(idx) ==
    [cmd |-> "subreport", len |-> 4, padded |-> TRUE, arg |-> idx,
     deadbeef |-> FALSE]

set_subreport(p, idx) ==
    /\ Ready /\ client[p].step = "idle"
    /\ vdr_cmd(subreport_cmd(idx))
    /\ client' = [client EXCEPT ![p] = [idle_program EXCEPT !.step = "asked",
                                                            !.want = idx]]
    /\ chooser' = p
    /\ UNCHANGED <<kbd_state, driver>>

\* The device answers with the subreport chosen last: vdr_subreport.
get_feature_report(p) ==
    /\ Ready /\ client[p].step = "asked"
    /\ client' = [client EXCEPT ![p].step = "got",
                                ![p].got = vdr_state.subreport,
                                ![p].alone = (chooser = p)]
    /\ UNCHANGED <<class, boot, driver, chooser>>

get_subreport_returns(p) ==
    /\ client[p].step = "got"
    /\ client' = [client EXCEPT ![p] = idle_program]
    /\ UNCHANGED <<class, boot, driver, chooser>>

-----------------------------------------------------------------------------
(* Configuration.  Programs may keep their handle over a bus reset that the *)
(* operating system recovers from; nothing in vdr_state does.               *)

hid_set_configuration ==
    /\ pc = "main"
    /\ configured' = TRUE
    /\ kbd_state' = default_kbd_state /\ vdr_state' = default_vdr_state
    /\ chosen' = default_kbd_state /\ reply' = NONE
    /\ chooser' = NONE
    /\ UNCHANGED <<reset_flag, pc, asked, client>>

BusReset ==
    /\ Ready
    /\ configured' = FALSE
    /\ UNCHANGED <<class, reset_flag, pc, asked, driver, programs>>

-----------------------------------------------------------------------------
(* Resets and the bootloader.                                               *)

\* reset_to_bootloader detaches the device, sets the flag, resets the MCU.
set_reset_flag ==
    /\ pc = "deinit"
    /\ reset_flag' = "deadbeef" /\ pc' = "flagged" /\ configured' = FALSE
    /\ UNCHANGED <<class, asked, driver, programs>>

system_reset ==
    /\ pc = "flagged"
    /\ pc' = "reset"
    /\ UNCHANGED <<class, reset_flag, configured, asked, driver, programs>>

\* main: check_bootloader_requested reads the flag and clears it; without it
\* BSS is cleared and the firmware starts.
keep_flag == UNCHANGED reset_flag      \* variant of clear_flag
clear_flag == reset_flag' = "other"

check_bootloader_requested ==
    /\ pc = "reset"
    /\ clear_flag
    /\ IF reset_flag = "deadbeef"
       THEN pc' = "bootloader" /\ UNCHANGED class
       ELSE /\ pc' = "main"
            /\ kbd_state' = zeroed_kbd_state /\ vdr_state' = default_vdr_state
    /\ asked' = (asked /\ pc' # "bootloader")
    /\ chooser' = NONE
    /\ UNCHANGED <<configured, driver, client>>

\* The reset button; programs lose their handles.
ExternalReset ==
    /\ pc \in {"main", "deinit", "flagged", "bootloader"}
    /\ pc' = "reset" /\ configured' = FALSE
    /\ client' = [c \in Clients |-> idle_program] /\ chooser' = NONE
    /\ UNCHANGED <<class, reset_flag, asked, driver>>

\* RAM has lost the flag when power returns.
PowerCycle ==
    /\ pc' = "reset" /\ reset_flag' = "other" /\ configured' = FALSE
    /\ client' = [c \in Clients |-> idle_program] /\ chooser' = NONE
    /\ asked' = FALSE
    /\ UNCHANGED <<class, driver>>

-----------------------------------------------------------------------------
Next ==
    \/ \E request \in {"idle", "protocol"}, v \in {0, 1} :
          set_request(request, v)
    \/ get_protocol
    \/ \E p \in Clients, c \in Commands : send_command(p, c)
    \/ \E p \in Clients, idx \in Subreports : set_subreport(p, idx)
    \/ \E p \in Clients : get_feature_report(p) \/ get_subreport_returns(p)
    \/ hid_set_configuration \/ BusReset
    \/ set_reset_flag \/ system_reset \/ check_bootloader_requested
    \/ ExternalReset \/ PowerCycle

Spec == Init /\ [][Next]_vars

-----------------------------------------------------------------------------
(* Correctness.                                                             *)

(* A program that asks for a subreport gets that one (samisara.py:52,       *)
(* `assert x[1] == idx`), unless another program chose one, or the device   *)
(* was configured, between its command and its report.                      *)
AnswerMatches ==
    \A p \in Clients :
        client[p].step = "got" /\ client[p].alone
            => client[p].got = client[p].want

(* One DFU command enters the bootloader once: never unasked, and not again *)
(* at the reset that ends it (main.c:28-40), whatever resets happen when.   *)
BootloaderIfAsked ==
    [][pc # "bootloader" /\ pc' = "bootloader" => asked]_vars

(* GET_PROTOCOL tells what SET_PROTOCOL has set, and 1 before: the keyboard *)
(* is a Boot Interface (hid_keyboard.c:88).                              *)
ProtocolReported == reply # NONE => reply = chosen.protocol
=============================================================================
