------------------------------ MODULE HidProof ------------------------------
(* Theorems about the keyboard class: about Hid, for any programs and       *)
(* commands, and about Keyboard, for any matrix of keys and any number of   *)
(* slots in a report.                                                       *)
EXTENDS Hid, Keyboard, FiniteSetTheorems, TLAPS

(* What a program that has asked for a subreport relies on, and what the    *)
(* flag in RAM stands for.                                                  *)
SelectionInv ==
    \A p \in Clients :
        client[p].step = "asked" /\ chooser = p
            => vdr_state.subreport = client[p].want

RequestInv ==
    /\ pc \in {"deinit", "flagged"} => asked
    /\ reset_flag = "deadbeef" => asked

VdrStates == [subreport: Subreports, cmd_result: {"okay", "bad"}]

(* The states the firmware puts its variables in have their types.          *)
LEMMA DefaultTypes ==
    /\ zeroed_kbd_state \in KbdStates
    /\ default_kbd_state \in KbdStates
    /\ default_vdr_state \in VdrStates
    /\ idle_program \in Programs
<1>1. zeroed_kbd_state \in KbdStates /\ default_kbd_state \in KbdStates
  BY DEF zeroed_kbd_state, default_kbd_state, KbdStates
<1>2. 0 \in Subreports
  BY DEF Subreports, SUBREPORT_MAX
<1>3. default_vdr_state \in VdrStates
  BY <1>2 DEF default_vdr_state, VdrStates
<1>4. idle_program \in Programs
  BY <1>2 DEF idle_program, Programs
<1> QED  BY <1>1, <1>3, <1>4

LEMMA InitTypeOK == Init => TypeOK
  BY DefaultTypes DEF Init, TypeOK, VdrStates, Places

(* A command keeps the types of what it changes.                            *)
LEMMA CommandType ==
    ASSUME TypeOK, NEW c \in Command, vdr_cmd(c)
    PROVE  /\ vdr_state' \in VdrStates
           /\ reset_flag' \in {"deadbeef", "other"}
           /\ pc' \in Places
           /\ configured' \in BOOLEAN
           /\ asked' \in BOOLEAN
<1>1. CASE selects(c)
  <2>0. c.arg \in Subreports
    <3>1. c.arg \in Nat
      BY DEF Command
    <3>2. c.arg <= SUBREPORT_MAX
      BY <1>1 DEF selects, in_range
    <3> QED  BY <3>1, <3>2 DEF Subreports, SUBREPORT_MAX
  <2>1. ~enters_dfu(c)
    BY <1>1 DEF selects, enters_dfu
  <2>2. vdr_state' = [subreport |-> c.arg, cmd_result |-> "okay"] /\ UNCHANGED boot
    BY <1>1, <2>1 DEF vdr_cmd
  <2> QED  BY <2>0, <2>2 DEF TypeOK, VdrStates, boot
<1>2. CASE enters_dfu(c)
  BY <1>2 DEF TypeOK, vdr_cmd, selects, enters_dfu, Places, boot, VdrStates
<1>3. CASE ~selects(c) /\ ~enters_dfu(c)
  BY <1>3 DEF TypeOK, vdr_cmd, boot, VdrStates
<1> QED  BY <1>1, <1>2, <1>3

LEMMA SubreportCommand ==
    ASSUME NEW idx \in Subreports
    PROVE  subreport_cmd(idx) \in Command /\ selects(subreport_cmd(idx))
  BY DEF subreport_cmd, Command, selects, well_formed, in_range, Subreports,
     SUBREPORT_MAX, REPORT_SZ

LEMMA NextTypeOK == TypeOK /\ [Next]_vars => TypeOK'
<1> SUFFICES ASSUME TypeOK, [Next]_vars PROVE TypeOK'
  OBVIOUS
<1> USE DEF TypeOK, VdrStates, class, boot, driver, programs
<1>1. ASSUME NEW request \in {"idle", "protocol"}, NEW v \in {0, 1},
             set_request(request, v)
      PROVE  TypeOK'
  BY <1>1 DEF set_request, handler, handle_idle, handle_protocol, KbdStates
<1>2. CASE get_protocol
  BY <1>2 DEF get_protocol, handler, KbdStates
<1>3. ASSUME NEW p \in Clients, NEW c \in Commands, send_command(p, c)
      PROVE  TypeOK'
  <2>1. vdr_cmd(c) /\ c \in Command
    BY <1>3, HidAssumption DEF send_command
  <2> QED  BY <1>3, <2>1, CommandType DEF send_command
<1>4. ASSUME NEW p \in Clients, NEW idx \in Subreports, set_subreport(p, idx)
      PROVE  TypeOK'
  <2>1. vdr_cmd(subreport_cmd(idx)) /\ subreport_cmd(idx) \in Command
    BY <1>4, SubreportCommand DEF set_subreport
  <2>2. client' \in [Clients -> Programs]
    <3>1. [idle_program EXCEPT !.step = "asked", !.want = idx] \in Programs
      BY DefaultTypes DEF Programs
    <3> QED  BY <1>4, <3>1 DEF set_subreport
  <2> QED  BY <1>4, <2>1, <2>2, CommandType DEF set_subreport
<1>5. ASSUME NEW p \in Clients, get_feature_report(p)
      PROVE  TypeOK'
  <2>1. vdr_state.subreport \in Subreports /\ client[p] \in Programs
    OBVIOUS
  <2>2. [client[p] EXCEPT !.step = "got", !.got = vdr_state.subreport,
                          !.alone = (chooser = p)] \in Programs
    BY <2>1 DEF Programs
  <2>3. client' = [client EXCEPT
                     ![p] = [client[p] EXCEPT !.step = "got",
                                              !.got = vdr_state.subreport,
                                              !.alone = (chooser = p)]]
    BY <1>5 DEF get_feature_report
  <2> QED  BY <1>5, <2>2, <2>3 DEF get_feature_report
<1>6. ASSUME NEW p \in Clients, get_subreport_returns(p)
      PROVE  TypeOK'
  BY <1>6, DefaultTypes DEF get_subreport_returns
<1>7. CASE hid_set_configuration
  BY <1>7, DefaultTypes DEF hid_set_configuration
<1>8. CASE BusReset
  BY <1>8 DEF BusReset
<1>9. CASE set_reset_flag \/ system_reset
  BY <1>9 DEF set_reset_flag, system_reset, Places
<1>10. CASE check_bootloader_requested
  BY <1>10, DefaultTypes DEF check_bootloader_requested, clear_flag, Places
<1>11. CASE ExternalReset \/ PowerCycle
  BY <1>11, DefaultTypes DEF ExternalReset, PowerCycle, Places
<1>12. CASE UNCHANGED vars
  BY <1>12 DEF vars
<1> QED
  BY <1>1, <1>2, <1>3, <1>4, <1>5, <1>6, <1>7, <1>8, <1>9, <1>10, <1>11, <1>12
  DEF Next

(* Every variable keeps its type: no command, however malformed, selects a  *)
(* subreport that does not exist (hid_vendor.c:27-70).                      *)
THEOREM HidTypeCorrect == Spec => []TypeOK
<1>1. TypeOK /\ [Next]_vars => TypeOK'
  BY NextTypeOK
<1> QED  BY <1>1, InitTypeOK, PTL DEF Spec

-----------------------------------------------------------------------------
LEMMA NextSelection == TypeOK /\ SelectionInv /\ [Next]_vars => SelectionInv'
<1> SUFFICES ASSUME TypeOK, SelectionInv, [Next]_vars,
                    NEW q \in Clients,
                    client'[q].step = "asked", chooser' = q
             PROVE  vdr_state'.subreport = client'[q].want
  BY DEF SelectionInv
<1> USE DEF SelectionInv, class, boot, driver, programs
<1>0. client[q] \in Programs /\ NONE # q
  BY HidAssumption DEF TypeOK
<1>1. CASE UNCHANGED <<vdr_state, client, chooser>>
  BY <1>1
<1>2. ASSUME NEW p \in Clients, NEW c \in Commands, send_command(p, c)
      PROVE  vdr_state'.subreport = client'[q].want
  <2>1. client' = client /\ client[p].step = "idle" /\ vdr_cmd(c)
    BY <1>2 DEF send_command
  <2>2. q # p /\ ~selects(c) /\ chooser = q
    BY <1>2, <2>1 DEF send_command
  <2>3. vdr_state'.subreport = vdr_state.subreport
    BY <2>1, <2>2 DEF vdr_cmd, TypeOK
  <2> QED  BY <2>1, <2>2, <2>3
<1>3. ASSUME NEW p \in Clients, NEW idx \in Subreports, set_subreport(p, idx)
      PROVE  vdr_state'.subreport = client'[q].want
  <2>1. q = p
    BY <1>3 DEF set_subreport
  <2>2. vdr_cmd(subreport_cmd(idx)) /\ selects(subreport_cmd(idx))
    BY <1>3, SubreportCommand DEF set_subreport
  <2>3. vdr_state' = [subreport |-> idx, cmd_result |-> "okay"]
    BY <2>2 DEF vdr_cmd, selects, enters_dfu, subreport_cmd
  <2>4. client'[q].want = idx
    BY <1>3, <2>1 DEF set_subreport, TypeOK, idle_program
  <2> QED  BY <2>3, <2>4
<1>4. ASSUME NEW p \in Clients, get_feature_report(p) \/ get_subreport_returns(p)
      PROVE  vdr_state'.subreport = client'[q].want
  <2>1. q # p
    BY <1>4 DEF get_feature_report, get_subreport_returns, TypeOK, Programs,
       idle_program
  <2>2. client'[q] = client[q] /\ UNCHANGED <<vdr_state, chooser>>
    BY <1>4, <2>1 DEF get_feature_report, get_subreport_returns, TypeOK
  <2> QED  BY <2>2
<1>5. CASE hid_set_configuration \/ ExternalReset \/ PowerCycle
  BY <1>0, <1>5 DEF hid_set_configuration, ExternalReset, PowerCycle
<1>6. CASE check_bootloader_requested
  BY <1>0, <1>6 DEF check_bootloader_requested
<1>7. ASSUME NEW request \in {"idle", "protocol"}, NEW v \in {0, 1},
             set_request(request, v)
      PROVE  vdr_state'.subreport = client'[q].want
  BY <1>1, <1>7 DEF set_request
<1>8. CASE get_protocol \/ BusReset \/ set_reset_flag \/ system_reset
  BY <1>1, <1>8 DEF get_protocol, BusReset, set_reset_flag, system_reset
<1>9. CASE UNCHANGED vars
  BY <1>1, <1>9 DEF vars
<1> QED
  BY <1>2, <1>3, <1>4, <1>5, <1>6, <1>7, <1>8, <1>9 DEF Next

(* A program's answer is what was selected when it was read; no step but    *)
(* its own changes it.                                                      *)
LEMMA NextAnswer ==
    TypeOK /\ SelectionInv /\ AnswerMatches /\ [Next]_vars => AnswerMatches'
<1> SUFFICES ASSUME TypeOK, SelectionInv, AnswerMatches, [Next]_vars,
                    NEW q \in Clients,
                    client'[q].step = "got", client'[q].alone
             PROVE  client'[q].got = client'[q].want
  BY DEF AnswerMatches
<1> USE DEF boot, class, driver, programs
<1>1. ASSUME client'[q] = client[q]
      PROVE  client'[q].got = client'[q].want
  BY <1>1 DEF AnswerMatches
<1>2. idle_program.step # "got"
  BY DEF idle_program
<1>3. ASSUME NEW p \in Clients, NEW c \in Commands, send_command(p, c)
      PROVE  client'[q] = client[q]
  BY <1>3 DEF send_command
<1>4. ASSUME NEW p \in Clients, NEW idx \in Subreports, set_subreport(p, idx)
      PROVE  client'[q] = client[q]
  <2>1. CASE q = p
    <3>1. client'[p].step = "asked"
      BY <1>4 DEF set_subreport, TypeOK, idle_program
    <3> QED  BY <2>1, <3>1
  <2>2. CASE q # p
    BY <1>4, <2>2 DEF set_subreport, TypeOK
  <2> QED  BY <2>1, <2>2
<1>5. ASSUME NEW p \in Clients, get_feature_report(p)
      PROVE  client'[q].got = client'[q].want
  <2>1. CASE q = p
    <3>1. client[p].step = "asked" /\ client[p] \in Programs
      BY <1>5 DEF get_feature_report, TypeOK
    <3>2. client'[p] = [client[p] EXCEPT !.step = "got",
                                         !.got = vdr_state.subreport,
                                         !.alone = (chooser = p)]
      BY <1>5 DEF get_feature_report, TypeOK
    <3>3. /\ client'[p].alone = (chooser = p)
          /\ client'[p].got = vdr_state.subreport
          /\ client'[p].want = client[p].want
      BY <3>1, <3>2 DEF Programs
    <3>4. chooser = p
      BY <2>1, <3>3
    <3> QED  BY <2>1, <3>1, <3>3, <3>4 DEF SelectionInv
  <2>2. CASE q # p
    BY <1>1, <1>5, <2>2 DEF get_feature_report, TypeOK
  <2> QED  BY <2>1, <2>2
<1>6. ASSUME NEW p \in Clients, get_subreport_returns(p)
      PROVE  client'[q] = client[q]
  BY <1>2, <1>6 DEF get_subreport_returns, TypeOK
<1>7. CASE ExternalReset \/ PowerCycle
  BY <1>2, <1>7 DEF ExternalReset, PowerCycle
<1>8. ASSUME NEW request \in {"idle", "protocol"}, NEW v \in {0, 1},
             set_request(request, v)
      PROVE  client'[q] = client[q]
  BY <1>8 DEF set_request
<1>9. CASE \/ get_protocol \/ hid_set_configuration \/ BusReset
           \/ set_reset_flag \/ system_reset \/ check_bootloader_requested
           \/ UNCHANGED vars
  BY <1>1, <1>9 DEF get_protocol, hid_set_configuration, BusReset,
     set_reset_flag, system_reset, check_bootloader_requested, vars
<1> QED
  BY <1>1, <1>3, <1>4, <1>5, <1>6, <1>7, <1>8, <1>9 DEF Next

(* A program that asks for a subreport and then reads one gets the one it   *)
(* asked for, if no one else has chosen another (hid_vendor.c:27-119).      *)
THEOREM HidAnswerMatches == Spec => []AnswerMatches
<1> DEFINE Inv == TypeOK /\ SelectionInv /\ AnswerMatches
<1>1. Init => Inv
  <2>1. Init => SelectionInv /\ AnswerMatches
    BY DEF Init, SelectionInv, AnswerMatches, idle_program
  <2> QED  BY <2>1, InitTypeOK
<1>2. Inv /\ [Next]_vars => Inv'
  BY NextTypeOK, NextSelection, NextAnswer
<1>3. Inv => AnswerMatches
  OBVIOUS
<1> QED  BY <1>1, <1>2, <1>3, PTL DEF Spec

-----------------------------------------------------------------------------
(* The flag stands for a request the bootloader has not yet answered.       *)
LEMMA NextRequest == RequestInv /\ [Next]_vars => RequestInv'
<1> SUFFICES ASSUME RequestInv, [Next]_vars PROVE RequestInv'
  OBVIOUS
<1> USE DEF RequestInv, class, boot, driver, programs
<1>1. ASSUME UNCHANGED boot PROVE RequestInv'
  BY <1>1
<1>2. ASSUME NEW c, vdr_cmd(c) PROVE RequestInv'
  BY <1>2 DEF vdr_cmd
<1>3. ASSUME NEW p \in Clients, NEW c \in Commands, send_command(p, c)
      PROVE  RequestInv'
  BY <1>2, <1>3 DEF send_command
<1>4. ASSUME NEW p \in Clients, NEW idx \in Subreports, set_subreport(p, idx)
      PROVE  RequestInv'
  BY <1>2, <1>4 DEF set_subreport
<1>5. ASSUME NEW p \in Clients, get_feature_report(p) \/ get_subreport_returns(p)
      PROVE  RequestInv'
  BY <1>1, <1>5 DEF get_feature_report, get_subreport_returns
<1>6. ASSUME NEW request \in {"idle", "protocol"}, NEW v \in {0, 1},
             set_request(request, v)
      PROVE  RequestInv'
  BY <1>1, <1>6 DEF set_request
<1>7. CASE get_protocol
  BY <1>1, <1>7 DEF get_protocol
<1>8. CASE hid_set_configuration \/ BusReset
  BY <1>8 DEF hid_set_configuration, BusReset
<1>9. CASE set_reset_flag \/ system_reset
  BY <1>9 DEF set_reset_flag, system_reset
<1>10. CASE check_bootloader_requested
  BY <1>10 DEF check_bootloader_requested, clear_flag
<1>11. CASE ExternalReset \/ PowerCycle
  BY <1>11 DEF ExternalReset, PowerCycle
<1>12. CASE UNCHANGED vars
  BY <1>1, <1>12 DEF vars
<1> QED
  BY <1>3, <1>4, <1>5, <1>6, <1>7, <1>8, <1>9, <1>10, <1>11, <1>12 DEF Next

(* Only the reset handler enters the bootloader, and only on the flag.      *)
LEMMA EntersOnFlag ==
    ASSUME RequestInv, [Next]_vars, pc # "bootloader", pc' = "bootloader"
    PROVE  asked
<1> USE DEF class, boot, driver, programs
<1>1. ASSUME NEW c, vdr_cmd(c) PROVE FALSE
  BY <1>1 DEF vdr_cmd
<1>2. check_bootloader_requested
  BY <1>1 DEF Next, vars, send_command, set_subreport, get_feature_report,
     get_subreport_returns, set_request, get_protocol, hid_set_configuration,
     BusReset, set_reset_flag, system_reset, ExternalReset, PowerCycle
<1> QED  BY <1>2 DEF check_bootloader_requested, RequestInv

(* The device enters the bootloader only if a DFU command has asked for it  *)
(* since it last did, whatever resets happen in between (main.c:28-41).     *)
THEOREM HidBootloaderIfAsked == Spec => BootloaderIfAsked
<1>1. Init => RequestInv
  BY DEF Init, RequestInv
<1>2. RequestInv /\ [Next]_vars => [pc # "bootloader" /\ pc' = "bootloader" => asked]_vars
  BY EntersOnFlag
<1> QED  BY <1>1, <1>2, NextRequest, PTL DEF Spec, BootloaderIfAsked

-----------------------------------------------------------------------------
(* The keyboard.  Report r is what keyboard_scan has made of the keys K:    *)
(* the report of those keys, with as many of its slots in use.              *)
Built(r, K) ==
    /\ r.buf = ReportOf(K)
    /\ r.nr_codes = IF Cardinality(Others(K)) <= ROLLOVER
                    THEN Cardinality(Others(K)) ELSE ROLLOVER

Sofar == {k \in pressed : k < next}

ColumnRead ==
    steady /\ next > 1
        => idr = {k \in pressed : Column[k] = Column[next - 1]}
Added == steady /\ next >= 1 => Built(report, Sofar)

ScanInv == KbdTypeOK /\ ColumnRead /\ Added

(* What the host has not got yet is a report, is in the endpoint, and is    *)
(* news to it.                                                              *)
Owed ==
    /\ ep = "sending" => last_report \in Bufs /\ host_report # last_report
    /\ ep \in {"ready", "sent"}
         => \/ host_report = last_report
            \/ host_report = EMPTY /\ ep = "ready"

-----------------------------------------------------------------------------
LEMMA KeysFinite ==
    ASSUME NEW K \in SUBSET Keys
    PROVE  IsFiniteSet(K) /\ Cardinality(K) \in Nat
<1>1. IsFiniteSet(1..KEYS)
  BY FS_Interval, KeyboardAssumption
<1>2. IsFiniteSet(K)
  BY <1>1, FS_Subset DEF Keys
<1> QED  BY <1>2, FS_CardinalityType

LEMMA OthersCount ==
    ASSUME NEW K \in SUBSET Keys
    PROVE  Cardinality(Others(K)) \in Nat
<1>1. Others(K) \in SUBSET Keys
  BY DEF Others
<1> QED  BY <1>1, KeysFinite

(* An empty report is the report of no keys.                                *)
LEMMA BuiltNothing == Built(report_init, {})
<1>1. Others({}) = {}
  BY DEF Others
<1>2. Cardinality(Others({})) = 0
  BY <1>1, FS_EmptySet
<1>3. {} \cap Modifiers = {}
  OBVIOUS
<1>4. ReportOf({}) = report_init.buf
  <2>1. ReportOf({}).slots = [i \in 1..ROLLOVER |-> EMPTY]
    BY <1>2, KeyboardAssumption DEF ReportOf
  <2> QED  BY <2>1, <1>3 DEF ReportOf, report_init
<1>5. report_init.nr_codes = 0
  BY DEF report_init
<1> QED  BY <1>2, <1>4, <1>5, KeyboardAssumption DEF Built

LEMMA Slot ==
    ASSUME NEW K, NEW i \in 1..ROLLOVER
    PROVE  ReportOf(K).slots[i] =
             IF Cardinality(Others(K)) > ROLLOVER THEN PHANTOM
             ELSE IF i <= Cardinality(Others(K))
             THEN CHOOSE k \in Others(K) : Rank(k, K) = i ELSE EMPTY
  BY DEF ReportOf

LEMMA SameSlots ==
    ASSUME NEW J, NEW K,
           \A i \in 1..ROLLOVER : ReportOf(J).slots[i] = ReportOf(K).slots[i]
    PROVE  ReportOf(J).slots = ReportOf(K).slots
<1>1. ASSUME NEW M
      PROVE  ReportOf(M).slots = [i \in 1..ROLLOVER |-> ReportOf(M).slots[i]]
  BY DEF ReportOf
<1>2. [i \in 1..ROLLOVER |-> ReportOf(J).slots[i]]
        = [i \in 1..ROLLOVER |-> ReportOf(K).slots[i]]
  OBVIOUS
<1> QED  BY <1>1, <1>2

(* A modifier takes no slot.                                                *)
LEMMA AddsModifier ==
    ASSUME NEW K \in SUBSET Keys, NEW k \in Modifiers, NEW r \in Reports,
           Built(r, K)
    PROVE  Built(report_add(r, k), K \cup {k})
<1>1. Others(K \cup {k}) = Others(K)
  BY DEF Others
<1>2. \A j : Rank(j, K \cup {k}) = Rank(j, K)
  BY <1>1 DEF Rank
<1>3. ReportOf(K \cup {k}).slots = ReportOf(K).slots
  <2>1. ASSUME NEW i
        PROVE  (CHOOSE j \in Others(K \cup {k}) : Rank(j, K \cup {k}) = i)
                 = (CHOOSE j \in Others(K) : Rank(j, K) = i)
    BY <1>1, <1>2
  <2>2. ASSUME NEW i \in 1..ROLLOVER
        PROVE  ReportOf(K \cup {k}).slots[i] = ReportOf(K).slots[i]
    <3>1. ReportOf(K).slots[i] =
            IF Cardinality(Others(K)) > ROLLOVER THEN PHANTOM
            ELSE IF i <= Cardinality(Others(K))
            THEN CHOOSE j \in Others(K) : Rank(j, K) = i ELSE EMPTY
      BY Slot
    <3>2. ReportOf(K \cup {k}).slots[i] =
            IF Cardinality(Others(K \cup {k})) > ROLLOVER THEN PHANTOM
            ELSE IF i <= Cardinality(Others(K \cup {k}))
            THEN CHOOSE j \in Others(K \cup {k}) : Rank(j, K \cup {k}) = i
            ELSE EMPTY
      BY Slot
    <3> QED  BY <1>1, <2>1, <3>1, <3>2, Zenon
  <2> QED  BY <2>2, SameSlots
<1>4. ReportOf(K \cup {k}).mods = ReportOf(K).mods \cup {k}
  BY DEF ReportOf
<1>5. report_add(r, k).buf = [r.buf EXCEPT !.mods = @ \cup {k}]
  BY DEF report_add, Reports
<1>6. report_add(r, k).nr_codes = r.nr_codes
  BY DEF report_add, Reports
<1>7. report_add(r, k).buf = ReportOf(K \cup {k})
  BY <1>3, <1>4, <1>5 DEF Built, ReportOf
<1> QED  BY <1>1, <1>6, <1>7 DEF Built

LEMMA LastRank ==
    ASSUME NEW K \in SUBSET Keys, NEW k \in Keys \ Modifiers,
           \A j \in K : j < k
    PROVE  /\ Others(K \cup {k}) = Others(K) \cup {k}
           /\ Cardinality(Others(K \cup {k})) = Cardinality(Others(K)) + 1
           /\ \A j \in Others(K) : Rank(j, K \cup {k}) = Rank(j, K)
           /\ \A j \in Others(K) : Rank(j, K) <= Cardinality(Others(K))
           /\ Rank(k, K \cup {k}) = Cardinality(Others(K)) + 1
<1>0. k \in Int /\ \A j \in K : j \in Int
  BY DEF Keys
<1>1. Others(K \cup {k}) = Others(K) \cup {k}
  BY DEF Others
<1>2. IsFiniteSet(Others(K)) /\ k \notin Others(K)
  <2>1. Others(K) \in SUBSET Keys
    BY DEF Others
  <2>2. k \notin K
    BY <1>0
  <2> QED  BY <2>1, <2>2, KeysFinite DEF Others
<1>3. Cardinality(Others(K) \cup {k}) = Cardinality(Others(K)) + 1
  BY <1>2, FS_AddElement
<1>4. ASSUME NEW j \in Others(K) PROVE Rank(j, K \cup {k}) = Rank(j, K)
  <2>1. j < k /\ j \in Int
    BY <1>0 DEF Others
  <2>2. {i \in Others(K \cup {k}) : i <= j} = {i \in Others(K) : i <= j}
    BY <1>0, <1>1, <2>1
  <2> QED  BY <2>2 DEF Rank
<1>5. ASSUME NEW j \in Others(K)
      PROVE  Rank(j, K) <= Cardinality(Others(K))
  BY <1>2, FS_Subset DEF Rank
<1>6. Rank(k, K \cup {k}) = Cardinality(Others(K)) + 1
  <2>1. \A i \in Others(K) \cup {k} : i <= k
    BY <1>0 DEF Others
  <2>2. {i \in Others(K \cup {k}) : i <= k} = Others(K) \cup {k}
    BY <1>1, <2>1
  <2> QED  BY <1>3, <2>2 DEF Rank
<1> QED  BY <1>1, <1>3, <1>4, <1>5, <1>6

(* Another key takes the next slot, and the slots of those before it stay   *)
(* what they were.                                                          *)
LEMMA AddsOther ==
    ASSUME NEW K \in SUBSET Keys, NEW k \in Keys \ Modifiers,
           \A j \in K : j < k, NEW r \in Reports, Built(r, K)
    PROVE  Built(report_add(r, k), K \cup {k})
<1> DEFINE n == Cardinality(Others(K))
           L == K \cup {k}
<1>0. n \in Nat /\ ROLLOVER \in Nat
  BY OthersCount, KeyboardAssumption
<1>1. Others(L) = Others(K) \cup {k} /\ Cardinality(Others(L)) = n + 1
  BY LastRank
<1>a. \A j \in Others(K) : Rank(j, L) = Rank(j, K) /\ Rank(j, K) <= n
  BY LastRank
<1>b. Rank(k, L) = n + 1
  BY LastRank
<1>c. \A j : Rank(j, K) \in Nat
  <2>1. ASSUME NEW j PROVE {i \in Others(K) : i <= j} \in SUBSET Keys
    BY DEF Others
  <2> QED  BY <2>1, KeysFinite DEF Rank
<1>2. ReportOf(L).mods = ReportOf(K).mods
  BY DEF ReportOf
<1>3. CASE n < ROLLOVER
  <2>1. r.nr_codes = n /\ r.nr_codes # ROLLOVER
    BY <1>0, <1>3 DEF Built
  <2>2. report_add(r, k) =
          [r EXCEPT !.buf.slots[n + 1] = k, !.nr_codes = n + 1]
    BY <2>1 DEF report_add
  <2>3. r.buf = ReportOf(K)
    BY DEF Built
  <2>4. ASSUME NEW i \in 1..ROLLOVER, i <= n
        PROVE  ReportOf(L).slots[i] = ReportOf(K).slots[i]
    <3>1. \A j : (j \in Others(L) /\ Rank(j, L) = i)
                   <=> (j \in Others(K) /\ Rank(j, K) = i)
      <4>1. Rank(k, L) # i
        BY <1>b, <1>0, <2>4
      <4> QED  BY <1>a, <1>1, <4>1
    <3>2. (CHOOSE j \in Others(L) : Rank(j, L) = i)
            = (CHOOSE j \in Others(K) : Rank(j, K) = i)
      BY <3>1
    <3>3. ReportOf(L).slots[i] = CHOOSE j \in Others(L) : Rank(j, L) = i
      BY <1>0, <1>1, <1>3, <2>4 DEF ReportOf
    <3>4. ReportOf(K).slots[i] = CHOOSE j \in Others(K) : Rank(j, K) = i
      BY <1>0, <1>3, <2>4 DEF ReportOf
    <3> QED  BY <3>2, <3>3, <3>4
  <2>5. ReportOf(L).slots[n + 1] = k
    <3>1. ASSUME NEW j \in Others(L), Rank(j, L) = n + 1 PROVE j = k
      <4>1. j \notin Others(K)
        BY <1>a, <1>c, <1>0, <3>1
      <4> QED  BY <1>1, <4>1
    <3>2. k \in Others(L) /\ Rank(k, L) = n + 1
      BY <1>1, <1>b
    <3>3. (CHOOSE j \in Others(L) : Rank(j, L) = n + 1) = k
      BY <3>1, <3>2
    <3>4. ReportOf(L).slots[n + 1]
            = CHOOSE j \in Others(L) : Rank(j, L) = n + 1
      <4>1. n + 1 \in 1..ROLLOVER /\ ~(n + 1 > ROLLOVER) /\ n + 1 <= n + 1
        BY <1>0, <1>3
      <4> QED  BY <1>1, <4>1, Slot
    <3> QED  BY <3>3, <3>4
  <2>6. ASSUME NEW i \in 1..ROLLOVER, i > n + 1
        PROVE  ReportOf(L).slots[i] = ReportOf(K).slots[i]
    <3>1. /\ ~(n > ROLLOVER) /\ ~(n + 1 > ROLLOVER)
          /\ ~(i <= n) /\ ~(i <= n + 1)
      BY <1>0, <1>3, <2>6
    <3>2. ReportOf(K).slots[i] = EMPTY
      BY <3>1, Slot
    <3>3. /\ ~(Cardinality(Others(L)) > ROLLOVER)
          /\ ~(i <= Cardinality(Others(L)))
      BY <1>1, <3>1
    <3>4. ReportOf(L).slots[i] = EMPTY
      BY <3>3, Slot
    <3> QED  BY <3>2, <3>4
  <2>7. ReportOf(L).slots = [ReportOf(K).slots EXCEPT ![n + 1] = k]
    <3>1. /\ ReportOf(L).slots = [i \in 1..ROLLOVER |-> ReportOf(L).slots[i]]
          /\ ReportOf(K).slots = [i \in 1..ROLLOVER |-> ReportOf(K).slots[i]]
      BY DEF ReportOf
    <3>2. ASSUME NEW i \in 1..ROLLOVER
          PROVE  ReportOf(L).slots[i]
                   = [ReportOf(K).slots EXCEPT ![n + 1] = k][i]
      <4>1. CASE i = n + 1
        BY <2>5, <3>1, <4>1
      <4>2. CASE i # n + 1
        <5>1. ReportOf(L).slots[i] = ReportOf(K).slots[i]
          <6>1. i <= n \/ i > n + 1
            BY <1>0, <4>2
          <6> QED  BY <2>4, <2>6, <6>1
        <5> QED  BY <3>1, <4>2, <5>1
      <4> QED  BY <4>1, <4>2
    <3> QED  BY <3>1, <3>2
  <2>8. report_add(r, k).buf = [r.buf EXCEPT !.slots[n + 1] = k]
    BY <2>2 DEF Reports
  <2>9. report_add(r, k).buf = ReportOf(L)
    BY <1>2, <2>3, <2>7, <2>8 DEF ReportOf
  <2>10. report_add(r, k).nr_codes = n + 1
    BY <2>2 DEF Reports
  <2> QED  BY <1>0, <1>1, <1>3, <2>9, <2>10 DEF Built
<1>4. CASE n >= ROLLOVER
  <2>1. r.nr_codes = ROLLOVER
    BY <1>0, <1>4 DEF Built
  <2>2. report_add(r, k) =
          [r EXCEPT !.buf.slots = [i \in 1..ROLLOVER |-> PHANTOM]]
    BY <2>1 DEF report_add
  <2>3. ReportOf(L).slots = [i \in 1..ROLLOVER |-> PHANTOM]
    BY <1>0, <1>1, <1>4 DEF ReportOf
  <2>4. report_add(r, k).buf
          = [r.buf EXCEPT !.slots = [i \in 1..ROLLOVER |-> PHANTOM]]
    BY <2>2 DEF Reports
  <2>5. report_add(r, k).buf = ReportOf(L)
    BY <1>2, <2>3, <2>4 DEF Built, ReportOf
  <2>6. report_add(r, k).nr_codes = ROLLOVER
    BY <2>1, <2>2 DEF Reports
  <2> QED  BY <1>0, <1>1, <1>4, <2>5, <2>6 DEF Built
<1> QED  BY <1>0, <1>3, <1>4

(* report_add adds a key, when keys come in scan order.                     *)
LEMMA AddsKey ==
    ASSUME NEW K \in SUBSET Keys, NEW k \in Keys, \A j \in K : j < k,
           NEW r \in Reports, Built(r, K)
    PROVE  Built(report_add(r, k), K \cup {k})
  BY AddsModifier, AddsOther

-----------------------------------------------------------------------------
LEMMA KbdInitType == KbdInit => KbdTypeOK
<1> SUFFICES ASSUME KbdInit PROVE KbdTypeOK
  OBVIOUS
<1>1. report_init \in Reports
  BY KeyboardAssumption DEF report_init, Reports, Bufs, Slots
<1>2. 0 \in 0..(KEYS + 1) /\ 0 \in 0..SESSIONS
  BY KeyboardAssumption
<1>3. report_init.buf \in Bufs
  BY <1>1 DEF Reports
<1> QED  BY <1>1, <1>2, <1>3 DEF KbdInit, KbdTypeOK

LEMMA AddType ==
    ASSUME NEW r \in Reports, NEW k \in Keys
    PROVE  report_add(r, k) \in Reports
<1>1. ROLLOVER \in Nat
  BY KeyboardAssumption
<1>2. CASE k \in Modifiers
  BY <1>2 DEF report_add, Reports, Bufs
<1>3. CASE k \notin Modifiers /\ r.nr_codes = ROLLOVER
  BY <1>3 DEF report_add, Reports, Bufs, Slots
<1>4. CASE k \notin Modifiers /\ r.nr_codes # ROLLOVER
  <2>1. r.nr_codes + 1 \in 1..ROLLOVER /\ r.nr_codes + 1 \in 0..ROLLOVER
    BY <1>1, <1>4 DEF Reports
  <2>2. report_add(r, k) =
          [r EXCEPT !.buf.slots[r.nr_codes + 1] = k, !.nr_codes = @ + 1]
    BY <1>4 DEF report_add
  <2>3. [r.buf.slots EXCEPT ![r.nr_codes + 1] = k] \in [1..ROLLOVER -> Slots]
    BY DEF Reports, Bufs, Slots
  <2> QED  BY <2>1, <2>2, <2>3 DEF Reports, Bufs
<1> QED  BY <1>2, <1>3, <1>4

LEMMA KbdNextOwed == KbdTypeOK /\ Owed /\ [KbdNext]_kbd_vars => Owed'
<1> SUFFICES ASSUME KbdTypeOK, Owed, [KbdNext]_kbd_vars PROVE Owed'
  OBVIOUS
<1> USE DEF Owed
<1>1. ASSUME UNCHANGED <<ep, last_report, host_report>> PROVE Owed'
  BY <1>1
<1>2. ASSUME NEW k \in Keys, KeyMoves(k) PROVE Owed'
  BY <1>1, <1>2 DEF KeyMoves
<1>3. CASE HostPolls
  BY <1>3 DEF HostPolls
<1>4. CASE tx_completed
  BY <1>4 DEF tx_completed
<1>5. CASE kbd_set_configuration
  BY <1>5 DEF kbd_set_configuration
<1>6. ASSUME NEW on \in BOOLEAN, kbd_report_leds(on) PROVE Owed'
  BY <1>1, <1>6 DEF kbd_report_leds
<1>7. CASE usb_hid_reset
  BY <1>7 DEF usb_hid_reset
<1>8. CASE begin_scan \/ keyboard_scan
  BY <1>1, <1>8 DEF begin_scan, keyboard_scan
<1>9. CASE end_scan
  <2>1. report.buf \in Bufs /\ EMPTY \notin Bufs
    BY KeyboardAssumption DEF KbdTypeOK, Reports
  <2>2. CASE news
    <3>1. report.buf # host_report
      BY <2>1, <2>2 DEF news
    <3> QED  BY <1>9, <2>1, <2>2, <3>1 DEF end_scan, queue
  <2>3. CASE ~news
    BY <1>1, <1>9, <2>3 DEF end_scan
  <2> QED  BY <2>2, <2>3
<1>10. CASE UNCHANGED kbd_vars
  BY <1>1, <1>10 DEF kbd_vars
<1> QED
  BY <1>2, <1>3, <1>4, <1>5, <1>6, <1>7, <1>8, <1>9, <1>10
     DEF KbdNext, keyboard_process

(* A step of the scan: the key is added if it was down when its column was  *)
(* read.                                                                    *)
LEMMA ScanStep ==
    ASSUME ScanInv, keyboard_scan
    PROVE  /\ next' \in 0..(KEYS + 1) /\ idr' \in SUBSET Keys
           /\ report' \in Reports
           /\ ColumnRead' /\ Added'
<1> USE DEF ScanInv, KbdTypeOK, keyboard_scan
<1>1. next \in Keys /\ next \in Int /\ KEYS \in Nat
  BY KeyboardAssumption DEF Keys
<1>2. next' \in 0..(KEYS + 1) /\ next' - 1 = next
  BY <1>1 DEF Keys
<1>3. idr' \in SUBSET Keys
  OBVIOUS
<1>4. report' \in Reports
  BY <1>1, AddType
<1>5. ASSUME steady
      PROVE  idr' = {k \in pressed : Column[k] = Column[next]}
  <2>1. CASE begins_column(next)
    BY <2>1
  <2>2. CASE ~begins_column(next)
    <3>1. next > 1 /\ Column[next - 1] = Column[next]
      BY <1>1, <2>2 DEF begins_column, Keys
    <3> QED  BY <1>5, <2>2, <3>1 DEF ColumnRead
  <2> QED  BY <2>1, <2>2
<1>6. ColumnRead'
  BY <1>2, <1>5 DEF ColumnRead
<1>7. Added'
  <2> SUFFICES ASSUME steady PROVE Built(report', Sofar')
    BY DEF Added
  <2>1. Built(report, Sofar)
    BY <1>1 DEF Added, Keys
  <2>2. next \in idr' <=> next \in pressed
    BY <1>1, <1>5
  <2>3. Sofar \in SUBSET Keys /\ \A k \in Sofar : k < next
    BY DEF Sofar
  <2>a. \A k \in pressed : k < next' <=> k < next \/ k = next
    BY <1>1 DEF Keys
  <2>b. Sofar' = {k \in pressed : k < next'}
    BY DEF Sofar
  <2>4. CASE next \in pressed
    <3>1. Sofar' = Sofar \cup {next}
      BY <2>a, <2>b, <2>4 DEF Sofar
    <3>2. report' = report_add(report, next)
      BY <2>2, <2>4
    <3>3. Built(report_add(report, next), Sofar \cup {next})
      BY <1>1, <2>1, <2>3, AddsKey
    <3> QED  BY <3>1, <3>2, <3>3
  <2>5. CASE next \notin pressed
    <3>1. Sofar' = Sofar
      BY <2>a, <2>b, <2>5 DEF Sofar
    <3>2. report' = report
      BY <2>2, <2>5
    <3> QED  BY <2>1, <3>1, <3>2
  <2> QED  BY <2>4, <2>5
<1> QED  BY <1>2, <1>3, <1>4, <1>6, <1>7

LEMMA BeginStep ==
    ASSUME ScanInv, begin_scan
    PROVE  ScanInv'
<1> USE DEF ScanInv, begin_scan
<1>1. KbdTypeOK'
  <2>1. report_init \in Reports
    BY KeyboardAssumption DEF report_init, Reports, Bufs, Slots
  <2>2. 1 \in 0..(KEYS + 1)
    BY KeyboardAssumption
  <2> QED  BY <2>1, <2>2 DEF KbdTypeOK
<1>2. ColumnRead'
  BY DEF ColumnRead
<1>3. Added'
  <2>1. \A k \in Keys : ~(k < 1)
    BY KeyboardAssumption DEF Keys
  <2>2. Sofar' = {}
    BY <2>1 DEF Sofar, KbdTypeOK
  <2> QED  BY <2>2, BuiltNothing DEF Added
<1> QED  BY <1>1, <1>2, <1>3

LEMMA KbdNextScan == ScanInv /\ Owed /\ [KbdNext]_kbd_vars => ScanInv'
<1> SUFFICES ASSUME ScanInv, Owed, [KbdNext]_kbd_vars PROVE ScanInv'
  OBVIOUS
<1> USE DEF ScanInv, scan
<1>0. ASSUME pressed' \in SUBSET Keys, steady' = FALSE,
             UNCHANGED <<initialised, led, pin, next, idr, report,
                         last_report, ep, host_report, sessions>>
      PROVE  ScanInv'
  <2>1. KbdTypeOK'
    BY <1>0 DEF KbdTypeOK
  <2> QED  BY <1>0, <2>1 DEF ColumnRead, Added
<1>1. ASSUME NEW k \in Keys, KeyMoves(k) PROVE ScanInv'
  <2>1. pressed' \in SUBSET Keys
    BY <1>1 DEF KeyMoves, KbdTypeOK
  <2> QED  BY <1>0, <1>1, <2>1 DEF KeyMoves
<1>2. ASSUME UNCHANGED <<pressed, next, idr, report, steady>>, KbdTypeOK'
      PROVE  ScanInv'
  <2>1. Sofar' = Sofar
    BY <1>2 DEF Sofar
  <2> QED  BY <1>2, <2>1 DEF ColumnRead, Added
<1>3. CASE HostPolls
  <2>1. last_report \in Bufs
    BY <1>3 DEF HostPolls, Owed
  <2>2. KbdTypeOK'
    BY <1>3, <2>1 DEF HostPolls, KbdTypeOK
  <2> QED  BY <1>2, <1>3, <2>2 DEF HostPolls
<1>4. CASE tx_completed
  BY <1>2, <1>4 DEF tx_completed, KbdTypeOK
<1>5. CASE kbd_set_configuration
  <2>1. sessions' \in 0..SESSIONS
    BY <1>5, KeyboardAssumption DEF kbd_set_configuration, KbdTypeOK
  <2>2. KbdTypeOK'
    BY <1>5, <2>1 DEF kbd_set_configuration, usb_hid_configure, KbdTypeOK
  <2> QED  BY <1>2, <1>5, <2>2 DEF kbd_set_configuration
<1>6. ASSUME NEW on \in BOOLEAN, kbd_report_leds(on) PROVE ScanInv'
  BY <1>2, <1>6 DEF kbd_report_leds, KbdTypeOK
<1>7. CASE usb_hid_reset
  BY <1>2, <1>7 DEF usb_hid_reset, clear_pin, KbdTypeOK
<1>8. CASE begin_scan
  BY <1>8, BeginStep
<1>9. CASE keyboard_scan
  <2>1. /\ next' \in 0..(KEYS + 1) /\ idr' \in SUBSET Keys
        /\ report' \in Reports
        /\ ColumnRead' /\ Added'
    BY <1>9, ScanStep
  <2>2. KbdTypeOK'
    BY <1>9, <2>1 DEF keyboard_scan, KbdTypeOK
  <2> QED  BY <2>1, <2>2
<1>10. CASE end_scan
  <2>1. 0 \in 0..(KEYS + 1)
    BY KeyboardAssumption
  <2>2. ep' \in {"off", "ready", "sending", "sent"}
        /\ last_report' \in Bufs \cup {UNKNOWN}
    BY <1>10 DEF end_scan, news, queue, KbdTypeOK, Reports
  <2>3. KbdTypeOK'
    BY <1>10, <2>1, <2>2 DEF end_scan, KbdTypeOK
  <2> QED  BY <1>10, <2>3 DEF end_scan, ColumnRead, Added
<1>11. CASE UNCHANGED kbd_vars
  BY <1>2, <1>11 DEF kbd_vars, KbdTypeOK
<1> QED
  BY <1>1, <1>3, <1>4, <1>5, <1>6, <1>7, <1>8, <1>9, <1>10, <1>11
     DEF KbdNext, keyboard_process

KbdInv == ScanInv /\ Owed

LEMMA KbdInvariant == KbdSpec => []KbdInv
<1>1. KbdInit => KbdInv
  BY KbdInitType DEF KbdInit, KbdInv, ScanInv, ColumnRead, Added, Owed
<1>2. KbdInv /\ [KbdNext]_kbd_vars => KbdInv'
  BY KbdNextScan, KbdNextOwed DEF KbdInv, ScanInv
<1> QED  BY <1>1, <1>2, PTL DEF KbdSpec

(* A scan in which no key moves reports exactly the keys that are down,     *)
(* keeps the modifiers in the phantom state, and never writes beyond the    *)
(* report (keyboard.c:113-157).                                             *)
THEOREM KeyboardScanExact == KbdSpec => []ScanExact
<1>1. KbdInv => ScanExact
  <2> SUFFICES ASSUME ScanInv, next = KEYS + 1, steady
               PROVE  report.buf = ReportOf(pressed)
    BY DEF KbdInv, ScanInv, ScanExact
  <2>1. \A k \in Keys : k < next
    BY KeyboardAssumption DEF Keys
  <2>2. Sofar = pressed
    BY <2>1 DEF Sofar, ScanInv, KbdTypeOK
  <2>3. next >= 1
    BY KeyboardAssumption
  <2> QED  BY <2>2, <2>3 DEF ScanInv, Added, Built
<1> QED  BY <1>1, KbdInvariant, PTL

(* The host is never sent the report it already has (keyboard.c:170-173):   *)
(* within a session every report it fetches is a change.                    *)
THEOREM KeyboardReportsAreNews == KbdSpec => ReportsAreNews
<1>1. KbdInv /\ [KbdNext]_kbd_vars
        => [HostPolls => host_report' # host_report]_kbd_vars
  BY DEF KbdInv, Owed, HostPolls
<1> QED  BY <1>1, KbdInvariant, PTL DEF KbdSpec, ReportsAreNews

(* The Caps Lock light is out while the device is not configured            *)
(* (keyboard.c:177-181), although the LED state survives a reset.           *)
THEOREM KeyboardLightOut == KbdSpec => []LightOut
<1>1. KbdInit => LightOut
  BY DEF KbdInit, LightOut
<1>2. LightOut /\ [KbdNext]_kbd_vars => LightOut'
  <2> SUFFICES ASSUME LightOut, [KbdNext]_kbd_vars PROVE LightOut'
    OBVIOUS
  <2>1. CASE usb_hid_reset
    BY <2>1 DEF usb_hid_reset, clear_pin, LightOut
  <2>2. CASE begin_scan
    BY <2>2 DEF begin_scan, LightOut
  <2>3. CASE kbd_set_configuration
    BY <2>3 DEF kbd_set_configuration, usb_hid_configure, LightOut
  <2>4. CASE UNCHANGED <<initialised, pin>>
    BY <2>4 DEF LightOut
  <2> QED
    BY <2>1, <2>2, <2>3, <2>4
       DEF KbdNext, KeyMoves, HostPolls, tx_completed, kbd_report_leds,
           keyboard_process, keyboard_scan, end_scan, kbd_vars
<1> QED  BY <1>1, <1>2, PTL DEF KbdSpec
=============================================================================
