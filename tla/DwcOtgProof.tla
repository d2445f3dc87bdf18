---------------------------- MODULE DwcOtgProof -----------------------------
(***************************************************************************)
(* Proofs about DwcOtg, for every set of requests, any packet size, either *)
(* build, and hosts that abandon transfers, lose acknowledgements and      *)
(* repeat SETUPs: every variable keeps its type, and, unless a SETUP was   *)
(* repeated since endpoint 0 was configured, no ASSERT of the driver fails *)
(* and endpoint 0 is not deaf.  If the host neither repeats SETUPs nor     *)
(* abandons transfers, the driver implements ControlPipe; and if nothing   *)
(* is lost, the flag of the transmit buffer and the address are accounted  *)
(* for (Accounted).                                                        *)
(***************************************************************************)
EXTENDS DwcOtg, UsbHostProof, SequenceTheorems

DeafInv ==
    /\ pc = "poll" => gint = {}
    /\ Resetting \/ armed \/ setup_open \/ oint # "none" \/ HasEnd(rxf)

(* Nothing is received from the reset of the bus to the configuration of    *)
(* endpoint 0, and the program handles the one before the other.            *)
ResetInv ==
    /\ usbrst => line = "reset"
    /\ enumdne => line = "up"
    /\ "rst" \in gint => usbrst
    /\ "enum" \in gint => usbrst \/ enumdne
    /\ Resetting => rxf = <<>> /\ ~setup_open /\ hphase = "idle"

(* In a FIFO packets and ends of stages alternate, and a SETUP whose stage  *)
(* is open comes last.                                                      *)
Pairs(s, open) ==
    /\ \A i \in DOMAIN s : i # 1 => (EndOfStage(s[i]) <=> ~EndOfStage(s[i - 1]))
    /\ s # <<>> => (EndOfStage(s[Len(s)]) <=> ~open)

\* What comes out of it next is, or will be, the end of a stage.
NextEnds(s, open) ==
    \/ s = <<>> /\ open
    \/ s # <<>> /\ EndOfStage(Head(s))

(* The ring holds a packet until the poll after the one that finds the end  *)
(* of its stage, and in that poll the ring is read before the FIFO.         *)
Waiting == rx_count = 1 /\ oint = "none"

RingInv ==
    /\ "oep" \in gint => oint # "none"
    /\ oint # "none" =>
          rx_active /\ rx_count = 1 /\ ("oep" \in gint \/ gint = {})
    /\ ~Resetting => rx_active /\ (Waiting <=> NextEnds(rxf, setup_open))

CountInv == rx_count \in {0, 1} /\ pc # "illegal"

SafeInv == ResetInv /\ Pairs(rxf, setup_open) /\ RingInv /\ CountInv

(* What a repeated SETUP leaves intact: enough to configure endpoint 0 from *)
(* there.  An interrupt is handled before the FIFO is popped again.         *)
Serving == oint # "none" => "oep" \in gint \/ gint = {}

DwcInv == ResetInv /\ Serving /\ (~repeated => DeafInv /\ SafeInv)
-----------------------------------------------------------------------------
(* The next-state relation, one name for each kind of step.                 *)
LEMMA NextCases ==
    ASSUME [Next]_vars
    PROVE  \/ \E r \in Requests : HostSetup(r)
           \/ HostResendsSetup \/ HostToken \/ HostIn \/ HostOut
           \/ HostStalled \/ HostPollsKeyboard \/ BusReset \/ EnumerationDone
           \/ dwc_otg_process \/ handle_oepint \/ handle_iepint
           \/ enumeration_done \/ handle_reset \/ handle_rx_transfer
           \/ illegal \/ keyboard_process \/ UNCHANGED vars
BY DEF Next, Program, HostMoves

-----------------------------------------------------------------------------
(* Types.                                                                   *)

LEMMA EndpointType ==
    ASSUME NEW e \in Endpoints, NEW b \in BOOLEAN, NEW s \in TxStats
    PROVE  /\ e.ready \in BOOLEAN /\ e.stat \in TxStats /\ e.ctr \in BOOLEAN
           /\ [e EXCEPT !.stat = s] \in Endpoints
           /\ [e EXCEPT !.ready = b, !.stat = s] \in Endpoints
           /\ [e EXCEPT !.stat = s, !.ctr = b] \in Endpoints
           /\ [e EXCEPT !.ready = TRUE, !.ctr = FALSE] \in Endpoints
BY DEF Endpoints

LEMMA EntryType ==
    ASSUME NEW sts \in {"setup", "setup_comp", "data", "data_comp"},
           NEW r \in Requests, NEW len \in Nat
    PROVE  /\ Entry(sts, r, len) \in Entries
           /\ Entry(sts, r, len).sts = sts
BY DEF Entry, Entries

LEMMA AcceptType ==
    ASSUME DriverTypeOK, HostTypeOK, NEW r \in Requests, accept(r) \/ no_request
    PROVE  /\ acted' \in {"no", "yes", "wrong"} /\ dad' \in Nat
           /\ initialised' \in BOOLEAN /\ ep1' \in Endpoints
<1> USE DEF DriverTypeOK, HostTypeOK
<1>1. CASE no_request
  BY <1>1 DEF no_request, class
<1>2. CASE accept(r)
  <2>1. acted' \in {"no", "yes", "wrong"}
    BY <1>2, DeviceActsType DEF accept
  <2>2. dad' \in Nat
    BY <1>2, RequestType DEF accept
  <2>3. CASE r.act = "setconf"
    <3>1. "NAK" \in TxStats
      BY DEF TxStats
    <3> QED
      BY <1>2, <2>1, <2>2, <2>3, <3>1, EndpointType
      DEF accept, hid_set_configuration
  <2>4. CASE r.act # "setconf"
    BY <1>2, <2>1, <2>2, <2>4 DEF accept, class
  <2> QED
    BY <2>3, <2>4
<1> QED
  BY <1>1, <1>2

Types ==
    /\ CoreTypeOK /\ DriverTypeOK /\ HostInv
    /\ build \in Builds /\ repeated \in BOOLEAN

LEMMA TypeStep ==
    ASSUME Types, [Next]_vars
    PROVE  Types'
<1> USE DEF Types
<1>b. build' \in Builds /\ repeated' \in BOOLEAN
  BY NextCases
  DEF HostSetup, HostResendsSetup, SetupArrives, HostToken, HostIn, HostOut,
      HostStalled, HostPollsKeyboard, BusReset, EnumerationDone,
      dwc_otg_process, handle_oepint, handle_iepint, enumeration_done,
      handle_reset, handle_rx_transfer, illegal, keyboard_process, vars, ghost
<1> USE <1>b
<1>0. HostTypeOK /\ "NAK" \in TxStats /\ "DISABLED" \in TxStats
  BY DEF HostInv, TxStats
<1>h. UNCHANGED host => HostInv'
  BY HostUnchangedInv
<1>c. UNCHANGED core => CoreTypeOK'
  BY CoreUnchangedType
<1>1. ASSUME NEW r \in Requests, SetupArrives(r)
      PROVE  CoreTypeOK' /\ DriverTypeOK'
  <2>1. CoreTypeOK'
    BY <1>0, <1>1 DEF SetupArrives, CoreTypeOK, ep0
  <2>2. Entry("setup", r, 8) \in Entries
    BY EntryType
  <2>3. rxf' \in Seq(Entries)
    BY <1>1, <2>2 DEF SetupArrives, DriverTypeOK
  <2> QED
    BY <1>1, <2>1, <2>3 DEF SetupArrives, DriverTypeOK, bus, class
<1>2. ASSUME NEW r \in Requests, HostSetup(r)
      PROVE  Types'
  BY <1>1, <1>2, HostBeginsInv DEF HostSetup
<1>3. CASE HostResendsSetup
  BY <1>0, <1>1, <1>3, <1>h DEF HostResendsSetup, HostTypeOK
<1>4. CASE HostToken
  <2>1. Entry("setup_comp", hreq, 0) \in Entries
    BY <1>0, EntryType DEF HostTypeOK
  <2>2. rxf' \in Seq(Entries)
    BY <1>4, <2>1 DEF HostToken, DriverTypeOK
  <2> QED
    BY <1>4, <1>c, <1>h, <2>2 DEF HostToken, DriverTypeOK, bus, class
<1>5. CASE HostIn
  <2>1. CoreTypeOK'
    BY <1>0, <1>5 DEF HostIn, CoreTypeOK, ep0
  <2>2. DriverTypeOK'
    BY <1>5 DEF HostIn, DriverTypeOK, bus, class, rx0
  <2>3. HostInv'
    BY <1>0, <1>5, HostTakesPacketInv DEF HostIn, CoreTypeOK, HostTypeOK
  <2> QED
    BY <2>1, <2>2, <2>3
<1>6. CASE HostOut
  <2>1. HostInv' /\ HostOutLen \in Nat
    BY <1>6, HostSendsOutInv DEF HostOut
  <2>2. /\ Entry("data", hreq, HostOutLen) \in Entries
        /\ Entry("data_comp", hreq, 0) \in Entries
    BY <1>0, <2>1, EntryType DEF HostTypeOK
  <2>3. rxf' \in Seq(Entries)
    BY <1>6, <2>2 DEF HostOut, DriverTypeOK
  <2> QED
    BY <1>6, <1>c, <2>1, <2>3 DEF HostOut, DriverTypeOK, bus, class
<1>7. CASE HostStalled
  BY <1>7, <1>c, HostTakesStallInv
  DEF HostStalled, DriverTypeOK, bus, class, rx0
<1>8. CASE HostPollsKeyboard
  <2>1. ep1' \in Endpoints
    BY <1>0, <1>8, EndpointType DEF HostPollsKeyboard, DriverTypeOK
  <2> QED
    BY <1>8, <1>c, <1>h, <2>1 DEF HostPollsKeyboard, DriverTypeOK, bus, rx0
<1>9. CASE BusReset
  <2>1. CoreTypeOK'
    BY <1>0, <1>9 DEF BusReset, CoreTypeOK, ep0
  <2>2. ep1' \in Endpoints
    BY <1>0, <1>9, EndpointType DEF BusReset, DriverTypeOK
  <2>3. rxf' \in Seq(Entries)
    BY <1>9 DEF BusReset, DriverTypeOK
  <2>4. DriverTypeOK'
    BY <1>9, <2>2, <2>3 DEF BusReset, DriverTypeOK
  <2> QED
    BY <1>9, <2>1, <2>4, HostSeesResetInv DEF BusReset
<1>10. CASE EnumerationDone
  BY <1>10, <1>c, <1>h DEF EnumerationDone, DriverTypeOK, class, rx0
<1>11. CASE dwc_otg_process
  <2>1. gint' \in SUBSET Sections
    BY <1>11 DEF dwc_otg_process
  <2> QED
    BY <1>11, <1>c, <1>h, <2>1
    DEF dwc_otg_process, DriverTypeOK, class, rx0, bus
<1>12. CASE handle_oepint
  <2>1. rx_slot.len \in Nat /\ rx_slot.req \in Requests /\ req \in Requests
    BY DEF DriverTypeOK, Entries, CoreTypeOK
  <2>2. CoreTypeOK'
    BY <1>12, <2>1, SetupType, OutType DEF handle_oepint
  <2>3. accept(req) \/ accept(rx_slot.req) \/ no_request
    BY <1>12 DEF handle_oepint
  <2>4. /\ acted' \in {"no", "yes", "wrong"} /\ dad' \in Nat
        /\ initialised' \in BOOLEAN /\ ep1' \in Endpoints
    BY <1>0, <2>1, <2>3, AcceptType
  <2>5. HostInv'
    BY <1>12, <2>4, HostActedInv DEF handle_oepint
  <2>6. /\ rx_count' \in Int /\ rx_active' \in BOOLEAN /\ armed' \in BOOLEAN
        /\ rx_slot' = rx_slot
    BY <1>12 DEF handle_oepint, dwc_otg_read, DriverTypeOK, RX_NR
  <2>7. stall' \in BOOLEAN
    BY <1>12 DEF handle_oepint, DriverTypeOK
  <2>8. DriverTypeOK'
    BY <1>12, <2>4, <2>6, <2>7
    DEF handle_oepint, Section, Reached, DriverTypeOK, bus
  <2> QED
    BY <2>2, <2>5, <2>8
<1>13. CASE handle_iepint
  <2>1. CoreTypeOK'
    BY <1>13, <1>c, TxType DEF handle_iepint
  <2>2. ep1' \in Endpoints
    <3>1. ep1 \in Endpoints
      BY DEF DriverTypeOK
    <3>2. ep1' = ep1 \/ ep1' = [ep1 EXCEPT !.ready = TRUE, !.ctr = FALSE]
      BY <1>13 DEF handle_iepint
    <3>3. [ep1 EXCEPT !.ready = TRUE, !.ctr = FALSE] \in Endpoints
      BY <3>1, <1>0, EndpointType
    <3> QED
      BY <3>1, <3>2, <3>3
  <2> QED
    BY <1>13, <1>h, <2>1, <2>2
    DEF handle_iepint, Section, Reached, DriverTypeOK, bus, rx0
<1>14. CASE enumeration_done
  <2>1. CoreTypeOK'
    BY <1>0, <1>14 DEF enumeration_done, configure_ep0, CoreTypeOK, ep0
  <2>2. /\ rx_count' = 0 /\ rx_active' \in BOOLEAN /\ armed' \in BOOLEAN
        /\ enumdne' \in BOOLEAN
        /\ gint' \in SUBSET Sections
    BY <1>14 DEF enumeration_done, configure_ep0, Section, Reached, DriverTypeOK
  <2> QED
    BY <1>14, <1>h, <2>1, <2>2 DEF enumeration_done, DriverTypeOK, class
<1>15. CASE handle_reset
  <2>1. CoreTypeOK'
    BY <1>0, <1>15 DEF handle_reset, CoreTypeOK
  <2>2. ep1' \in Endpoints
    BY <1>0, <1>15, EndpointType DEF handle_reset, DriverTypeOK
  <2>3. /\ rx_count' = 0 /\ rx_active' \in BOOLEAN /\ stall' \in BOOLEAN
        /\ usbrst' \in BOOLEAN /\ initialised' \in BOOLEAN /\ dad' = 0
        /\ gint' \in SUBSET Sections
    BY <1>15 DEF handle_reset, Section, Reached, DriverTypeOK
  <2> QED
    BY <1>15, <1>h, <2>1, <2>2, <2>3 DEF handle_reset, DriverTypeOK
<1>16. CASE handle_rx_transfer
  <2>1. rxf' \in Seq(Entries) /\ rx_slot' \in Entries
    BY <1>16 DEF handle_rx_transfer, DriverTypeOK
  <2>2. rx_count' \in Int /\ oint' \in {"none", "xfrc", "stup"}
    <3>1. \/ UNCHANGED <<rx_count, oint>>
          \/ rx_count' = rx_count + 1 /\ UNCHANGED oint
          \/ UNCHANGED rx_count /\ oint' \in {"xfrc", "stup"}
      BY <1>16 DEF handle_rx_transfer
    <3> QED
      BY <3>1 DEF DriverTypeOK
  <2>3. armed' \in BOOLEAN
    <3>1. armed' = armed \/ armed' = FALSE
      BY <1>16 DEF handle_rx_transfer
    <3> QED
      BY <3>1 DEF DriverTypeOK
  <2> QED
    BY <1>16, <1>c, <1>h, <2>1, <2>2, <2>3
    DEF handle_rx_transfer, Section, Reached, DriverTypeOK, bus, class
<1>17. CASE illegal
  BY <1>17, <1>c, <1>h DEF illegal, DriverTypeOK, bus, class, rx0
<1>18. CASE keyboard_process
  <2>1. "VALID" \in TxStats
    BY DEF TxStats
  <2>2. ep1' \in Endpoints
    BY <1>18, <2>1, EndpointType DEF keyboard_process, DriverTypeOK
  <2> QED
    BY <1>18, <1>c, <1>h, <2>2 DEF keyboard_process, DriverTypeOK, bus, rx0
<1>19. CASE UNCHANGED vars
  BY <1>19, <1>c, <1>h DEF vars, DriverTypeOK, bus, class, rx0
<1> QED
  BY NextCases, <1>2, <1>3, <1>4, <1>5, <1>6, <1>7, <1>8, <1>9, <1>10, <1>11,
     <1>12, <1>13, <1>14, <1>15, <1>16, <1>17, <1>18, <1>19

-----------------------------------------------------------------------------
(* Endpoint 0 is never deaf.                                                *)

LEMMA HasEndSteps ==
    ASSUME NEW s \in Seq(Entries), NEW e \in Entries
    PROVE  /\ HasEnd(s) => s # <<>>
           /\ HasEnd(s) => HasEnd(Append(s, e))
           /\ EndOfStage(e) => HasEnd(Append(s, e))
           /\ HasEnd(s) /\ ~EndOfStage(Head(s)) => HasEnd(Tail(s))
<1>1. HasEnd(s) => s # <<>>
  BY DEF HasEnd
<1>2. HasEnd(s) => HasEnd(Append(s, e))
  BY DEF HasEnd
<1>3. EndOfStage(e) => HasEnd(Append(s, e))
  <2>1. Len(s) + 1 \in DOMAIN Append(s, e) /\ Append(s, e)[Len(s) + 1] = e
    OBVIOUS
  <2> QED
    BY <2>1 DEF HasEnd
<1>4. ASSUME HasEnd(s), ~EndOfStage(Head(s))
      PROVE  HasEnd(Tail(s))
  <2>1. PICK i \in DOMAIN s : EndOfStage(s[i])
    BY <1>4 DEF HasEnd
  <2>2. i # 1
    BY <1>1, <1>4, <2>1
  <2>3. i \in 1..Len(s) /\ i - 1 \in 1..(Len(s) - 1)
    BY <2>1, <2>2
  <2>4. /\ DOMAIN Tail(s) = 1..(Len(s) - 1)
        /\ Tail(s)[i - 1] = s[i]
    BY <1>1, <1>4, <2>3
  <2> QED
    BY <2>1, <2>3, <2>4 DEF HasEnd
<1> QED
  BY <1>1, <1>2, <1>3, <1>4

LEMMA DeafInit == Init => DeafInv
BY DEF Init, DeafInv, Resetting, up

(* Nothing that counts changes, but for sections of the poll that are run.  *)
LEMMA StillOpen ==
    ASSUME DeafInv, UNCHANGED <<line, enumdne, armed, setup_open, oint, rxf>>,
           "enum" \in gint => "enum" \in gint'
    PROVE  (\/ Resetting \/ armed \/ setup_open \/ oint # "none"
            \/ HasEnd(rxf))'
BY DEF DeafInv, Resetting, up, HasEnd

LEMMA DeafStep ==
    ASSUME ~HostResendsSetup, Types, DeafInv, SafeInv, [Next]_vars
    PROVE  DeafInv'
<1> DEFINE Open == \/ Resetting \/ armed \/ setup_open \/ oint # "none"
                   \/ HasEnd(rxf)
<1>t. /\ rxf \in Seq(Entries)
      /\ Open /\ (pc = "poll" => gint = {}) /\ hreq \in Requests
  BY DEF Types, DriverTypeOK, DeafInv, HostInv, HostTypeOK
<1>q. ASSUME Open', (pc = "poll" => gint = {})'
      PROVE  DeafInv'
  BY <1>q DEF DeafInv
<1>s. ASSUME UNCHANGED <<line, enumdne, armed, setup_open, oint, rxf>>,
             \/ gint' = gint
             \/ \E s \in Sections : s # "enum" /\ gint' = gint \ {s},
             pc' = "poll" => gint' = {}
      PROVE  DeafInv'
  BY <1>q, <1>s, <1>t, StillOpen
<1> HIDE DEF Open
<1>1. ASSUME NEW r \in Requests, SetupArrives(r)
      PROVE  DeafInv'
  BY <1>1, <1>q, <1>t DEF SetupArrives, Open
<1>2. ASSUME NEW r \in Requests, HostSetup(r)
      PROVE  DeafInv'
  BY <1>1, <1>2 DEF HostSetup
<1>4. CASE HostToken
  <2>1. /\ Entry("setup_comp", hreq, 0) \in Entries
        /\ EndOfStage(Entry("setup_comp", hreq, 0))
    BY <1>t, EntryType DEF EndOfStage
  <2>2. HasEnd(rxf')
    BY <1>4, <1>t, <2>1, HasEndSteps DEF HostToken
  <2> QED
    BY <1>4, <1>q, <1>t, <2>2 DEF HostToken, Open, HasEnd
<1>5. CASE HostIn
  BY <1>5, <1>s, <1>t DEF HostIn, bus, rx0
<1>6. CASE HostOut
  <2>1. HostOutLen \in Nat
    BY <1>6, HostSendsOutInv DEF HostOut, Types
  <2>2. /\ Entry("data", hreq, HostOutLen) \in Entries
        /\ Entry("data_comp", hreq, 0) \in Entries
        /\ EndOfStage(Entry("data_comp", hreq, 0))
    BY <1>t, <2>1, EntryType DEF EndOfStage
  <2>3. rxf' = Append(Append(rxf, Entry("data", hreq, HostOutLen)),
                      Entry("data_comp", hreq, 0))
    BY <1>6, <1>t, <2>2 DEF HostOut
  <2>4. HasEnd(rxf')
    <3>1. Append(rxf, Entry("data", hreq, HostOutLen)) \in Seq(Entries)
      BY <1>t, <2>2
    <3> QED
      BY <2>2, <2>3, <3>1, HasEndSteps
  <2> QED
    BY <1>6, <1>q, <1>t, <2>4 DEF HostOut, Open, HasEnd
<1>7. CASE HostStalled
  BY <1>7, <1>s, <1>t DEF HostStalled, bus, rx0
<1>8. CASE HostPollsKeyboard
  BY <1>8, <1>s, <1>t DEF HostPollsKeyboard, bus, rx0
<1>9. CASE BusReset
  BY <1>9, <1>q, <1>t DEF BusReset, Open, Resetting, up
<1>10. CASE EnumerationDone
  BY <1>10, <1>q, <1>t DEF EnumerationDone, Open, Resetting, rx0
<1>11. CASE dwc_otg_process
  <2>1. gint = {} /\ Open'
    BY <1>11, <1>t, StillOpen DEF dwc_otg_process, bus, rx0, Open
  <2> QED
    BY <1>11, <1>q, <1>t, <2>1 DEF dwc_otg_process, rx0
<1>12. CASE handle_oepint
  <2>1. rx_count = 1
    BY <1>12 DEF handle_oepint, SafeInv, RingInv
  <2>2. armed'
    <3>1. rx_count' = 0
      BY <1>12, <2>1 DEF handle_oepint, dwc_otg_read
    <3>2. room(0) = 1 /\ RX_NR \div 2 = 0
      BY DEF room, RX_NR
    <3>3. room(rx_count') > RX_NR \div 2
      BY <3>1, <3>2
    <3> QED
      BY <1>12, <3>3 DEF handle_oepint, dwc_otg_read
  <2>3. (pc = "poll" => gint = {})'
    BY <1>12 DEF handle_oepint, Section, Reached
  <2> QED
    BY <1>q, <2>2, <2>3 DEF Open
<1>13. CASE handle_iepint
  BY <1>13, <1>s, <1>t DEF handle_iepint, Section, Reached, Sections, bus, rx0
<1>14. CASE enumeration_done
  BY <1>14, <1>q, <1>t
  DEF enumeration_done, configure_ep0, Section, Reached, Open
<1>15. CASE handle_reset
  <2>1. Open'
    BY <1>15, <1>t, StillOpen DEF handle_reset, Section, Reached, Open
  <2> QED
    BY <1>15, <1>q, <1>t, <2>1 DEF handle_reset, Section, Reached
<1>16. CASE handle_rx_transfer
  <2>1. /\ gint' = gint \ {"rxf"} /\ pc = "process" /\ pc' = pc
        /\ UNCHANGED <<setup_open, line, enumdne>>
    BY <1>16 DEF handle_rx_transfer, Section, Reached, bus
  <2>2. CASE rxf = <<>>
    <3>1. UNCHANGED <<rxf, oint, armed>>
      BY <1>16, <2>2 DEF handle_rx_transfer
    <3> QED
      BY <1>s, <2>1, <3>1 DEF Sections
  <2>3. CASE rxf # <<>> /\ oint' # "none"
    BY <1>q, <1>t, <2>1, <2>3 DEF Open
  <2>4. CASE /\ rxf # <<>> /\ Head(rxf).sts \in {"setup", "data"}
             /\ rxf' = Tail(rxf) /\ UNCHANGED <<oint, armed>>
    <3>1. ~EndOfStage(Head(rxf)) /\ Head(rxf) \in Entries
      BY <1>t, <2>4 DEF EndOfStage
    <3>2. HasEnd(rxf) => HasEnd(rxf')
      BY <1>t, <2>4, <3>1, HasEndSteps
    <3>3. Open'
      BY <1>t, <2>1, <2>4, <3>2 DEF Open, Resetting, up, HasEnd
    <3> QED
      BY <1>q, <2>1, <3>3
  <2>5. \/ rxf = <<>>
        \/ rxf # <<>> /\ oint' # "none"
        \/ /\ rxf # <<>> /\ Head(rxf).sts \in {"setup", "data"}
           /\ rxf' = Tail(rxf) /\ UNCHANGED <<oint, armed>>
    BY <1>16 DEF handle_rx_transfer
  <2> QED
    BY <2>2, <2>3, <2>4, <2>5
<1>17. CASE illegal
  BY <1>17, <1>s, <1>t DEF illegal, bus, rx0
<1>18. CASE keyboard_process
  BY <1>18, <1>s, <1>t DEF keyboard_process, bus, rx0
<1>19. CASE UNCHANGED vars
  BY <1>19, <1>s, <1>t DEF vars, bus, rx0
<1> QED
  BY NextCases, <1>2, <1>4, <1>5, <1>6, <1>7, <1>8, <1>9, <1>10, <1>11,
     <1>12, <1>13, <1>14, <1>15, <1>16, <1>17, <1>18, <1>19

LEMMA InitTypes == Init => Types
<1> SUFFICES ASSUME Init PROVE Types
  OBVIOUS
<1>1. CoreTypeOK
  <2>1. txbuf \in Packets
    BY CoreAssumption DEF Init, Packets
  <2> QED
    BY <2>1 DEF Init, CoreTypeOK, TxStats
<1>2. DriverTypeOK
  <2>1. rx_slot \in Entries
    BY EntryType DEF Init
  <2>2. ep1 \in Endpoints
    BY DEF Init, Endpoints, TxStats
  <2>3. rxf \in Seq(Entries)
    BY DEF Init
  <2>4. /\ rx_count \in Int /\ dad \in Nat /\ gint \in SUBSET Sections
        /\ line \in {"off", "reset", "up"} /\ oint \in {"none", "xfrc", "stup"}
        /\ pc \in {"poll", "process", "illegal"}
    BY DEF Init
  <2> QED
    BY <2>1, <2>2, <2>3, <2>4 DEF Init, DriverTypeOK
<1>3. HostInv
  BY DEF Init, HostInit, HostInv, HostTypeOK, DataBound
<1>4. build \in Builds /\ repeated \in BOOLEAN
  BY DEF Init
<1> QED
  BY <1>1, <1>2, <1>3, <1>4 DEF Types

-----------------------------------------------------------------------------
(* No ASSERT fails.                                                         *)

LEMMA AppendPairs ==
    ASSUME NEW s \in Seq(Entries), NEW e \in Entries,
           NEW open \in BOOLEAN, NEW next \in BOOLEAN,
           Pairs(s, open), EndOfStage(e) <=> open, next <=> ~open
    PROVE  /\ Pairs(Append(s, e), next)
           /\ NextEnds(Append(s, e), next) <=> NextEnds(s, open)
<1> DEFINE t == Append(s, e)
<1>1. /\ Len(s) \in Nat /\ DOMAIN s = 1..Len(s)
      /\ Len(t) = Len(s) + 1 /\ DOMAIN t = 1..(Len(s) + 1)
      /\ t[Len(s) + 1] = e /\ \A i \in 1..Len(s) : t[i] = s[i]
      /\ t # <<>>
  OBVIOUS
<1>2. Head(t) = t[1]
  BY <1>1
<1>3. s # <<>> => Len(s) > 0 /\ Head(s) = s[1] /\ t[1] = s[1]
  BY <1>1
<1>4. s = <<>> => Len(s) = 0 /\ t[1] = e
  BY <1>1
<1> HIDE DEF t
<1>5. Pairs(t, next)
  <2>1. ASSUME NEW i \in DOMAIN t, i # 1
        PROVE  EndOfStage(t[i]) <=> ~EndOfStage(t[i - 1])
    <3>1. CASE i \in 1..Len(s)
      BY <1>1, <2>1, <3>1 DEF Pairs
    <3>2. CASE i = Len(s) + 1
      <4>1. s # <<>> /\ Len(s) \in 1..Len(s) /\ i - 1 = Len(s)
        BY <1>1, <1>4, <2>1, <3>2
      <4> QED
        BY <1>1, <3>2, <4>1 DEF Pairs
    <3> QED
      BY <1>1, <3>1, <3>2
  <2>2. EndOfStage(t[Len(t)]) <=> ~next
    BY <1>1
  <2> QED
    BY <2>1, <2>2 DEF Pairs
<1>6. NextEnds(t, next) <=> NextEnds(s, open)
  BY <1>1, <1>2, <1>3, <1>4 DEF NextEnds
<1> QED
  BY <1>5, <1>6 DEF t

LEMMA TailPairs ==
    ASSUME NEW s \in Seq(Entries), NEW open \in BOOLEAN,
           s # <<>>, Pairs(s, open)
    PROVE  /\ Pairs(Tail(s), open)
           /\ NextEnds(Tail(s), open) <=> ~NextEnds(s, open)
<1> DEFINE t == Tail(s)
<1>1. /\ Len(s) \in Nat \ {0} /\ DOMAIN s = 1..Len(s)
      /\ Len(t) = Len(s) - 1 /\ DOMAIN t = 1..(Len(s) - 1)
      /\ \A i \in 1..(Len(s) - 1) : t[i] = s[i + 1]
      /\ Head(s) = s[1]
  OBVIOUS
<1>2. t = <<>> <=> Len(s) = 1
  <2>1. t \in Seq(Entries)
    OBVIOUS
  <2>2. t = <<>> <=> Len(t) = 0
    BY <2>1, EmptySeq
  <2> QED
    BY <1>1, <2>2
<1>3. t # <<>> => Head(t) = t[1]
  OBVIOUS
<1> HIDE DEF t
<1>4. Pairs(t, open)
  <2>1. ASSUME NEW i \in DOMAIN t, i # 1
        PROVE  EndOfStage(t[i]) <=> ~EndOfStage(t[i - 1])
    <3>1. /\ i + 1 \in DOMAIN s /\ i + 1 # 1 /\ (i + 1) - 1 = i
          /\ t[i] = s[i + 1] /\ t[i - 1] = s[i]
      BY <1>1, <2>1
    <3> QED
      BY <3>1 DEF Pairs
  <2>2. t # <<>> => t[Len(t)] = s[Len(s)]
    BY <1>1, <1>2
  <2> QED
    BY <2>1, <2>2 DEF Pairs
<1>5. NextEnds(t, open) <=> ~NextEnds(s, open)
  <2>1. CASE Len(s) = 1
    BY <1>1, <1>2, <2>1 DEF NextEnds, Pairs
  <2>2. CASE Len(s) # 1
    <3>1. /\ 2 \in DOMAIN s /\ t[1] = s[2] /\ t # <<>>
      BY <1>1, <1>2, <2>2
    <3>2. EndOfStage(s[2]) <=> ~EndOfStage(s[1])
      BY <3>1 DEF Pairs
    <3> QED
      BY <1>1, <1>3, <3>1, <3>2 DEF NextEnds
  <2> QED
    BY <2>1, <2>2
<1> QED
  BY <1>4, <1>5 DEF t

LEMMA ResetStep ==
    ASSUME ResetInv, [Next]_vars
    PROVE  ResetInv'
<1>1. ASSUME UNCHANGED <<bus, rxf, setup_open, hphase>>, gint' \subseteq gint
      PROVE  ResetInv'
  BY <1>1 DEF ResetInv, Resetting, up, bus
<1>2. ASSUME UNCHANGED <<bus, gint>>, ~Resetting
      PROVE  ResetInv'
  BY <1>2 DEF ResetInv, Resetting, up, bus
<1>3. ASSUME NEW r \in Requests, HostSetup(r)
      PROVE  ResetInv'
  BY <1>2, <1>3 DEF HostSetup, SetupArrives, Resetting
<1>4. CASE HostResendsSetup
  BY <1>2, <1>4 DEF HostResendsSetup, SetupArrives, ResetInv
<1>5. CASE HostToken
  BY <1>2, <1>5 DEF HostToken, ResetInv
<1>6. CASE HostIn
  <2>1. hphase # "idle"
    BY <1>6 DEF HostIn, HostTakesPacket, HostExpectsIn
  <2> QED
    BY <1>2, <1>6, <2>1 DEF HostIn, ResetInv
<1>7. CASE HostOut
  <2>1. hphase # "idle"
    BY <1>7 DEF HostOut, HostSendsOut
  <2> QED
    BY <1>2, <1>7, <2>1 DEF HostOut, ResetInv
<1>8. CASE HostStalled
  <2>1. hphase # "idle"
    BY <1>8 DEF HostStalled, HostTakesStall
  <2> QED
    BY <1>2, <1>8, <2>1 DEF HostStalled, ResetInv
<1>9. CASE HostPollsKeyboard
  BY <1>1, <1>9 DEF HostPollsKeyboard, host, xfer
<1>10. CASE BusReset
  BY <1>10 DEF BusReset, HostSeesReset, ResetInv
<1>11. CASE EnumerationDone
  BY <1>11
  DEF EnumerationDone, ResetInv, Resetting, up, host, xfer
<1>12. CASE dwc_otg_process
  <2>1. /\ UNCHANGED <<bus, rxf, setup_open, hphase>>
        /\ "rst" \in gint' => usbrst
        /\ "enum" \in gint' => enumdne
    BY <1>12 DEF dwc_otg_process, host, xfer
  <2> QED
    BY <2>1 DEF ResetInv, Resetting, up, bus
<1>13. CASE handle_oepint
  BY <1>1, <1>13 DEF handle_oepint, Section, Reached, xfer
<1>14. CASE handle_iepint
  BY <1>1, <1>14 DEF handle_iepint, Section, Reached, host, xfer
<1>15. CASE enumeration_done
  <2>1. /\ UNCHANGED <<usbrst, line, rxf, setup_open, hphase>>
        /\ gint' = gint \ {"enum"} /\ enumdne' = FALSE
        /\ "enum" \in gint
    BY <1>15 DEF enumeration_done, Section, Reached, host, xfer
  <2> QED
    BY <2>1 DEF ResetInv, Resetting, up
<1>16. CASE handle_reset
  <2>1. /\ UNCHANGED <<enumdne, line, rxf, setup_open, hphase>>
        /\ gint' = gint \ {"rst"} /\ usbrst' = FALSE
        /\ "rst" \in gint /\ "enum" \notin gint
    BY <1>16 DEF handle_reset, Section, Reached, Earlier, host, xfer
  <2> QED
    BY <2>1 DEF ResetInv, Resetting, up
<1>17. CASE handle_rx_transfer
  <2>1. /\ UNCHANGED <<bus, setup_open, hphase>> /\ gint' \subseteq gint
        /\ rxf = <<>> => rxf' = rxf
    BY <1>17 DEF handle_rx_transfer, Section, Reached, host, xfer
  <2> QED
    BY <2>1 DEF ResetInv, Resetting, up, bus
<1>18. CASE illegal
  BY <1>1, <1>18 DEF illegal, Section, Reached, host, xfer
<1>19. CASE keyboard_process
  BY <1>1, <1>19 DEF keyboard_process, host, xfer
<1>20. CASE UNCHANGED vars
  BY <1>1, <1>20 DEF vars, host, xfer
<1> QED
  BY NextCases, <1>3, <1>4, <1>5, <1>6, <1>7, <1>8, <1>9, <1>10, <1>11,
     <1>12, <1>13, <1>14, <1>15, <1>16, <1>17, <1>18, <1>19, <1>20

(* The ring is never read empty, nor written when full or closed.           *)
LEMMA NoFailure ==
    ASSUME SafeInv
    PROVE  ~AssertFails
<1>1. ResetInv /\ RingInv /\ rx_count \in {0, 1}
  BY DEF SafeInv, CountInv
<1>2. ~(Reached("oep") /\ ~rx_active)
  BY <1>1 DEF RingInv, Reached
<1>3. ASSUME Reached("rxf"), rxf # <<>>, Head(rxf).sts \in {"setup", "data"},
             ~HasRoom
      PROVE  FALSE
  <2>1. oint = "none" /\ ~Resetting
    BY <1>1, <1>3 DEF RingInv, ResetInv, Reached, Earlier
  <2>2. rx_active /\ rx_count # 1
    BY <1>1, <1>3, <2>1 DEF RingInv, Waiting, NextEnds, EndOfStage
  <2> QED
    BY <1>1, <1>3, <2>2 DEF HasRoom, RX_NR
<1> QED
  BY <1>2, <1>3 DEF AssertFails

LEMMA SafeStep ==
    ASSUME ~HostResendsSetup, Types, DeafInv, SafeInv, [Next]_vars
    PROVE  SafeInv'
<1> DEFINE Fifo == Pairs(rxf, setup_open)
           Room == rx_count \in {0, 1}
<1>t. /\ rxf \in Seq(Entries) /\ hreq \in Requests /\ setup_open \in BOOLEAN
      /\ (pc = "poll" => gint = {}) /\ Fifo /\ Room /\ pc # "illegal"
      /\ gint \subseteq Sections
  BY DEF Types, DriverTypeOK, DeafInv, HostInv, HostTypeOK, SafeInv, CountInv
<1>r. ResetInv' /\ ResetInv /\ RingInv
  BY ResetStep DEF SafeInv
<1>q. ASSUME Fifo', RingInv', Room', pc' # "illegal"
      PROVE  SafeInv'
  BY <1>q, <1>r DEF SafeInv, CountInv
<1>s. ASSUME UNCHANGED <<rxf, setup_open, oint, line, enumdne, rx_active, rx_count>>,
             \/ gint' = gint
             \/ \E s \in Sections \ {"enum", "oep"} :
                   s \in gint /\ gint \cap Earlier[s] = {} /\ gint' = gint \ {s},
             pc' # "illegal"
      PROVE  SafeInv'
  <2>1. Resetting' <=> Resetting
    BY <1>s DEF Resetting, up, Sections
  <2>2. "oep" \in gint' <=> "oep" \in gint
    BY <1>s
  <2>3. gint' # gint => "oep" \notin gint /\ gint # {}
    BY <1>s DEF Earlier, Sections
  <2>4. RingInv'
    BY <1>r, <1>s, <2>1, <2>2, <2>3 DEF RingInv, Waiting
  <2> QED
    BY <1>q, <1>s, <1>t, <2>4
<1>a. ASSUME UNCHANGED <<oint, bus, rx_active, rx_count, pc, gint>>, ~Resetting,
             Pairs(rxf', setup_open'),
             NextEnds(rxf', setup_open') <=> NextEnds(rxf, setup_open)
      PROVE  SafeInv'
  <2>1. RingInv'
    BY <1>r, <1>a DEF RingInv, Waiting, Resetting, up, bus
  <2> QED
    BY <1>q, <1>a, <1>t, <2>1
<1> HIDE DEF Fifo, Room
<1>1. ASSUME NEW r \in Requests, HostSetup(r)
      PROVE  SafeInv'
  <2>1. /\ Entry("setup", r, 8) \in Entries
        /\ ~EndOfStage(Entry("setup", r, 8))
    BY EntryType DEF EndOfStage
  <2>2. /\ rxf' = Append(rxf, Entry("setup", r, 8))
        /\ setup_open = FALSE /\ setup_open' = TRUE /\ ~Resetting
    BY <1>1, <1>t DEF HostSetup, SetupArrives, Resetting
  <2>3. /\ Pairs(rxf', setup_open')
        /\ NextEnds(rxf', setup_open') <=> NextEnds(rxf, setup_open)
    BY <1>t, <2>1, <2>2, AppendPairs DEF Fifo
  <2> QED
    BY <1>1, <1>a, <2>2, <2>3 DEF HostSetup, SetupArrives
<1>3. CASE HostToken
  <2>1. /\ Entry("setup_comp", hreq, 0) \in Entries
        /\ EndOfStage(Entry("setup_comp", hreq, 0))
    BY <1>t, EntryType DEF EndOfStage
  <2>2. /\ rxf' = Append(rxf, Entry("setup_comp", hreq, 0))
        /\ setup_open = TRUE /\ setup_open' = FALSE /\ ~Resetting
    BY <1>3, <1>r, <1>t DEF HostToken, ResetInv
  <2>3. /\ Pairs(rxf', setup_open')
        /\ NextEnds(rxf', setup_open') <=> NextEnds(rxf, setup_open)
    BY <1>t, <2>1, <2>2, AppendPairs DEF Fifo
  <2> QED
    BY <1>3, <1>a, <2>2, <2>3 DEF HostToken
<1>4. CASE HostIn
  BY <1>4, <1>s, <1>t DEF HostIn, bus, rx0
<1>5. CASE HostOut
  <2>1. HostOutLen \in Nat /\ hphase # "idle"
    BY <1>5, HostSendsOutInv DEF HostOut, Types, HostSendsOut
  <2> DEFINE d == Entry("data", hreq, HostOutLen)
             c == Entry("data_comp", hreq, 0)
  <2>2. d \in Entries /\ c \in Entries /\ ~EndOfStage(d) /\ EndOfStage(c)
    BY <1>t, <2>1, EntryType DEF EndOfStage
  <2>3. /\ rxf' = rxf \o <<d, c>>
        /\ setup_open = FALSE /\ setup_open' = FALSE /\ ~Resetting
    BY <1>5, <1>r, <1>t, <2>1 DEF HostOut, ResetInv
  <2> HIDE DEF d, c
  <2>4. /\ rxf' = Append(Append(rxf, d), c)
        /\ Append(rxf, d) \in Seq(Entries)
    BY <1>t, <2>2, <2>3
  <2>5. /\ Pairs(Append(rxf, d), TRUE)
        /\ NextEnds(Append(rxf, d), TRUE) <=> NextEnds(rxf, setup_open)
    BY <1>t, <2>2, <2>3, AppendPairs DEF Fifo
  <2>6. /\ Pairs(rxf', FALSE)
        /\ NextEnds(rxf', FALSE) <=> NextEnds(rxf, setup_open)
    BY <2>2, <2>4, <2>5, AppendPairs
  <2> QED
    BY <1>5, <1>a, <2>3, <2>6 DEF HostOut
<1>6. CASE HostStalled
  BY <1>6, <1>s, <1>t DEF HostStalled, bus, rx0
<1>7. CASE HostPollsKeyboard
  BY <1>7, <1>s, <1>t DEF HostPollsKeyboard, bus, rx0
<1>8. CASE BusReset
  <2>1. rxf' = <<>> /\ Resetting'
    BY <1>8 DEF BusReset, Resetting, up
  <2>2. Fifo'
    BY <2>1 DEF Fifo, Pairs
  <2>3. RingInv'
    BY <1>8, <1>r, <2>1 DEF BusReset, RingInv
  <2> QED
    BY <1>8, <1>q, <1>t, <2>2, <2>3 DEF BusReset, Room
<1>9. CASE EnumerationDone
  <2>1. Resetting'
    BY <1>9 DEF EnumerationDone, Resetting
  <2>2. RingInv'
    BY <1>9, <1>r, <2>1 DEF EnumerationDone, RingInv, rx0
  <2> QED
    BY <1>9, <1>q, <1>t, <2>2 DEF EnumerationDone, rx0, Fifo, Room
<1>10. CASE dwc_otg_process
  <2>1. /\ UNCHANGED <<rxf, setup_open, oint, bus, rx0>>
        /\ gint = {} /\ pc' = "process"
        /\ "oep" \in gint' <=> oint # "none"
        /\ "enum" \in gint' => enumdne
    BY <1>10, <1>t DEF dwc_otg_process, Sections
  <2>2. Resetting' <=> Resetting
    BY <2>1 DEF Resetting, up, bus
  <2>3. RingInv'
    BY <1>r, <2>1, <2>2 DEF RingInv, Waiting, rx0
  <2> QED
    BY <1>q, <1>t, <2>1, <2>3 DEF rx0, Fifo, Room
<1>11. CASE handle_oepint
  <2>1. /\ oint # "none" /\ oint' = "none" /\ rx_count = 1 /\ rx_active
        /\ UNCHANGED <<rxf, setup_open, bus, pc>>
        /\ gint' = gint \ {"oep"}
    BY <1>11, <1>r DEF handle_oepint, Section, Reached, RingInv
  <2>2. rx_count' = 0 /\ rx_active'
    <3>1. rx_count' = 0 /\ room(rx_count') > RX_NR \div 2
      BY <1>11, <2>1 DEF handle_oepint, dwc_otg_read, room, RX_NR
    <3> QED
      BY <1>11, <3>1 DEF handle_oepint, dwc_otg_read
  <2>3. Resetting' <=> Resetting
    BY <2>1 DEF Resetting, up, bus
  <2>4. RingInv'
    BY <1>r, <2>1, <2>2, <2>3 DEF RingInv, Waiting
  <2> QED
    BY <1>q, <1>t, <2>1, <2>2, <2>4 DEF Fifo, Room
<1>12. CASE handle_iepint
  BY <1>12, <1>s, <1>t DEF handle_iepint, Section, Reached, Sections, bus, rx0
<1>13. CASE enumeration_done
  <2>1. /\ "oep" \notin gint /\ gint # {} /\ gint' = gint \ {"enum"}
        /\ "enum" \in gint
        /\ UNCHANGED <<rxf, setup_open, oint, pc>>
        /\ rx_count' = 0 /\ rx_active' = TRUE
    BY <1>13 DEF enumeration_done, configure_ep0, Section, Reached, Earlier
  <2>2. oint = "none"
    BY <1>r, <2>1 DEF RingInv
  <2>3. ~NextEnds(rxf, setup_open)
    BY <1>r, <2>1 DEF ResetInv, Resetting, NextEnds
  <2>4. RingInv'
    BY <2>1, <2>2, <2>3 DEF RingInv, Waiting
  <2> QED
    BY <1>q, <1>t, <2>1, <2>4 DEF Fifo, Room
<1>14. CASE handle_reset
  <2>1. /\ "oep" \notin gint /\ gint # {} /\ gint' = gint \ {"rst"}
        /\ "rst" \in gint
        /\ UNCHANGED <<rxf, setup_open, oint, pc, line>>
        /\ rx_count' = 0
    BY <1>14 DEF handle_reset, Section, Reached, Earlier
  <2>2. oint = "none"
    BY <1>r, <2>1 DEF RingInv
  <2>3. Resetting'
    BY <1>r, <2>1 DEF ResetInv, Resetting, up
  <2>4. RingInv'
    BY <2>1, <2>2, <2>3 DEF RingInv, Waiting
  <2> QED
    BY <1>q, <1>t, <2>1, <2>4 DEF Fifo, Room
<1>15. CASE handle_rx_transfer
  <2>1. /\ gint = {"rxf"} /\ gint' = {}
        /\ UNCHANGED <<setup_open, bus, rx_active, pc>>
    BY <1>15, <1>t DEF handle_rx_transfer, Section, Reached, Earlier, Sections
  <2>2. oint = "none" /\ (Resetting' <=> Resetting)
    BY <1>r, <2>1 DEF RingInv, Resetting, up, bus
  <2>3. CASE rxf = <<>>
    <3>1. UNCHANGED <<rxf, oint, rx_count>>
      BY <1>15, <2>3 DEF handle_rx_transfer
    <3>2. RingInv'
      BY <1>r, <2>1, <2>2, <3>1 DEF RingInv, Waiting
    <3> QED
      BY <1>q, <1>t, <2>1, <3>1, <3>2 DEF Fifo, Room
  <2>4. CASE rxf # <<>>
    <3>1. ~Resetting /\ rx_active /\ rxf' = Tail(rxf)
      BY <1>15, <1>r, <2>4 DEF handle_rx_transfer, ResetInv, RingInv
    <3>2. /\ Pairs(rxf', setup_open')
          /\ NextEnds(rxf', setup_open') <=> ~NextEnds(rxf, setup_open)
      BY <1>t, <2>1, <2>4, <3>1, TailPairs DEF Fifo
    <3>3. (rx_count = 1) <=> EndOfStage(Head(rxf))
      BY <1>r, <2>2, <2>4, <3>1 DEF RingInv, Waiting, NextEnds
    <3>4. CASE EndOfStage(Head(rxf))
      <4>1. oint' # "none" /\ rx_count' = 1
        BY <1>15, <2>4, <3>3, <3>4 DEF handle_rx_transfer, EndOfStage
      <4>2. RingInv'
        BY <2>1, <3>1, <3>2, <3>4, <4>1, <2>4 DEF RingInv, Waiting, NextEnds
      <4> QED
        BY <1>q, <1>t, <2>1, <3>2, <4>1, <4>2 DEF Fifo, Room
    <3>5. CASE ~EndOfStage(Head(rxf))
      <4>1. oint' = "none" /\ rx_count' = 1
        BY <1>15, <1>t, <2>2, <2>4, <3>3, <3>5
        DEF handle_rx_transfer, EndOfStage, Room
      <4>2. RingInv'
        BY <2>1, <3>1, <3>2, <3>5, <4>1, <2>4 DEF RingInv, Waiting, NextEnds
      <4> QED
        BY <1>q, <1>t, <2>1, <3>2, <4>1, <4>2 DEF Fifo, Room
    <3> QED
      BY <3>4, <3>5
  <2> QED
    BY <2>3, <2>4
<1>16. CASE illegal
  BY <1>16, NoFailure DEF illegal
<1>17. CASE keyboard_process
  BY <1>17, <1>s, <1>t DEF keyboard_process, bus, rx0
<1>18. CASE UNCHANGED vars
  BY <1>18, <1>s, <1>t DEF vars, bus, rx0
<1> QED
  BY NextCases, <1>1, <1>3, <1>4, <1>5, <1>6, <1>7, <1>8, <1>9, <1>10,
     <1>11, <1>12, <1>13, <1>14, <1>15, <1>16, <1>17, <1>18

-----------------------------------------------------------------------------
(* A repeated SETUP, and what ends its effects.                             *)

LEMMA ServingStep ==
    ASSUME Types, Serving, [Next]_vars
    PROVE  Serving'
<1>1. ASSUME UNCHANGED oint, gint' = gint PROVE Serving'
  BY <1>1 DEF Serving
<1>2. ASSUME NEW s \in Sections, Section(s), s # "oep", UNCHANGED oint
      PROVE  Serving'
  <2>1. "oep" \notin gint /\ gint # {}
    BY <1>2 DEF Section, Reached, Earlier, Sections
  <2> QED
    BY <1>2, <2>1 DEF Serving
<1>3. CASE \/ \E r \in Requests : HostSetup(r)
           \/ HostResendsSetup \/ HostToken \/ HostIn \/ HostOut
           \/ HostStalled \/ HostPollsKeyboard \/ BusReset \/ EnumerationDone
           \/ illegal \/ keyboard_process \/ UNCHANGED vars
  BY <1>1, <1>3
  DEF HostSetup, HostResendsSetup, SetupArrives, HostToken, HostIn, HostOut,
      HostStalled, HostPollsKeyboard, BusReset, EnumerationDone, illegal,
      keyboard_process, vars
<1>4. CASE dwc_otg_process
  <2>1. UNCHANGED oint /\ (oint # "none" => "oep" \in gint')
    BY <1>4 DEF dwc_otg_process, Sections
  <2> QED
    BY <2>1 DEF Serving
<1>5. CASE handle_oepint
  BY <1>5 DEF handle_oepint, Serving
<1>6. CASE handle_iepint
  BY <1>2, <1>6 DEF handle_iepint, Sections
<1>7. CASE enumeration_done
  BY <1>2, <1>7 DEF enumeration_done, Sections
<1>8. CASE handle_reset
  BY <1>2, <1>8 DEF handle_reset, Sections
<1>9. CASE handle_rx_transfer
  <2>1. gint \subseteq Sections
    BY DEF Types, DriverTypeOK
  <2>2. gint' = {}
    BY <1>9, <2>1 DEF handle_rx_transfer, Section, Reached, Earlier, Sections
  <2> QED
    BY <2>2 DEF Serving
<1> QED
  BY NextCases, <1>3, <1>4, <1>5, <1>6, <1>7, <1>8, <1>9

\* The configuration of endpoint 0 starts afresh.
LEMMA ConfiguredAfresh ==
    ASSUME ResetInv, Serving, enumeration_done, [Next]_vars
    PROVE  DeafInv' /\ SafeInv'
<1>1. /\ "oep" \notin gint /\ gint # {} /\ gint' = gint \ {"enum"}
      /\ "enum" \in gint /\ pc = "process"
      /\ UNCHANGED <<rxf, setup_open, oint, pc>>
      /\ rx_count' = 0 /\ rx_active' = TRUE /\ armed' = TRUE
  BY DEF enumeration_done, configure_ep0, Section, Reached, Earlier
<1>2. oint = "none"
  BY <1>1 DEF Serving
<1>3. rxf' = <<>> /\ setup_open' = FALSE
  BY <1>1 DEF ResetInv, Resetting
<1>4. Pairs(rxf', setup_open') /\ ~NextEnds(rxf', setup_open')
  BY <1>3 DEF Pairs, NextEnds
<1>5. RingInv'
  BY <1>1, <1>2, <1>4 DEF RingInv, Waiting
<1>6. CountInv'
  BY <1>1 DEF CountInv
<1>7. DeafInv'
  BY <1>1 DEF DeafInv
<1> QED
  BY <1>4, <1>5, <1>6, <1>7, ResetStep DEF SafeInv

LEMMA DwcStep ==
    ASSUME Types, DwcInv, [Next]_vars
    PROVE  DwcInv'
<1>1. ResetInv' /\ Serving'
  BY ResetStep, ServingStep DEF DwcInv
<1>2. ASSUME ~repeated'
      PROVE  DeafInv' /\ SafeInv'
  <2>1. CASE enumeration_done
    BY <2>1, ConfiguredAfresh DEF DwcInv
  <2>2. CASE ~enumeration_done
    <3>1. ~HostResendsSetup
      BY <1>2 DEF HostResendsSetup
    <3>2. repeated' = repeated
      BY NextCases, <2>2, <3>1
      DEF HostSetup, HostToken, HostIn, HostOut, HostStalled,
          HostPollsKeyboard, BusReset, EnumerationDone, dwc_otg_process,
          handle_oepint, handle_iepint, handle_reset, handle_rx_transfer,
          illegal, keyboard_process, vars, ghost
    <3>3. DeafInv /\ SafeInv
      BY <1>2, <3>2 DEF DwcInv
    <3> QED
      BY <3>1, <3>3, DeafStep, SafeStep
  <2> QED
    BY <2>1, <2>2
<1> QED
  BY <1>1, <1>2 DEF DwcInv

LEMMA SafeInit == Init => SafeInv
BY DEF Init, HostInit, SafeInv, ResetInv, Pairs, NextEnds, RingInv, Waiting,
       CountInv, Resetting, up

LEMMA Safe == Spec => [](Types /\ DwcInv)
<1>1. Init => Types /\ DwcInv
  <2>1. Init => ResetInv /\ Serving
    BY SafeInit DEF SafeInv, Init, Serving
  <2> QED
    BY <2>1, InitTypes, DeafInit, SafeInit DEF DwcInv
<1>2. Types /\ DwcInv /\ [Next]_vars => (Types /\ DwcInv)'
  BY TypeStep, DwcStep
<1> QED
  BY <1>1, <1>2, PTL DEF Spec

(* Every variable keeps its type, and the ring is not over-full unless a    *)
(* SETUP was repeated: TypeOK of DwcTransfers (hw_dwc_otg.c:118-149,        *)
(* 318-395).                                                                *)
THEOREM DwcTypes == Spec => []TypeOK
<1>1. Types /\ DwcInv => TypeOK
  BY DEF Types, DwcInv, SafeInv, CountInv, TypeOK, HostInv, RX_NR
<1> QED
  BY <1>1, Safe, PTL

(* No ASSERT of the driver fails, in either build, unless a SETUP was       *)
(* repeated since endpoint 0 was configured: AssertsHold of DwcTransfers    *)
(* (hw_dwc_otg.c:362-388).                                                  *)
THEOREM NoAssertFails == Spec => []AssertsHold
<1>1. DwcInv => AssertsHold
  BY NoFailure DEF DwcInv, AssertsHold
<1> QED
  BY <1>1, Safe, PTL

(* Endpoint 0 is not deaf, in either build, whatever transfers are          *)
(* abandoned and acknowledgements lost, unless a SETUP was repeated since   *)
(* it was configured; the configuration after the next bus reset cures it:  *)
(* RxOpen of DwcAbort (hw_dwc_otg.c:72-95, 318-395).                        *)
THEOREM NeverDeafDwc == Spec => []RxOpen
<1>1. DwcInv => RxOpen
  BY DEF DwcInv, DeafInv, SafeInv, CountInv, RxOpen
<1> QED
  BY <1>1, Safe, PTL
-----------------------------------------------------------------------------
(* The driver implements the abstract control pipe, if the host does not    *)
(* abandon transfers or repeat a SETUP, with or without lost                *)
(* acknowledgements.                                                        *)
(*                                                                          *)
(* The inductive invariant says where the device is in the host's transfer. *)
(* What the host has sent is on its way through the FIFO, the ring and the  *)
(* interrupt of endpoint 0: at most two packets, each with the end of its   *)
(* stage behind it.                                                         *)

\* How much of that has left the FIFO, and how much there is.
Popped == IF oint # "none" THEN 2 ELSE rx_count
Total == Popped + Len(rxf)

\* The packets and their ends, wherever they are.
First == IF Popped = 0 THEN rxf[1] ELSE rx_slot
FirstEnd ==
    IF Popped < 2 THEN rxf[2 - Popped].sts
    ELSE IF oint = "stup" THEN "setup_comp" ELSE "data_comp"
Second == rxf[3 - Popped]
SecondEnd == rxf[4 - Popped].sts

Packet(e) == e.sts \in {"setup", "data"}
EndOf(e) == IF e.sts = "setup" THEN "setup_comp" ELSE "data_comp"

WireInv ==
    /\ Total \in 0..4
    /\ Total >= 1 => Packet(First)
    /\ Total >= 2 => FirstEnd = EndOf(First)
    /\ Total >= 3 => Packet(Second)
    /\ Total = 4 => SecondEnd = EndOf(Second)
    /\ setup_open <=> Total \in {1, 3}
    /\ armed => Total <= 2

(* From the poll that handles a bus reset to the configuration of endpoint  *)
(* 0, nothing of the last transfer is left.                                 *)
Clear == oint = "none" /\ ~xfrc_in /\ todo = -1 /\ dad = 0

ClearInv ==
    /\ "enum" \in gint \/ (Resetting /\ ~usbrst /\ line # "off") => Clear
    /\ "rst" \in gint /\ "iep" \notin gint => ~xfrc_in

(* Endpoint 0's transmit buffer holds one packet at a time.                 *)
BufferInv ==
    /\ xfrc_in => ~tx_ready
    /\ tx_ready \/ xfrc_in => stat_tx # "VALID"

(* What the device is about to act on is the host's request, even after a   *)
(* bus reset that it has not noticed.                                       *)
ActInv ==
    /\ oint = "stup" => rx_slot.req = hreq /\ acted = "no"
    /\ oint = "xfrc" /\ ~req.in /\ data_len >= 0 => req = hreq /\ acted = "no"

\* The empty packet that ended the last transfer has yet to be handled.
Leftover == First.sts = "data" /\ req.in /\ data_len >= 0

(* The device's side of a transfer, as far as the host's progress in it     *)
(* determines it.  Asking: the SETUP is not handled yet, although data may  *)
(* already be behind it.  Receiving: data from the host.                    *)
Resting ==
    /\ hphase = "idle"
    /\ \/ Total = 0
       \/ Total = 2 /\ Leftover
    /\ todo = -1

Asking ==
    /\ \/ /\ Total \in {3, 4} /\ Leftover
          /\ Second.sts = "setup" /\ Second.req = hreq
          /\ hn = 0
       \/ /\ Total # 0 /\ First.sts = "setup" /\ First.req = hreq
          /\ \/ Total \in {1, 2} /\ hn = 0
             \/ /\ Total = 4 /\ ~hreq.in
                /\ Second.sts = "data" /\ Second.len = hn /\ hn > 0
    /\ hn <= hreq.wLength /\ acted = "no"
    /\ hphase = IF hn = hreq.wLength THEN "status" ELSE "data"
    /\ todo = -1 /\ stat_tx = "NAK" /\ ~stall /\ ~dup

Receiving ==
    /\ req = hreq /\ acted = "no"
    /\ ~hreq.in /\ hreq.wLength > 0
    /\ hn <= hreq.wLength
    /\ hphase = IF hn = hreq.wLength THEN "status" ELSE "data"
    /\ data_len >= 0
    /\ \/ Total = 0 /\ hphase = "data" /\ data_len = hn
       \/ Total = 2 /\ First.sts = "data" /\ data_len + First.len = hn
       \/ /\ Total = 4 /\ First.sts = "data" /\ Second.sts = "data"
          /\ data_len + First.len + Second.len = hn /\ Second.len > 0
    /\ todo = -1 /\ stat_tx \notin {"VALID", "STALL"} /\ ~stall /\ ~dup

Refusing == Total = 0 /\ stall /\ Refuses

Replying == Total = 0 /\ ~stall /\ SendsReply

Acking == Total = 0 /\ ~stall /\ SendsStatus

Phase == Resting \/ Asking \/ Receiving \/ Refusing \/ Replying \/ Acking

PipeInv ==
    /\ ClearInv /\ BufferInv /\ ActInv
    /\ ~Resetting => WireInv /\ Phase
    /\ hgood = TRUE

Known == Types /\ DeafInv /\ SafeInv /\ PipeInv
-----------------------------------------------------------------------------
(* What the host has sent, on its way.                                      *)

LEMMA WireFacts ==
    ASSUME Known
    PROVE  /\ rxf \in Seq(Entries) /\ Len(rxf) \in Nat
           /\ DOMAIN rxf = 1..Len(rxf)
           /\ rx_slot \in Entries
           /\ rx_count \in {0, 1} /\ oint \in {"none", "xfrc", "stup"}
           /\ setup_open \in BOOLEAN /\ armed \in BOOLEAN /\ stall \in BOOLEAN
           /\ oint # "none" => rx_count = 1 /\ rx_active
           /\ Popped \in {0, 1, 2} /\ Total = Popped + Len(rxf)
<1>1. /\ rxf \in Seq(Entries) /\ setup_open \in BOOLEAN /\ armed \in BOOLEAN
      /\ oint \in {"none", "xfrc", "stup"} /\ rx_slot \in Entries
      /\ stall \in BOOLEAN
  BY DEF Known, Types, DriverTypeOK
<1>2. rx_count \in {0, 1} /\ (oint # "none" => rx_count = 1 /\ rx_active)
  BY DEF Known, SafeInv, CountInv, RingInv
<1>3. Len(rxf) \in Nat /\ DOMAIN rxf = 1..Len(rxf)
  BY <1>1
<1> QED
  BY <1>1, <1>2, <1>3 DEF Popped, Total

LEMMA WireStays ==
    ASSUME UNCHANGED <<rxf, rx_slot, rx_count, oint>>
    PROVE  /\ UNCHANGED <<Total, First, FirstEnd, Second, SecondEnd>>
           /\ WireInv /\ UNCHANGED <<setup_open, armed>> => WireInv'
<1>1. UNCHANGED <<Popped, Total, First, FirstEnd, Second, SecondEnd>>
  BY DEF Popped, Total, First, FirstEnd, Second, SecondEnd
<1>2. ASSUME WireInv, UNCHANGED <<setup_open, armed>> PROVE WireInv'
  BY <1>1, <1>2 DEF WireInv, Packet, EndOf
<1> QED
  BY <1>1, <1>2

\* What is put into the FIFO comes behind what is in it.
LEMMA WireGrows ==
    ASSUME Known, UNCHANGED <<rx_slot, rx_count, oint>>,
           rxf' \in Seq(Entries), Len(rxf') >= Len(rxf),
           \A i \in 1..Len(rxf) : rxf'[i] = rxf[i]
    PROVE  /\ Total' = Total + (Len(rxf') - Len(rxf))
           /\ Total >= 1 => First' = First
           /\ Total >= 2 => FirstEnd' = FirstEnd
           /\ Total >= 3 => Second' = Second
           /\ Total >= 4 => SecondEnd' = SecondEnd
           /\ Total = 0 => /\ First' = rxf'[Len(rxf) + 1]
                           /\ FirstEnd' = rxf'[Len(rxf) + 2].sts
           /\ Total = 1 => FirstEnd' = rxf'[Len(rxf) + 1].sts
           /\ Total = 2 => /\ Second' = rxf'[Len(rxf) + 1]
                           /\ SecondEnd' = rxf'[Len(rxf) + 2].sts
           /\ Total = 3 => SecondEnd' = rxf'[Len(rxf) + 1].sts
<1> DEFINE n == Len(rxf)
           m == Len(rxf')
<1>1. /\ n \in Nat /\ m \in Nat /\ m >= n
      /\ Popped \in {0, 1, 2} /\ Popped' = Popped
      /\ Total = Popped + n /\ Total' = Popped + m
      /\ oint' = oint /\ rx_slot' = rx_slot
  BY WireFacts DEF Popped, Total
<1>2. \A i \in 1..n : rxf'[i] = rxf[i]
  OBVIOUS
<1> HIDE DEF n, m
<1>3. Total >= 1 => First' = First
  BY <1>1, <1>2 DEF First
<1>4. Total >= 2 => FirstEnd' = FirstEnd
  BY <1>1, <1>2 DEF FirstEnd
<1>5. Total >= 3 => Second' = Second
  BY <1>1, <1>2 DEF Second
<1>6. Total >= 4 => SecondEnd' = SecondEnd
  BY <1>1, <1>2 DEF SecondEnd
<1>7. Total = 0 => First' = rxf'[n + 1] /\ FirstEnd' = rxf'[n + 2].sts
  BY <1>1 DEF First, FirstEnd
<1>8. Total = 1 => FirstEnd' = rxf'[n + 1].sts
  BY <1>1 DEF FirstEnd
<1>9. Total = 2 => Second' = rxf'[n + 1] /\ SecondEnd' = rxf'[n + 2].sts
  BY <1>1 DEF Second, SecondEnd
<1>10. Total = 3 => SecondEnd' = rxf'[n + 1].sts
  BY <1>1 DEF SecondEnd
<1> QED
  BY <1>1, <1>3, <1>4, <1>5, <1>6, <1>7, <1>8, <1>9, <1>10 DEF n, m

\* An entry leaves the FIFO for the ring or the interrupt, and keeps its place.
LEMMA WirePops ==
    ASSUME Known, ~Resetting, handle_rx_transfer
    PROVE  /\ Total' = Total
           /\ Total >= 1 => First' = First
           /\ Total >= 3 => Second' = Second
           /\ WireInv'
<1>1. /\ oint = "none" /\ rx_active /\ (rx_count = 1 <=> NextEnds(rxf, setup_open))
      /\ WireInv
  <2>1. gint = {"rxf"}
    BY DEF handle_rx_transfer, Section, Reached, Earlier, Sections, Known, Types,
           DriverTypeOK
  <2> QED
    BY <2>1 DEF Known, SafeInv, RingInv, Waiting, PipeInv
<1>2. CASE rxf = <<>>
  <2>1. UNCHANGED <<rxf, rx_slot, rx_count, oint, setup_open, armed>>
    BY <1>2 DEF handle_rx_transfer
  <2> QED
    BY <1>1, <2>1, WireStays
<1>3. CASE rxf # <<>>
  <2> DEFINE n == Len(rxf)
  <2>1. /\ rxf' = Tail(rxf) /\ Len(rxf') = n - 1 /\ n \in Nat \ {0}
        /\ \A i \in 1..(n - 1) : rxf'[i] = rxf[i + 1]
        /\ Head(rxf) = rxf[1] /\ rxf[1] \in Entries
    <3>1. rxf' = Tail(rxf)
      BY <1>3 DEF handle_rx_transfer
    <3>2. rxf \in Seq(Entries)
      BY WireFacts
    <3>3. /\ Len(Tail(rxf)) = n - 1 /\ n \in Nat \ {0}
          /\ \A i \in 1..(n - 1) : Tail(rxf)[i] = rxf[i + 1]
          /\ Head(rxf) = rxf[1]
      BY <1>3, <3>2
    <3>4. rxf[1] \in Entries
      BY <3>2, <3>3
    <3> QED
      BY <3>1, <3>3, <3>4
  <2>2. \/ /\ rxf[1].sts \in {"setup", "data"} /\ rx_count = 0
           /\ rx_slot' = rxf[1] /\ rx_count' = 1 /\ oint' = "none"
           /\ armed' = armed
        \/ /\ rxf[1].sts \in {"setup_comp", "data_comp"} /\ rx_count = 1
           /\ UNCHANGED <<rx_slot, rx_count>>
           /\ oint' = IF rxf[1].sts = "setup_comp" THEN "stup" ELSE "xfrc"
           /\ armed' => armed
    <3>1. rx_count = 1 <=> EndOfStage(rxf[1])
      BY <1>1, <1>3, <2>1 DEF NextEnds
    <3>2. rx_count \in {0, 1}
      BY WireFacts
    <3>3. \/ /\ rxf[1].sts \in {"setup", "data"}
             /\ rx_slot' = rxf[1] /\ rx_count' = rx_count + 1
             /\ UNCHANGED <<oint, armed>>
          \/ /\ rxf[1].sts = "setup_comp"
             /\ oint' = "stup" /\ armed' = FALSE
             /\ UNCHANGED <<rx_slot, rx_count>>
          \/ /\ rxf[1].sts = "data_comp" /\ oint' = "xfrc"
             /\ UNCHANGED <<rx_slot, rx_count, armed>>
      BY <1>3, <2>1 DEF handle_rx_transfer
    <3>4. CASE EndOfStage(rxf[1])
      BY <1>1, <3>1, <3>3, <3>4 DEF EndOfStage
    <3>5. CASE ~EndOfStage(rxf[1])
      BY <1>1, <3>1, <3>2, <3>3, <3>5 DEF EndOfStage
    <3> QED
      BY <3>4, <3>5
  <2> HIDE DEF n
  <2>f. /\ Total = Popped + n /\ Total' = Popped' + n - 1
        /\ Popped = rx_count /\ setup_open' = setup_open
        /\ armed \in BOOLEAN
    BY <1>1, <2>1, WireFacts DEF Popped, Total, n, handle_rx_transfer
  <2>3. CASE /\ rxf[1].sts \in {"setup", "data"} /\ rx_count = 0
             /\ rx_slot' = rxf[1] /\ rx_count' = 1 /\ oint' = "none"
             /\ armed' = armed
    <3>1. /\ Popped = 0 /\ Popped' = 1 /\ Total' = Total
      BY <2>f, <2>1, <2>3 DEF Popped
    <3>2. First' = First
      BY <2>3, <3>1 DEF First
    <3>3. Total >= 2 => FirstEnd' = FirstEnd
      BY <2>1, <2>f, <3>1 DEF FirstEnd
    <3>4. Total >= 3 => Second' = Second
      BY <2>1, <2>f, <3>1 DEF Second
    <3>5. Total >= 4 => SecondEnd' = SecondEnd
      BY <2>1, <2>f, <3>1 DEF SecondEnd
    <3> QED
      BY <1>1, <2>f, <2>3, <3>1, <3>2, <3>3, <3>4, <3>5
      DEF WireInv, Packet, EndOf
  <2>4. CASE /\ rxf[1].sts \in {"setup_comp", "data_comp"} /\ rx_count = 1
             /\ UNCHANGED <<rx_slot, rx_count>>
             /\ oint' = IF rxf[1].sts = "setup_comp" THEN "stup" ELSE "xfrc"
             /\ armed' => armed
    <3>1. /\ Popped = 1 /\ Popped' = 2 /\ Total' = Total /\ Total >= 2
      BY <2>f, <2>1, <2>4 DEF Popped
    <3>2. First' = First
      BY <2>4, <3>1 DEF First
    <3>3. FirstEnd' = FirstEnd
      BY <2>1, <2>f, <2>4, <3>1 DEF FirstEnd
    <3>4. Total >= 3 => Second' = Second
      BY <2>1, <2>f, <3>1 DEF Second
    <3>5. Total >= 4 => SecondEnd' = SecondEnd
      BY <2>1, <2>f, <3>1 DEF SecondEnd
    <3> QED
      BY <1>1, <2>f, <2>4, <3>1, <3>2, <3>3, <3>4, <3>5
      DEF WireInv, Packet, EndOf
  <2> QED
    BY <2>2, <2>3, <2>4
<1> QED
  BY <1>2, <1>3

\* The handler takes the first packet, whose kind the interrupt tells.
LEMMA WireReads ==
    ASSUME Known, ~Resetting, handle_oepint
    PROVE  /\ rx_slot = First /\ Total >= 2 /\ Total' = Total - 2
           /\ oint = IF First.sts = "setup" THEN "stup" ELSE "xfrc"
           /\ Total >= 3 => First' = Second
           /\ WireInv'
<1>1. /\ oint # "none" /\ oint' = "none" /\ rx_count = 1 /\ rx_count' = 0
      /\ UNCHANGED <<rxf, setup_open>> /\ WireInv /\ Popped = 2
      /\ Total = 2 + Len(rxf)
  BY WireFacts
  DEF handle_oepint, dwc_otg_read, Known, PipeInv, Popped, Total
<1>2. Popped' = 0 /\ Total' = Len(rxf) /\ Len(rxf) \in Nat
  BY <1>1, WireFacts DEF Popped, Total
<1>3. /\ First = rx_slot /\ First' = rxf[1] /\ Second = rxf[1]
      /\ FirstEnd' = rxf[2].sts /\ SecondEnd = rxf[2].sts
      /\ FirstEnd = IF oint = "stup" THEN "setup_comp" ELSE "data_comp"
  BY <1>1, <1>2 DEF First, Second, FirstEnd, SecondEnd
<1>4. oint = IF First.sts = "setup" THEN "stup" ELSE "xfrc"
  BY <1>1, <1>2, <1>3, WireFacts DEF WireInv, EndOf
<1>5. WireInv'
  <2>1. /\ Total' = Total - 2 /\ Total' \in 0..2
        /\ (setup_open <=> Total \in {1, 3}) /\ setup_open' = setup_open
    BY <1>1, <1>2 DEF WireInv
  <2>2. Total' >= 1 => Packet(First')
    BY <1>1, <1>2, <1>3 DEF WireInv, Packet
  <2>3. Total' >= 2 => FirstEnd' = EndOf(First')
    BY <1>1, <1>2, <1>3 DEF WireInv, EndOf
  <2> QED
    BY <2>1, <2>2, <2>3 DEF WireInv, Packet, EndOf
<1> QED
  BY <1>1, <1>2, <1>3, <1>4, <1>5
-----------------------------------------------------------------------------
(* The host's moves.                                                        *)

\* What is to be shown of every step.
PipeStep ==
    /\ ~Resetting' => WireInv' /\ Phase'
    /\ hgood' = TRUE
    /\ [Pipe!Next]_(Pipe!vars)

\* What this part needs of the types and of SafeInv.
LEMMA KnownFacts ==
    ASSUME Known
    PROVE  /\ TransferOK
           /\ hreq \in Requests /\ hn \in Nat /\ haddr \in Nat /\ dad \in Nat
           /\ hreq.in \in BOOLEAN /\ hreq.wLength \in Nat
           /\ dup \in BOOLEAN /\ tx_ready \in BOOLEAN /\ xfrc_in \in BOOLEAN
           /\ data_len \in Nat \cup {-1} /\ todo \in Nat \cup {-1}
           /\ hphase \in {"idle", "data", "status"}
           /\ DataBound
           /\ pc = "poll" => gint = {}
           /\ gint \subseteq Sections
           /\ Resetting => rxf = <<>> /\ ~setup_open /\ hphase = "idle"
           /\ ~Resetting => WireInv /\ Phase
           /\ hgood = TRUE
<1>1. TransferOK
  BY DEF Known, PipeInv, Types, HostInv, TransferOK
<1>2. /\ haddr \in Nat /\ dad \in Nat /\ xfrc_in \in BOOLEAN
      /\ gint \subseteq Sections /\ DataBound
  BY DEF Known, Types, HostInv, HostTypeOK, DriverTypeOK
<1>3. /\ pc = "poll" => gint = {}
      /\ Resetting => rxf = <<>> /\ ~setup_open /\ hphase = "idle"
      /\ ~Resetting => WireInv /\ Phase
  BY DEF Known, DeafInv, SafeInv, ResetInv, PipeInv
<1> QED
  BY <1>1, <1>2, <1>3, TransferFacts

\* Between transfers the device rests.
LEMMA IdleRests ==
    ASSUME Known, ~Resetting, hphase = "idle"
    PROVE  Resting
<1>1. ~Asking /\ ~Receiving
  BY DEF Asking, Receiving
<1>2. ~Refusing /\ ~Replying /\ ~Acking
  BY DEF Refusing, Refuses, HostExpectsIn, Replying, SendsReply, Queued,
         Unqueued, Acking, SendsStatus
<1> QED
  BY <1>1, <1>2, KnownFacts DEF Phase

\* A phase depends on what has been received, not on how far it has come.
LEMMA PhaseFrame ==
    ASSUME UNCHANGED <<ep0, stat_tx, txbuf, host, stall, Total>>,
           Total >= 1 => First' = First, Total >= 3 => Second' = Second
    PROVE  /\ Phase => Phase'
           /\ UNCHANGED Pipe!vars
<1>1. /\ UNCHANGED <<req, data_len, todo, stat_tx, stall, hphase, hreq, hn,
                     dup, acted, Total>>
  BY DEF ep0, host, xfer
<1>2. /\ SendsReply' <=> SendsReply
      /\ SendsStatus' <=> SendsStatus
      /\ Refuses' <=> Refuses
      /\ UNCHANGED Pipe!vars
  BY StageFrame
<1>3. /\ Refusing => Refusing'
      /\ Replying => Replying'
      /\ Acking => Acking'
  BY <1>1, <1>2 DEF Refusing, Replying, Acking
<1>4. Resting => Resting'
  BY <1>1 DEF Resting, Leftover
<1>5. Asking => Asking'
  <2>1. CASE Total \in {3, 4} /\ First' = First /\ Second' = Second
    BY <1>1, <2>1 DEF Asking, Leftover
  <2>2. CASE Total \in {1, 2} /\ First' = First
    BY <1>1, <2>2 DEF Asking, Leftover
  <2>3. Asking => Total \in {1, 2, 3, 4}
    BY DEF Asking
  <2> QED
    BY <2>1, <2>2, <2>3
<1>6. Receiving => Receiving'
  <2>1. CASE Total = 4 /\ First' = First /\ Second' = Second
    BY <1>1, <2>1 DEF Receiving
  <2>2. CASE Total = 2 /\ First' = First
    BY <1>1, <2>2 DEF Receiving
  <2>3. CASE Total = 0
    BY <1>1, <2>3 DEF Receiving
  <2>4. Receiving => Total \in {0, 2, 4}
    BY DEF Receiving
  <2> QED
    BY <2>1, <2>2, <2>3, <2>4
<1> QED
  BY <1>2, <1>3, <1>4, <1>5, <1>6 DEF Phase

LEMMA FrameStep ==
    ASSUME Known, Resetting' <=> Resetting,
           UNCHANGED <<ep0, stat_tx, txbuf, host, stall, rxf, rx_slot,
                       rx_count, oint, setup_open, armed>>
    PROVE  PipeStep
<1>1. UNCHANGED <<Total, First, Second>> /\ (WireInv => WireInv')
  BY WireStays
<1>2. (Phase => Phase') /\ UNCHANGED Pipe!vars
  BY <1>1, PhaseFrame
<1> QED
  BY <1>1, <1>2, KnownFacts DEF PipeStep, host, xfer

LEMMA SetupStep ==
    ASSUME Known, ~Abort, NEW r \in Requests, HostSetup(r)
    PROVE  PipeStep
<1> DEFINE s == Entry("setup", r, 8)
<1>1. /\ ~Resetting /\ ~Resetting' /\ hphase = "idle"
      /\ rxf' = Append(rxf, s) /\ setup_open' = TRUE /\ armed' = FALSE
      /\ stall' = FALSE /\ stat_tx' = "NAK"
      /\ UNCHANGED <<ep0, oint, rx_count, rx_slot>>
  BY DEF HostSetup, SetupArrives, HostBegins, Resetting, bus, up
<1>2. Resting /\ WireInv
  BY <1>1, IdleRests, KnownFacts
<1>3. s \in Entries /\ s.sts = "setup" /\ s.req = r
  BY EntryType DEF Entry
<1> HIDE DEF s
<1>4. /\ rxf' \in Seq(Entries) /\ Len(rxf') = Len(rxf) + 1
      /\ \A i \in 1..Len(rxf) : rxf'[i] = rxf[i]
      /\ rxf'[Len(rxf) + 1] = s
  <2>1. rxf \in Seq(Entries)
    BY WireFacts
  <2> QED
    BY <1>1, <1>3, <2>1
<1>5. /\ Total' = Total + 1
      /\ Total = 0 => First' = s
      /\ Total = 2 => First' = First /\ FirstEnd' = FirstEnd /\ Second' = s
  <2>1. Len(rxf) \in Nat /\ Total \in Nat
    BY WireFacts
  <2> QED
    BY <1>1, <1>4, <2>1, WireGrows
<1>6. Total \in {0, 2} /\ setup_open = FALSE
  BY <1>2, WireFacts DEF Resting, WireInv
<1>7. WireInv'
  BY <1>1, <1>2, <1>3, <1>5, <1>6 DEF WireInv, Packet, EndOf
<1>8. /\ hreq' = r /\ hn' = 0 /\ acted' = "no" /\ dup' = FALSE
      /\ hphase' = IF r.wLength = 0 THEN "status" ELSE "data"
      /\ r.wLength \in Nat
  BY RequestType DEF HostSetup, HostBegins
<1>9. Asking'
  <2>1. UNCHANGED <<req, data_len, todo>>
    BY <1>1 DEF ep0
  <2> QED
    BY <1>1, <1>2, <1>3, <1>5, <1>6, <1>8, <2>1 DEF Asking, Resting, Leftover
<1>10. hgood' = TRUE /\ Pipe!Setup(r)
  BY <1>1, TransferBegins DEF HostSetup
<1> QED
  BY <1>7, <1>9, <1>10 DEF PipeStep, Phase, Pipe!Next

LEMMA TokenStep ==
    ASSUME Known, HostToken
    PROVE  PipeStep
<1> DEFINE e == Entry("setup_comp", hreq, 0)
<1>1. /\ rxf' = Append(rxf, e) /\ setup_open /\ setup_open' = FALSE
      /\ armed' = FALSE
      /\ UNCHANGED <<core, ep0, stat_tx, txbuf, host, stall, oint, rx_count,
                     rx_slot>>
      /\ ~Resetting
  BY KnownFacts DEF HostToken, core, tx0
<1>2. ~Resetting' /\ WireInv /\ Phase
  BY <1>1, KnownFacts DEF HostToken, Resetting, up, bus
<1>3. e \in Entries /\ e.sts = "setup_comp"
  BY KnownFacts, EntryType
<1> HIDE DEF e
<1>4. /\ rxf' \in Seq(Entries) /\ Len(rxf') = Len(rxf) + 1
      /\ \A i \in 1..Len(rxf) : rxf'[i] = rxf[i]
      /\ rxf'[Len(rxf) + 1] = e
  <2>1. rxf \in Seq(Entries)
    BY WireFacts
  <2> QED
    BY <1>1, <1>3, <2>1
<1>5. Total \in {1, 3} /\ Asking
  <2>1. Total \in {1, 3}
    BY <1>1, <1>2 DEF WireInv
  <2> QED
    BY <1>2, <2>1
    DEF Phase, Resting, Receiving, Refusing, Replying, Acking
<1>6. /\ Total' = Total + 1 /\ First' = First
      /\ Total = 1 => FirstEnd' = "setup_comp"
      /\ Total = 3 => /\ FirstEnd' = FirstEnd /\ Second' = Second
                      /\ SecondEnd' = "setup_comp"
  <2>1. Len(rxf) \in Nat /\ Total \in Nat
    BY WireFacts
  <2> QED
    BY <1>1, <1>3, <1>4, <1>5, <2>1, WireGrows
<1>7. /\ Total = 1 => First.sts = "setup"
      /\ Total = 3 => Second.sts = "setup"
  BY <1>5 DEF Asking
<1>8. WireInv'
  BY <1>1, <1>2, <1>5, <1>6, <1>7 DEF WireInv, Packet, EndOf
<1>9. UNCHANGED <<req, data_len, todo, hphase, hreq, hn, dup, acted>>
  BY <1>1 DEF ep0, host, xfer
<1>10. Asking'
  <2>1. CASE Total = 1
    BY <1>1, <1>5, <1>6, <1>9, <2>1 DEF Asking
  <2>2. CASE Total = 3
    BY <1>1, <1>5, <1>6, <1>7, <1>9, <2>2 DEF Asking, Leftover
  <2> QED
    BY <1>5, <2>1, <2>2
<1>11. UNCHANGED Pipe!vars /\ hgood' = TRUE
  BY <1>1, StageFrame, KnownFacts DEF host, xfer
<1> QED
  BY <1>8, <1>10, <1>11 DEF PipeStep, Phase

LEMMA InStep ==
    ASSUME Known, HostIn
    PROVE  PipeStep
<1>1. /\ UNCHANGED <<ep0, txbuf, stall, rxf, rx_slot, rx_count, oint,
                     setup_open, armed>>
      /\ \/ stat_tx' = "NAK" /\ dup' = FALSE
         \/ stat_tx' = "VALID" /\ dup' = TRUE
      /\ ~stall /\ stat_tx = "VALID" /\ HostExpectsIn
  BY DEF HostIn, HostTakesPacket, rx0
<1>2. ~Resetting /\ ~Resetting' /\ WireInv /\ Phase
  <2>1. hphase # "idle"
    BY <1>1 DEF HostExpectsIn
  <2> QED
    BY <2>1, KnownFacts DEF HostIn, Resetting, up, bus
<1>3. Total = 0 /\ (SendsReply \/ SendsStatus)
  <2>1. ~Resting /\ ~Asking /\ ~Receiving /\ ~Refusing
    BY <1>1 DEF Resting, HostExpectsIn, Asking, Receiving, Refusing
  <2> QED
    BY <1>2, <2>1 DEF Phase, Replying, Acking
<1>4. /\ hgood' = TRUE /\ [Pipe!Next]_(Pipe!vars)
      /\ \/ SendsReply /\ SendsReply'
         \/ SendsStatus /\ HostTakesStatus /\ todo' = -1
  BY <1>1, <1>3, KnownFacts, PacketTaken DEF HostIn
<1>5. Total' = Total /\ WireInv'
  BY <1>1, <1>2, WireStays
<1>6. Replying' \/ Resting'
  BY <1>1, <1>3, <1>4, <1>5 DEF Replying, Resting, HostTakesStatus
<1> QED
  BY <1>4, <1>5, <1>6 DEF PipeStep, Phase

LEMMA StalledStep ==
    ASSUME Known, HostStalled
    PROVE  PipeStep
<1>1. /\ UNCHANGED <<ep0, stall, rxf, rx_slot, rx_count, oint, setup_open,
                     armed>>
      /\ stall /\ hphase # "idle"
  BY DEF HostStalled, HostTakesStall, rx0, core
<1>2. ~Resetting /\ ~Resetting' /\ WireInv /\ Phase
  BY <1>1, KnownFacts DEF HostStalled, Resetting, up, bus
<1>3. Refusing
  BY <1>1, <1>2
  DEF Phase, Resting, Asking, Receiving, Replying, Acking
<1>4. hgood' = TRUE /\ hphase' = "idle" /\ Pipe!Refuse
  BY <1>3, KnownFacts, RefusalTaken DEF HostStalled, Refusing
<1>5. Total' = Total /\ WireInv'
  BY <1>1, <1>2, WireStays
<1>6. Resting'
  BY <1>1, <1>3, <1>4, <1>5 DEF Refusing, Refuses, Resting, ep0
<1> QED
  BY <1>4, <1>5, <1>6 DEF PipeStep, Phase, Pipe!Next
\* What has been sent are entries of the FIFO.
LEMMA FirstType ==
    ASSUME Known
    PROVE  /\ Total >= 1 => First \in Entries
           /\ Total >= 3 => Second \in Entries
<1>1. CASE Popped = 0
  BY <1>1, WireFacts DEF First, Second
<1>2. CASE Popped # 0
  BY <1>2, WireFacts DEF First, Second
<1> QED
  BY <1>1, <1>2
LEMMA OutStep ==
    ASSUME Known, ~Abort, HostOut
    PROVE  PipeStep
<1> DEFINE d == Entry("data", hreq, HostOutLen)
           c == Entry("data_comp", hreq, 0)
<1>1. /\ rxf' = rxf \o <<d, c>> /\ ~setup_open /\ armed /\ ~stall
      /\ armed' = FALSE
      /\ UNCHANGED <<core, ep0, stat_tx, txbuf, stall, oint, rx_count,
                     rx_slot, setup_open, dup, acted, hreq>>
      /\ HostSendsOut /\ hphase # "idle"
  BY DEF HostOut, HostSendsOut, core, tx0
<1>2. ~Resetting /\ ~Resetting' /\ WireInv /\ Phase
  BY <1>1, KnownFacts DEF HostOut, Resetting, up, bus
<1>3. /\ HostOutLen \in Nat
      /\ d \in Entries /\ d.sts = "data" /\ d.len = HostOutLen
      /\ c \in Entries /\ c.sts = "data_comp"
  <2>1. HostOutLen \in Nat
    BY <1>1, HostSendsOutInv DEF Known, Types
  <2> QED
    BY <2>1, KnownFacts, EntryType DEF Entry
<1> HIDE DEF d, c
<1>4. /\ rxf' \in Seq(Entries) /\ Len(rxf') = Len(rxf) + 2
      /\ \A i \in 1..Len(rxf) : rxf'[i] = rxf[i]
      /\ rxf'[Len(rxf) + 1] = d /\ rxf'[Len(rxf) + 2] = c
  <2>1. rxf \in Seq(Entries)
    BY WireFacts
  <2> QED
    BY <1>1, <1>3, <2>1
<1>5. /\ Total' = Total + 2
      /\ Total >= 1 => First' = First
      /\ Total >= 2 => FirstEnd' = FirstEnd
      /\ Total = 0 => First' = d /\ FirstEnd' = "data_comp"
      /\ Total = 2 => Second' = d /\ SecondEnd' = "data_comp"
  <2>1. Len(rxf) \in Nat /\ Total \in Nat
    BY WireFacts
  <2> QED
    BY <1>1, <1>3, <1>4, <2>1, WireGrows
<1>6. Total \in {0, 2}
  BY <1>1, <1>2 DEF WireInv
<1>7. WireInv'
  BY <1>1, <1>2, <1>3, <1>5, <1>6 DEF WireInv, Packet, EndOf
<1>8. UNCHANGED <<req, data_len, todo>>
  BY <1>1 DEF ep0
<1>9. CASE hphase = "data" /\ ~hreq.in
  <2>1. /\ acted = "no" /\ (Receiving \/ Asking)
    BY <1>1, <1>2, <1>9
    DEF Phase, Resting, Asking, Receiving, Refusing, Replying, SendsReply,
        Acking, SendsStatus
  <2>2. /\ HostOutLen \in Nat \ {0}
        /\ hn' = hn + HostOutLen /\ hn' <= hreq.wLength
        /\ hphase' = IF hn' = hreq.wLength THEN "status" ELSE "data"
        /\ hgood' = TRUE /\ Pipe!DataOut
    BY <1>1, <1>9, <2>1, DataSent, KnownFacts DEF DataBound
  <2>3. /\ hn \in Nat /\ hreq.wLength \in Nat /\ data_len \in Nat \cup {-1}
    BY KnownFacts
  <2>4. CASE Receiving /\ Total = 0
    <3>1. Receiving'
      BY <1>1, <1>3, <1>5, <1>8, <2>1, <2>2, <2>3, <2>4 DEF Receiving
    <3> QED
      BY <1>2, <1>7, <2>2, <3>1 DEF PipeStep, Phase, Pipe!Next
  <2>5. CASE Receiving /\ Total = 2
    <3>1. First.len \in Nat
      BY <2>5, FirstType DEF Entries
    <3>2. Receiving'
      BY <1>1, <1>3, <1>5, <1>8, <2>1, <2>2, <2>3, <2>5, <3>1 DEF Receiving
    <3> QED
      BY <1>7, <2>2, <3>2 DEF PipeStep, Phase, Pipe!Next
  <2>6. CASE Asking /\ ~Receiving
    <3>1. /\ Total = 2 /\ First.sts = "setup" /\ First.req = hreq /\ hn = 0
      BY <1>6, <2>6 DEF Asking
    <3>2. Asking'
      BY <1>1, <1>3, <1>5, <1>8, <1>9, <2>1, <2>2, <2>3, <2>6, <3>1 DEF Asking
    <3> QED
      BY <1>7, <2>2, <3>2 DEF PipeStep, Phase, Pipe!Next
  <2> QED
    BY <1>6, <1>7, <2>1, <2>4, <2>5, <2>6
<1>10. CASE hreq.in /\ hreq.wLength > 0 /\ hphase = "status"
  <2>1. Replying
    BY <1>1, <1>2, <1>10, KnownFacts
    DEF Phase, Resting, Asking, Receiving, Refusing, Acking, SendsStatus
  <2>2. /\ hphase' = "idle" /\ hgood' = TRUE /\ todo = -1 /\ Pipe!Complete
    BY <1>1, <1>10, <2>1, StatusSent, KnownFacts DEF Replying
  <2>3. Resting'
    BY <1>3, <1>5, <1>8, <2>1, <2>2
    DEF Resting, Leftover, Replying, SendsReply
  <2> QED
    BY <1>7, <2>2, <2>3 DEF PipeStep, Phase, Pipe!Next
<1> QED
  BY <1>1, <1>9, <1>10 DEF HostSendsOut
-----------------------------------------------------------------------------
(* Resets, and the steps that change nothing here.                          *)

\* Only the host's view matters until endpoint 0 is configured again.
LEMMA ResettingStep ==
    ASSUME Known, Resetting', UNCHANGED host
    PROVE  PipeStep
BY KnownFacts DEF PipeStep, host, xfer, Pipe!vars

LEMMA BusResetStep ==
    ASSUME Known, BusReset
    PROVE  PipeStep
<1>1. Resetting' /\ HostSeesReset
  BY DEF BusReset, Resetting, up
<1>2. hgood' = TRUE /\ Pipe!Reset
  BY <1>1, KnownFacts DEF HostSeesReset, Pipe!Reset
<1> QED
  BY <1>1, <1>2 DEF PipeStep, Pipe!Next

LEMMA HandleResetStep ==
    ASSUME Known, handle_reset
    PROVE  PipeStep
<1>1. line = "reset"
  BY DEF handle_reset, Section, Reached, Known, SafeInv, ResetInv
<1> QED
  BY <1>1, ResettingStep DEF handle_reset, Resetting, up

LEMMA ConfiguredStep ==
    ASSUME Known, enumeration_done
    PROVE  PipeStep
<1>1. /\ Resetting /\ oint = "none" /\ todo = -1
  BY
  DEF enumeration_done, Section, Reached, Resetting, Known, PipeInv,
      ClearInv, Clear
<1>2. /\ rx_count' = 0 /\ UNCHANGED <<host, ep0, rxf, setup_open, oint>>
  BY DEF enumeration_done, configure_ep0
<1>3. /\ rxf = <<>> /\ ~setup_open /\ hphase = "idle" /\ hgood = TRUE
  BY <1>1, KnownFacts
<1>4. Total' = 0
  BY <1>1, <1>2, <1>3 DEF Total, Popped
<1>5. WireInv'
  BY <1>2, <1>3, <1>4 DEF WireInv
<1>6. Resting'
  BY <1>1, <1>2, <1>3, <1>4 DEF Resting, ep0, host, xfer
<1> QED
  BY <1>2, <1>3, <1>5, <1>6 DEF PipeStep, Phase, host, xfer, Pipe!vars

LEMMA PollStep ==
    ASSUME Known, dwc_otg_process
    PROVE  PipeStep
<1>1. gint = {} /\ ("enum" \in gint' <=> enumdne)
  BY KnownFacts DEF dwc_otg_process, Sections
<1>2. Resetting' <=> Resetting
  BY <1>1 DEF dwc_otg_process, Resetting, up, bus
<1> QED
  BY <1>2, FrameStep DEF dwc_otg_process, core, tx0, rx0

LEMMA QuietStep ==
    ASSUME Known, HostPollsKeyboard \/ EnumerationDone \/ illegal
                  \/ keyboard_process \/ UNCHANGED vars
    PROVE  PipeStep
<1>1. CASE EnumerationDone
  BY <1>1, ResettingStep DEF EnumerationDone, Resetting
<1>2. CASE HostPollsKeyboard
  <2>1. Resetting' <=> Resetting
    BY <1>2 DEF HostPollsKeyboard, Resetting, up, bus
  <2> QED
    BY <1>2, <2>1, FrameStep DEF HostPollsKeyboard, core, tx0, rx0
<1>3. CASE illegal
  <2>1. "enum" \in gint' <=> "enum" \in gint
    BY <1>3 DEF illegal, Section, Reached
  <2>2. Resetting' <=> Resetting
    BY <1>3, <2>1 DEF illegal, Resetting, up, bus
  <2> QED
    BY <1>3, <2>2, FrameStep DEF illegal, core, tx0, rx0
<1>4. CASE keyboard_process
  <2>1. Resetting' <=> Resetting
    BY <1>4 DEF keyboard_process, Resetting, up, bus
  <2> QED
    BY <1>4, <2>1, FrameStep DEF keyboard_process, core, tx0, rx0
<1>5. CASE UNCHANGED vars
  <2>1. Resetting' <=> Resetting
    BY <1>5 DEF vars, Resetting, up, bus
  <2> QED
    BY <1>5, <2>1, FrameStep DEF vars, core, tx0, rx0
<1> QED
  BY <1>1, <1>2, <1>3, <1>4, <1>5

-----------------------------------------------------------------------------
(* The device's moves.                                                      *)

LEMMA PopStep ==
    ASSUME Known, handle_rx_transfer
    PROVE  PipeStep
<1>1. /\ "enum" \in gint' <=> "enum" \in gint
      /\ UNCHANGED <<core, stall, host, bus, line, enumdne>>
  BY DEF handle_rx_transfer, Section, Reached, bus
<1>2. Resetting' <=> Resetting
  BY <1>1 DEF Resetting, up
<1>3. CASE Resetting
  BY <1>1, <1>2, <1>3, ResettingStep
<1>4. CASE ~Resetting
  <2>1. /\ Total' = Total
        /\ Total >= 1 => First' = First
        /\ Total >= 3 => Second' = Second
        /\ WireInv'
    BY <1>4, WirePops
  <2>2. Phase' /\ UNCHANGED Pipe!vars
    BY <1>1, <1>4, <2>1, PhaseFrame, KnownFacts DEF core, tx0
  <2> QED
    BY <1>1, <2>1, <2>2, KnownFacts DEF PipeStep, host, xfer
<1> QED
  BY <1>3, <1>4

LEMMA SentStep ==
    ASSUME Known, handle_iepint
    PROVE  PipeStep
<1>1. /\ "enum" \in gint' <=> "enum" \in gint
      /\ UNCHANGED <<rxf, setup_open, stall, oint, bus, line, enumdne, rx_slot,
                     rx_count, armed, host>>
  BY DEF handle_iepint, Section, Reached, bus, rx0
<1>2. Resetting' <=> Resetting
  BY <1>1 DEF Resetting, up
<1>3. CASE Resetting
  BY <1>1, <1>2, <1>3, ResettingStep
<1>4. CASE ~xfrc_in
  BY <1>1, <1>2, <1>4, FrameStep DEF handle_iepint, core, tx0
<1>5. CASE ~Resetting /\ xfrc_in
  <2>1. /\ usb_write_ep0(TRUE, todo, trunc, p, data)
        /\ UNCHANGED <<req, data_len, data>>
    BY <1>5 DEF handle_iepint, handle_tx_ep0
  <2>2. stat_tx # "VALID"
    BY <1>5 DEF Known, PipeInv, BufferInv
  <2>3. /\ SendsReply => SendsReply'
        /\ SendsStatus => SendsStatus'
        /\ todo = -1 => UNCHANGED <<ep0, stat_tx, txbuf>>
    BY <1>1, <2>1, <2>2, NextPacket, KnownFacts
  <2>4. UNCHANGED <<Total, First, Second>> /\ WireInv'
    BY <1>1, <1>5, WireStays, KnownFacts
  <2>5. Phase'
    <3>1. CASE todo = -1
      BY <1>1, <1>5, <2>3, <2>4, <3>1, PhaseFrame, KnownFacts
    <3>2. CASE todo # -1
      <4>1. Replying \/ Acking
        BY <1>5, <3>2, KnownFacts
        DEF Phase, Resting, Asking, Receiving, Refusing, Refuses
      <4> QED
        BY <1>1, <2>3, <2>4, <4>1 DEF Phase, Replying, Acking
    <3> QED
      BY <3>1, <3>2
  <2> QED
    BY <1>1, <2>4, <2>5, KnownFacts DEF PipeStep, host, xfer, Pipe!vars
<1> QED
  BY <1>3, <1>4, <1>5, KnownFacts
\* What handle_oepint does, by the kind of what was received.
LEMMA OepCases ==
    ASSUME Known, handle_oepint
    PROVE  /\ UNCHANGED <<xfer, dup, hphase, hreq, hn, hgood, result, haddr>>
           /\ stall' = (stall \/ stat_tx' = "STALL")
           /\ Resetting' <=> Resetting
           /\ \/ /\ oint = "xfrc" /\ handle_rx_out(rx_slot.len)
                 /\ \/ data_ready(rx_slot.len) /\ handled(req) /\ accept(req)
                    \/ /\ ~(data_ready(rx_slot.len) /\ handled(req))
                       /\ no_request
              \/ /\ oint = "stup" /\ handle_rx_setup(rx_slot.req)
                 /\ \/ /\ setup_ready(rx_slot.req) /\ handled(rx_slot.req)
                       /\ accept(rx_slot.req)
                    \/ /\ ~(setup_ready(rx_slot.req) /\ handled(rx_slot.req))
                       /\ no_request
<1>1. /\ UNCHANGED <<xfer, dup, bus>> /\ stall' = (stall \/ stat_tx' = "STALL")
      /\ "enum" \in gint' <=> "enum" \in gint
  BY DEF handle_oepint, Section, Reached
<1>2. /\ UNCHANGED <<hphase, hreq, hn, hgood, result, haddr>>
      /\ Resetting' <=> Resetting
  BY <1>1 DEF xfer, bus, Resetting, up
<1>3. CASE oint = "xfrc"
  BY <1>1, <1>2, <1>3 DEF handle_oepint
<1>4. CASE oint = "stup"
  BY <1>1, <1>2, <1>4 DEF handle_oepint
<1> QED
  BY <1>3, <1>4 DEF handle_oepint

\* Where the host is when the handler finds a request complete.
LEMMA OepPhase ==
    ASSUME Known, ~Resetting, handle_oepint
    PROVE  /\ oint = "stup" => Asking /\ First.sts = "setup"
           /\ oint = "xfrc" /\ ~req.in => Receiving
           /\ oint = "xfrc" => First.sts = "data"
           /\ rx_slot = First /\ Total \in {2, 3, 4} /\ First \in Entries
<1>1. /\ rx_slot = First /\ Total >= 2 /\ Total \in 0..4
      /\ oint = IF First.sts = "setup" THEN "stup" ELSE "xfrc"
      /\ First.sts \in {"setup", "data"} /\ First \in Entries
  BY WireReads, KnownFacts, FirstType DEF WireInv, Packet
<1>2. Resting \/ Asking \/ Receiving
  BY <1>1, KnownFacts DEF Phase, Refusing, Replying, Acking
<1>3. req.in \in BOOLEAN
  BY RequestType DEF Known, Types, CoreTypeOK
<1>4. CASE Resting
  BY <1>1, <1>3, <1>4 DEF Resting, Leftover
<1>5. CASE Asking
  BY <1>1, <1>3, <1>5 DEF Asking, Leftover
<1>6. CASE Receiving
  BY <1>1, <1>3, <1>6 DEF Receiving
<1> QED
  BY <1>1, <1>2, <1>4, <1>5, <1>6

\* The device acts only on the whole of the host's request, and once.
LEMMA OepActs ==
    ASSUME Known, handle_oepint
    PROVE  /\ \/ acted' = "yes" /\ acted = "no" /\ Pipe!Act
              \/ UNCHANGED acted /\ UNCHANGED Pipe!vars
           /\ hgood' = TRUE
<1> DEFINE len == rx_slot.len
<1>1. /\ UNCHANGED <<hphase, hreq, hn, hgood, result>> /\ hgood = TRUE
  BY OepCases, KnownFacts
<1>2. hn \in Nat /\ hreq.wLength \in Nat /\ hreq.in \in BOOLEAN
      /\ data_len \in Nat \cup {-1} /\ len \in Nat
      /\ TransferOK /\ (Resetting => hphase = "idle")
  BY KnownFacts, WireFacts DEF Entries
<1>3. CASE no_request
  BY <1>1, <1>3 DEF no_request, Pipe!vars
<1>4. CASE /\ oint = "xfrc" /\ data_ready(len)
           /\ handled(req) /\ accept(req)
  <2>1. data_len >= 0 /\ ~req.in /\ data_len + len >= req.wLength
    BY <1>4 DEF data_ready
  <2>2. req = hreq /\ acted = "no"
    BY <1>4, <2>1 DEF Known, PipeInv, ActInv
  <2>3. hphase = "idle" \/ hn = hreq.wLength
    <3>1. CASE Resetting
      BY <1>2, <3>1
    <3>2. CASE ~Resetting
      <4>1. Receiving /\ First = rx_slot
        BY <1>4, <2>1, <3>2, OepPhase
      <4>2. Total # 4
        <5>1. Total = 4 => Second.len \in Nat
          BY FirstType DEF Entries
        <5> HIDE DEF len
        <5> QED
          BY <1>2, <2>1, <2>2, <4>1, <5>1 DEF Receiving, len
      <4> QED
        BY <1>2, <2>1, <2>2, <3>2, <4>1, <4>2, OepPhase DEF Receiving
    <3> QED
      BY <3>1, <3>2
  <2>4. DeviceActs(hreq) /\ handled(hreq)
    BY <1>4, <2>2 DEF accept
  <2> QED
    BY <1>1, <1>2, <2>2, <2>3, <2>4, RequestActed
<1>5. CASE /\ oint = "stup" /\ setup_ready(rx_slot.req)
           /\ handled(rx_slot.req) /\ accept(rx_slot.req)
  <2>1. rx_slot.req = hreq /\ acted = "no"
    BY <1>5 DEF Known, PipeInv, ActInv
  <2>2. DeviceActs(hreq) /\ handled(hreq) /\ setup_ready(hreq)
    BY <1>5, <2>1 DEF accept
  <2>3. hphase = "idle" \/ hreq.in \/ hn = hreq.wLength
    <3>1. CASE Resetting
      BY <1>2, <3>1
    <3>2. CASE ~Resetting
      BY <1>2, <1>5, <2>2, <3>2, OepPhase DEF Asking, setup_ready
    <3> QED
      BY <3>1, <3>2
  <2> QED
    BY <1>1, <1>2, <2>1, <2>2, <2>3, RequestActed
<1> QED
  BY <1>3, <1>4, <1>5, OepCases
LEMMA OepStep ==
    ASSUME Known, handle_oepint
    PROVE  PipeStep
<1>1. /\ UNCHANGED <<hphase, hreq, hn, dup>> /\ (Resetting' <=> Resetting)
      /\ stall' = (stall \/ stat_tx' = "STALL")
  BY OepCases
<1>2. /\ hgood' = TRUE /\ [Pipe!Next]_(Pipe!vars)
      /\ acted' = "yes" \/ acted' = acted
  BY OepActs DEF Pipe!Next
<1>f. /\ hn \in Nat /\ hreq.wLength \in Nat /\ hreq.in \in BOOLEAN
      /\ data_len \in Nat \cup {-1} /\ TransferOK
  BY KnownFacts
<1>3. SUFFICES ASSUME ~Resetting
               PROVE  WireInv' /\ Phase'
  BY <1>1, <1>2 DEF PipeStep
<1>4. /\ rx_slot = First /\ Total \in {2, 3, 4} /\ First \in Entries
      /\ Total' = Total - 2 /\ WireInv'
      /\ Total >= 3 => First' = Second
      /\ oint = IF First.sts = "setup" THEN "stup" ELSE "xfrc"
  BY <1>3, OepPhase, WireReads
<1>w. WireInv'
  BY <1>4
<1>5. Resting \/ Asking \/ Receiving
  BY <1>3, <1>4, KnownFacts DEF Phase, Refusing, Replying, Acking
<1>a. ASSUME answer(hreq, -1), req' = hreq, acted = "no", Total = 2,
             handled(hreq) => acted' = "yes", ~handled(hreq) => acted' = "no",
             ~dup, ~stall, stat_tx \notin {"VALID", "STALL"},
             IF hreq.in /\ hreq.wLength > 0
             THEN hphase = "data" /\ hn = 0
             ELSE hphase = "status" /\ hn = hreq.wLength
      PROVE  Phase'
  <2>1. \/ ~handled(hreq) /\ Refuses'
        \/ handled(hreq) /\ stat_tx' # "STALL"
                         /\ (SendsReply' \/ SendsStatus')
    BY <1>1, <1>a, <1>f, Answered
  <2>2. Total' = 0
    BY <1>4, <1>a
  <2>3. CASE Refuses'
    <3>1. stat_tx' = "STALL" /\ stall'
      BY <1>1, <2>3 DEF Refuses
    <3> QED
      BY <2>2, <2>3, <3>1 DEF Phase, Refusing
  <2>4. CASE stat_tx' # "STALL" /\ (SendsReply' \/ SendsStatus')
    <3>1. ~stall'
      BY <1>1, <1>a, <2>4
    <3> QED
      BY <2>2, <2>4, <3>1 DEF Phase, Replying, Acking
  <2> QED
    BY <2>1, <2>3, <2>4
<1>6. CASE oint = "xfrc" /\ req.in
  <2>1. data_len >= 0 /\ Leftover /\ (Resting \/ Asking)
    BY <1>4, <1>5, <1>6 DEF Resting, Asking, Receiving, Leftover
  <2>2. handle_rx_out(rx_slot.len) /\ ~data_ready(rx_slot.len) /\ acted' = acted
    BY <1>6, OepCases DEF data_ready, no_request
  <2>3. /\ todo' = -1 /\ UNCHANGED tx0
    BY <1>6, <1>f, <2>1, <2>2 DEF handle_rx_out
  <2>4. stat_tx' = stat_tx
    BY <2>3 DEF tx0
  <2>5. CASE Resting
    <3>1. Resting'
      BY <1>1, <1>4, <2>3, <2>5 DEF Resting
    <3> QED
      BY <1>w, <3>1 DEF Phase
  <2>6. CASE Asking
    <3>1. /\ Total \in {3, 4} /\ Second.sts = "setup" /\ Second.req = hreq
          /\ hn = 0 /\ stat_tx = "NAK" /\ ~stall
      BY <1>4, <1>6, <2>6 DEF Asking
    <3>2. Total' \in {1, 2} /\ First' = Second
      BY <1>4, <3>1
    <3>3. ~stall'
      BY <1>1, <2>4, <3>1
    <3>4. Asking'
      BY <1>1, <2>2, <2>3, <2>4, <2>6, <3>1, <3>2, <3>3 DEF Asking
    <3> QED
      BY <1>w, <3>4 DEF Phase
  <2> QED
    BY <2>1, <2>5, <2>6
<1>7. CASE oint = "stup"
  <2>1. /\ Asking /\ First.sts = "setup" /\ First.req = hreq
        /\ rx_slot.req = hreq /\ acted = "no"
    BY <1>3, <1>4, <1>7, OepPhase DEF Asking, Leftover
  <2>2. /\ hn <= hreq.wLength
        /\ hphase = IF hn = hreq.wLength THEN "status" ELSE "data"
        /\ stat_tx = "NAK" /\ ~stall /\ ~dup
        /\ \/ Total = 2 /\ hn = 0
           \/ /\ Total = 4 /\ ~hreq.in
              /\ Second.sts = "data" /\ Second.len = hn /\ hn > 0
    BY <1>4, <2>1 DEF Asking, Leftover
  <2>3. handle_rx_setup(hreq) /\ req' = hreq
    BY <1>7, <2>1, OepCases DEF handle_rx_setup
  <2>4. CASE setup_ready(hreq)
    <3>1. hreq.in \/ hreq.wLength = 0
      BY <2>4 DEF setup_ready
    <3>2. Total = 2 /\ hn = 0
      BY <1>f, <2>2, <3>1
    <3>3. answer(hreq, -1)
      BY <2>3, <2>4 DEF handle_rx_setup
    <3>4. IF handled(hreq) THEN accept(hreq) ELSE no_request
      BY <1>7, <2>1, <2>4, OepCases
    <3>5. /\ handled(hreq) => acted' = "yes"
          /\ ~handled(hreq) => acted' = "no"
      BY <2>1, <3>4 DEF accept, DeviceActs, no_request
    <3>6. IF hreq.in /\ hreq.wLength > 0
          THEN hphase = "data" /\ hn = 0
          ELSE hphase = "status" /\ hn = hreq.wLength
      BY <1>f, <2>2, <3>1, <3>2
    <3>7. ~dup /\ ~stall /\ stat_tx \notin {"VALID", "STALL"}
      BY <2>2
    <3>8. Phase'
      BY <1>a, <2>1, <2>3, <3>2, <3>3, <3>5, <3>6, <3>7
    <3> QED
      BY <1>w, <3>8
  <2>5. CASE ~setup_ready(hreq)
    <3>1. ~hreq.in /\ hreq.wLength > 0
      BY <1>f, <2>5 DEF setup_ready
    <3>2. data_len' = 0 /\ todo' = -1 /\ UNCHANGED stat_tx
      BY <2>3, <2>5 DEF handle_rx_setup, tx0
    <3>3. acted' = acted
      BY <1>7, <2>1, <2>5, OepCases DEF no_request
    <3>4. ~stall'
      BY <1>1, <2>2, <3>2
    <3>5. \/ Total' = 0 /\ hn = 0
          \/ Total' = 2 /\ First'.sts = "data" /\ First'.len = hn
      BY <1>4, <2>2
    <3>6. Receiving'
      BY <1>1, <1>f, <2>1, <2>2, <2>3, <3>1, <3>2, <3>3, <3>4, <3>5
      DEF Receiving
    <3> QED
      BY <1>w, <3>6 DEF Phase
  <2> QED
    BY <2>4, <2>5
<1>8. CASE oint = "xfrc" /\ ~req.in
  <2> DEFINE len == First.len
  <2>1. Receiving /\ First.sts = "data" /\ len \in Nat
    BY <1>3, <1>4, <1>8, OepPhase DEF Entries
  <2>2. /\ req = hreq /\ acted = "no" /\ ~hreq.in /\ hreq.wLength > 0
        /\ hn <= hreq.wLength /\ data_len >= 0 /\ todo = -1
        /\ hphase = IF hn = hreq.wLength THEN "status" ELSE "data"
        /\ stat_tx \notin {"VALID", "STALL"} /\ ~stall /\ ~dup
        /\ \/ Total = 2 /\ data_len + len = hn
           \/ /\ Total = 4 /\ Second.sts = "data" /\ Second.len \in Nat
              /\ data_len + len + Second.len = hn /\ Second.len > 0
    <3>1. Total = 4 => Second.len \in Nat
      BY FirstType DEF Entries
    <3> QED
      BY <1>4, <2>1, <3>1 DEF Receiving
  <2>3. handle_rx_out(len)
    BY <1>4, <1>8, OepCases
  <2> HIDE DEF len
  <2>4. CASE data_ready(len)
    <3>1. data_len + len >= hreq.wLength
      BY <2>2, <2>4 DEF data_ready
    <3>2. Total = 2 /\ hn = hreq.wLength
      BY <1>f, <2>1, <2>2, <3>1
    <3>3. answer(hreq, -1) /\ req' = hreq
      BY <1>f, <2>2, <2>3, <2>4 DEF handle_rx_out, data_ready
    <3>4. IF handled(hreq) THEN accept(hreq) ELSE no_request
      BY <1>4, <1>8, <2>2, <2>4, OepCases DEF len
    <3>5. /\ handled(hreq) => acted' = "yes"
          /\ ~handled(hreq) => acted' = "no"
      BY <2>2, <3>4 DEF accept, DeviceActs, no_request
    <3>6. IF hreq.in /\ hreq.wLength > 0
          THEN hphase = "data" /\ hn = 0
          ELSE hphase = "status" /\ hn = hreq.wLength
      BY <2>2, <3>2
    <3>7. ~dup /\ ~stall /\ stat_tx \notin {"VALID", "STALL"} /\ acted = "no"
      BY <2>2
    <3>8. Phase'
      BY <1>a, <3>2, <3>3, <3>5, <3>6, <3>7
    <3> QED
      BY <1>w, <3>8
  <2>5. CASE ~data_ready(len)
    <3>1. data_len + len < hreq.wLength
      BY <1>f, <2>1, <2>2, <2>5 DEF data_ready
    <3>2. /\ data_len' = data_len + len /\ todo' = -1
          /\ UNCHANGED <<req, stat_tx>>
      BY <1>f, <2>2, <2>3, <2>5 DEF handle_rx_out, tx0
    <3>3. acted' = acted
      BY <1>4, <1>8, <2>5, OepCases DEF no_request, len
    <3>4. ~stall'
      BY <1>1, <2>2, <3>2
    <3>5. \/ Total' = 0 /\ data_len' = hn /\ hn < hreq.wLength
          \/ Total' = 2 /\ First'.sts = "data" /\ data_len' + First'.len = hn
      BY <1>4, <2>2, <3>1, <3>2
    <3>6. data_len' >= 0 /\ (hn < hreq.wLength => hphase = "data")
      BY <1>f, <2>1, <2>2, <3>2
    <3>7. Receiving'
      BY <1>1, <2>2, <3>2, <3>3, <3>4, <3>5, <3>6 DEF Receiving
    <3> QED
      BY <1>w, <3>7 DEF Phase
  <2> QED
    BY <2>4, <2>5
<1> QED
  BY <1>4, <1>6, <1>7, <1>8
-----------------------------------------------------------------------------
(* The rest of the invariant.                                               *)

LEMMA ClearStep ==
    ASSUME Known, [Next]_vars
    PROVE  ClearInv'
<1> DEFINE Antecedent == \/ "enum" \in gint
                         \/ Resetting /\ ~usbrst /\ line # "off"
<1>t. /\ ClearInv /\ (pc = "poll" => gint = {}) /\ gint \subseteq Sections
      /\ usbrst => line = "reset"
      /\ "rst" \in gint => usbrst
      /\ Resetting => rxf = <<>> /\ hphase = "idle"
      /\ "oep" \notin gint => oint = "none" \/ gint = {}
  BY KnownFacts DEF Known, PipeInv, SafeInv, ResetInv, RingInv
<1>u. ASSUME UNCHANGED <<usbrst, enumdne, line, oint, xfrc_in, todo, dad>>,
             gint' = gint \/ (\E s \in {"oep", "rxf"} : gint' = gint \ {s})
      PROVE  ClearInv'
  BY <1>t, <1>u DEF ClearInv, Clear, Resetting, up
<1>h. ASSUME ~Resetting, UNCHANGED <<bus, gint>>
      PROVE  ClearInv'
  BY <1>t, <1>h DEF ClearInv, Resetting, up, bus
<1>1. ASSUME NEW r \in Requests, HostSetup(r)
      PROVE  ClearInv'
  BY <1>1, <1>h DEF HostSetup, SetupArrives, Resetting
<1>2. ASSUME hphase # "idle", HostResendsSetup \/ HostMoves
      PROVE  ClearInv'
  BY <1>2, <1>h, <1>t
  DEF HostMoves, HostResendsSetup, SetupArrives, HostToken, HostIn, HostOut,
      HostStalled
<1>3. ASSUME HostResendsSetup \/ HostMoves
      PROVE  hphase # "idle"
  BY <1>3
  DEF HostMoves, HostResendsSetup, HostToken, HostIn, HostTakesPacket,
      HostExpectsIn, HostOut, HostSendsOut, HostStalled, HostTakesStall
<1>4. CASE BusReset
  BY <1>4, <1>t DEF BusReset, ClearInv, Clear, ep0
<1>5. CASE EnumerationDone
  BY <1>5, <1>t
  DEF EnumerationDone, ClearInv, Clear, Resetting, up, core, ep0
<1>6. CASE dwc_otg_process
  <2>1. /\ gint = {} /\ UNCHANGED <<bus, oint, xfrc_in, todo, dad>>
        /\ "enum" \in gint' => enumdne
        /\ "rst" \in gint' /\ "iep" \notin gint' => ~xfrc_in
    BY <1>6, <1>t DEF dwc_otg_process, Sections, core, ep0
  <2>2. enumdne => Resetting /\ line = "up"
    BY DEF Resetting, Known, SafeInv, ResetInv
  <2> QED
    BY <1>t, <2>1, <2>2 DEF ClearInv, Clear, Resetting, up, bus
<1>7. CASE handle_oepint
  <2>1. /\ gint' = gint \ {"oep"} /\ oint # "none"
        /\ UNCHANGED <<usbrst, enumdne, line, xfrc_in>>
    BY <1>7 DEF handle_oepint, Section, Reached, bus
  <2>2. ~Antecedent /\ ~Antecedent'
    BY <1>t, <2>1 DEF ClearInv, Clear, Resetting, up
  <2> QED
    BY <1>t, <2>1, <2>2 DEF ClearInv
<1>8. CASE handle_iepint
  <2>1. /\ gint' = gint \ {"iep"} /\ xfrc_in' = FALSE
        /\ UNCHANGED <<usbrst, enumdne, line, oint, dad>>
        /\ ~xfrc_in => todo' = todo
    BY <1>8 DEF handle_iepint, Section, Reached, bus, core, ep0
  <2> QED
    BY <1>t, <2>1 DEF ClearInv, Clear, Resetting, up
<1>9. CASE enumeration_done
  <2>1. /\ "enum" \in gint
        /\ UNCHANGED <<oint, xfrc_in, todo, dad>>
    BY <1>9 DEF enumeration_done, Section, Reached, ep0
  <2> QED
    BY <1>t, <2>1 DEF ClearInv, Clear
<1>10. CASE handle_reset
  <2>1. /\ "rst" \in gint /\ "iep" \notin gint /\ "oep" \notin gint
        /\ UNCHANGED <<oint, xfrc_in>> /\ todo' = -1 /\ dad' = 0
    BY <1>10 DEF handle_reset, Section, Reached, Earlier
  <2> QED
    BY <1>t, <2>1 DEF ClearInv, Clear
<1>11. CASE handle_rx_transfer
  <2>1. gint = {"rxf"} /\ gint' = {} /\ UNCHANGED <<bus, core, xfrc_in, dad>>
    BY <1>11, <1>t DEF handle_rx_transfer, Section, Reached, Earlier, Sections
  <2>2. Resetting => oint' = oint
    BY <1>11, <1>t DEF handle_rx_transfer
  <2> QED
    BY <1>t, <2>1, <2>2 DEF ClearInv, Clear, Resetting, up, bus, core, ep0
<1>12. CASE illegal
  BY <1>12, <1>u DEF illegal, Section, Reached, bus, core, ep0
<1>13. CASE HostPollsKeyboard \/ keyboard_process
  BY <1>13, <1>u DEF HostPollsKeyboard, keyboard_process, bus, core, ep0
<1>14. CASE UNCHANGED vars
  BY <1>14, <1>u DEF vars, bus, core, ep0
<1> QED
  BY NextCases, <1>1, <1>2, <1>3, <1>4, <1>5, <1>6, <1>7, <1>8, <1>9, <1>10,
     <1>11, <1>12, <1>13, <1>14 DEF HostMoves

(* What the handlers do to the transmit buffer of endpoint 0: they write to  *)
(* it only when it is free.                                                 *)
LEMMA BufferMoves ==
    ASSUME CoreTypeOK
    PROVE  /\ \A r, n : answer(r, n) =>
                  \/ UNCHANGED <<tx_ready, stat_tx>>
                  \/ tx_ready' = tx_ready /\ stat_tx' = "STALL"
                  \/ tx_ready = TRUE /\ tx_ready' = FALSE /\ stat_tx' = "VALID"
           /\ \A r : handle_rx_setup(r) =>
                  \/ UNCHANGED <<tx_ready, stat_tx>>
                  \/ tx_ready' = tx_ready /\ stat_tx' = "STALL"
                  \/ tx_ready = TRUE /\ tx_ready' = FALSE /\ stat_tx' = "VALID"
           /\ \A len : handle_rx_out(len) =>
                  \/ UNCHANGED <<tx_ready, stat_tx>>
                  \/ tx_ready' = tx_ready /\ stat_tx' = "STALL"
                  \/ tx_ready = TRUE /\ tx_ready' = FALSE /\ stat_tx' = "VALID"
           /\ handle_tx_ep0 =>
                  \/ tx_ready' = TRUE /\ stat_tx' = stat_tx
                  \/ tx_ready' = FALSE /\ stat_tx' = "VALID"
<1>t. tx_ready \in BOOLEAN
  BY DEF CoreTypeOK
<1>1. ASSUME NEW r, NEW n, answer(r, n)
      PROVE  \/ UNCHANGED <<tx_ready, stat_tx>>
             \/ tx_ready' = tx_ready /\ stat_tx' = "STALL"
             \/ tx_ready = TRUE /\ tx_ready' = FALSE /\ stat_tx' = "VALID"
  <2>1. CASE usb_stall
    BY <2>1 DEF usb_stall
  <2>2. ASSUME NEW m, NEW tr, usb_write_ep0(tx_ready, m, tr, 0, r)
        PROVE  \/ UNCHANGED <<tx_ready, stat_tx>>
               \/ tx_ready = TRUE /\ tx_ready' = FALSE /\ stat_tx' = "VALID"
    BY <1>t, <2>2 DEF usb_write_ep0, usb_write
  <2> QED
    BY <1>1, <2>1, <2>2 DEF answer
<1>2. ASSUME NEW r, handle_rx_setup(r)
      PROVE  \/ UNCHANGED <<tx_ready, stat_tx>>
             \/ tx_ready' = tx_ready /\ stat_tx' = "STALL"
             \/ tx_ready = TRUE /\ tx_ready' = FALSE /\ stat_tx' = "VALID"
  BY <1>1, <1>2 DEF handle_rx_setup, tx0
<1>3. ASSUME NEW len, handle_rx_out(len)
      PROVE  \/ UNCHANGED <<tx_ready, stat_tx>>
             \/ tx_ready' = tx_ready /\ stat_tx' = "STALL"
             \/ tx_ready = TRUE /\ tx_ready' = FALSE /\ stat_tx' = "VALID"
  BY <1>1, <1>3 DEF handle_rx_out, tx0, usb_stall
<1>4. ASSUME handle_tx_ep0
      PROVE  \/ tx_ready' = TRUE /\ stat_tx' = stat_tx
             \/ tx_ready' = FALSE /\ stat_tx' = "VALID"
  BY <1>4 DEF handle_tx_ep0, usb_write_ep0, usb_write
<1> QED
  BY <1>1, <1>2, <1>3, <1>4

LEMMA BufferStep ==
    ASSUME Known, [Next]_vars
    PROVE  BufferInv'
<1>t. /\ BufferInv /\ CoreTypeOK /\ tx_ready \in BOOLEAN /\ xfrc_in \in BOOLEAN
  BY KnownFacts DEF Known, PipeInv, Types
<1>u. ASSUME UNCHANGED <<tx_ready, xfrc_in>>,
             stat_tx' = stat_tx \/ stat_tx' # "VALID"
      PROVE  BufferInv'
  BY <1>t, <1>u DEF BufferInv
<1>1. ASSUME NEW r \in Requests, SetupArrives(r)
      PROVE  BufferInv'
  BY <1>1, <1>u DEF SetupArrives
<1>2. CASE \/ HostToken \/ HostOut \/ HostStalled \/ HostPollsKeyboard
           \/ EnumerationDone \/ dwc_otg_process \/ handle_rx_transfer
           \/ illegal \/ keyboard_process
  BY <1>2, <1>u
  DEF HostToken, HostOut, HostStalled, HostPollsKeyboard, EnumerationDone,
      dwc_otg_process, handle_rx_transfer, illegal, keyboard_process,
      core, tx0
<1>3. CASE UNCHANGED vars
  BY <1>3, <1>u DEF vars, core, tx0
<1>4. CASE BusReset
  BY <1>4, <1>u DEF BusReset
<1>5. CASE HostIn
  BY <1>5, <1>t DEF HostIn, BufferInv
<1>6. CASE handle_oepint
  <2>1. /\ xfrc_in' = xfrc_in
        /\ \/ UNCHANGED <<tx_ready, stat_tx>>
           \/ tx_ready' = tx_ready /\ stat_tx' = "STALL"
           \/ tx_ready = TRUE /\ tx_ready' = FALSE
    BY <1>6, <1>t, BufferMoves DEF handle_oepint
  <2> QED
    BY <1>t, <1>u, <2>1 DEF BufferInv
<1>7. CASE handle_iepint
  <2>1. xfrc_in' = FALSE
    BY <1>7 DEF handle_iepint
  <2>2. CASE xfrc_in
    <3>1. \/ tx_ready' = TRUE /\ stat_tx' = stat_tx
          \/ tx_ready' = FALSE
      BY <1>7, <1>t, <2>2, BufferMoves DEF handle_iepint
    <3> QED
      BY <1>t, <2>1, <2>2, <3>1 DEF BufferInv
  <2>3. CASE ~xfrc_in
    BY <1>7, <1>t, <2>1, <2>3 DEF handle_iepint, BufferInv, core, tx0
  <2> QED
    BY <2>2, <2>3
<1>8. CASE enumeration_done
  <2>1. ~xfrc_in
    BY <1>8
    DEF enumeration_done, Section, Reached, Known, PipeInv, ClearInv, Clear
  <2> QED
    BY <1>8, <2>1 DEF enumeration_done, configure_ep0, BufferInv
<1>9. CASE handle_reset
  BY <1>9 DEF handle_reset, BufferInv
<1> QED
  BY NextCases, <1>1, <1>2, <1>3, <1>4, <1>5, <1>6, <1>7, <1>8, <1>9,
     KnownFacts DEF HostSetup, HostResendsSetup

(* Outside a reset the phase tells what is about to be handled; during one, *)
(* what was on its way stays as it was.                                     *)
LEMMA ActStep ==
    ASSUME Known, Types', SafeInv', ~Resetting' => WireInv' /\ Phase',
           [Next]_vars
    PROVE  ActInv'
<1>t. ActInv /\ (Resetting => rxf = <<>> /\ hphase = "idle")
      /\ req'.in \in BOOLEAN
  BY KnownFacts, RequestType
  DEF Known, PipeInv, Types, CoreTypeOK
<1>1. CASE ~Resetting' /\ oint' # "none"
  <2>1. /\ rx_count' = 1 /\ oint' \in {"xfrc", "stup"} /\ Len(rxf') \in Nat
    BY <1>1 DEF SafeInv, RingInv, Types, DriverTypeOK
  <2>2. /\ Popped' = 2 /\ Total' = 2 + Len(rxf') /\ First' = rx_slot'
        /\ FirstEnd' = IF oint' = "stup" THEN "setup_comp" ELSE "data_comp"
    BY <1>1, <2>1 DEF Popped, Total, First, FirstEnd
  <2>3. /\ oint' = "stup" <=> First'.sts = "setup"
        /\ oint' = "xfrc" <=> First'.sts = "data"
    BY <1>1, <2>1, <2>2 DEF WireInv, Packet, EndOf
  <2>4. (Resting \/ Asking \/ Receiving)'
    BY <1>1, <2>1, <2>2 DEF Phase, Refusing, Replying, Acking
  <2>5. CASE Resting'
    BY <2>1, <2>2, <2>3, <2>5 DEF Resting, Leftover, ActInv
  <2>6. CASE Asking'
    BY <2>1, <2>2, <2>3, <2>6 DEF Asking, Leftover, ActInv
  <2>7. CASE Receiving'
    BY <2>1, <2>2, <2>3, <2>7 DEF Receiving, ActInv
  <2> QED
    BY <2>4, <2>5, <2>6, <2>7
<1>2. CASE oint' = "none"
  BY <1>2 DEF ActInv
<1>3. CASE Resetting' /\ oint' # "none"
  <2>u. ASSUME UNCHANGED <<oint, rx_slot, hreq, acted, req>>,
               data_len' = data_len \/ data_len' = -1
        PROVE  ActInv'
    BY <1>t, <2>u DEF ActInv
  <2>1. CASE BusReset
    BY <2>1, <2>u DEF BusReset, HostSeesReset, ep0
  <2>2. CASE \/ EnumerationDone \/ dwc_otg_process \/ illegal
             \/ keyboard_process \/ HostPollsKeyboard
    BY <2>2, <2>u
    DEF EnumerationDone, dwc_otg_process, illegal, keyboard_process,
        HostPollsKeyboard, core, ep0, host, xfer, rx0
  <2>3. CASE UNCHANGED vars
    BY <2>3, <2>u DEF vars, core, ep0, host, xfer, rx0
  <2>4. CASE handle_oepint
    BY <1>3, <2>4 DEF handle_oepint
  <2>5. CASE handle_iepint
    BY <2>5, <2>u
    DEF handle_iepint, handle_tx_ep0, core, ep0, host, xfer, rx0
  <2>6. CASE enumeration_done \/ handle_reset
    BY <2>6, <2>u DEF enumeration_done, handle_reset, ep0, host, xfer
  <2>7. CASE handle_rx_transfer
    <3>1. Resetting
      BY <1>3, <2>7 DEF handle_rx_transfer, Section, Reached, Resetting, up, bus
    <3> QED
      BY <1>t, <2>7, <2>u, <3>1
      DEF handle_rx_transfer, core, ep0, host, xfer
  <2>8. ASSUME NEW r \in Requests, HostSetup(r) PROVE FALSE
    BY <1>3, <2>8 DEF HostSetup, SetupArrives, Resetting, up, bus
  <2>9. CASE HostResendsSetup \/ HostMoves
    <3>1. hphase # "idle"
      BY <2>9
      DEF HostMoves, HostResendsSetup, HostToken, HostIn, HostTakesPacket,
          HostExpectsIn, HostOut, HostSendsOut, HostStalled, HostTakesStall
    <3>2. ~Resetting'
      BY <1>t, <2>9, <3>1
      DEF HostMoves, HostResendsSetup, SetupArrives, HostToken, HostIn,
          HostOut, HostStalled, Resetting, up, bus
    <3> QED
      BY <1>3, <3>2
  <2> QED
    BY NextCases, <2>1, <2>2, <2>3, <2>4, <2>5, <2>6, <2>7, <2>8, <2>9
    DEF HostMoves
<1> QED
  BY <1>1, <1>2, <1>3
-----------------------------------------------------------------------------
(* The refinement.                                                          *)

LEMMA EveryStep ==
    ASSUME ~Abort, ~Resends, Known, [Next]_vars
    PROVE  PipeStep
<1>1. ~HostResendsSetup
  BY DEF HostResendsSetup
<1> QED
  BY <1>1, NextCases, SetupStep, TokenStep, InStep, OutStep, StalledStep,
     BusResetStep, HandleResetStep, ConfiguredStep, PollStep, QuietStep,
     PopStep, SentStep, OepStep

LEMMA KnownInit == Init => Known /\ Pipe!Init
<1> SUFFICES ASSUME Init PROVE Known /\ Pipe!Init
  OBVIOUS
<1>1. Types /\ DeafInv /\ SafeInv
  BY InitTypes, DeafInit, SafeInit
<1>2. PipeInv
  BY DEF Init, HostInit, PipeInv, ClearInv, BufferInv, ActInv, Resetting, up
<1>3. Pipe!Init
  BY DEF Init, HostInit, Pipe!Init
<1> QED
  BY <1>1, <1>2, <1>3 DEF Known

LEMMA KnownStep ==
    ASSUME ~Abort, ~Resends, Known, [Next]_vars
    PROVE  Known' /\ [Pipe!Next]_(Pipe!vars)
<1>1. Types' /\ DeafInv' /\ SafeInv'
  BY TypeStep, DeafStep, SafeStep DEF Known, HostResendsSetup
<1>2. PipeStep
  BY EveryStep
<1>3. ClearInv' /\ BufferInv'
  BY ClearStep, BufferStep
<1>4. ActInv'
  BY <1>1, <1>2, ActStep DEF PipeStep
<1> QED
  BY <1>1, <1>2, <1>3, <1>4 DEF Known, PipeInv, PipeStep

(* With this controller too, each transfer of the host gets the whole reply *)
(* to its own request and nothing else, succeeds only after the device      *)
(* acted on it, once, and is refused only if it is not handled: PipeSpec of *)
(* DwcTransfers, and the lost acknowledgements that no run has with it      *)
(* (hw_dwc_otg.c:177-412, core.c:149-247).                                  *)
THEOREM DwcImplementsPipe ==
    ASSUME ~Abort, ~Resends
    PROVE  Spec => PipeSpec
<1>1. Init => Known /\ Pipe!Init
  BY KnownInit
<1>2. Known /\ [Next]_vars => Known' /\ [Pipe!Next]_(Pipe!vars)
  BY KnownStep
<1> QED
  BY <1>1, <1>2, PTL DEF Spec, PipeSpec, Pipe!Spec

-----------------------------------------------------------------------------
(* The soft state agrees with the controller and the host.                  *)

FlagInv ==
    /\ ~dup
    /\ ~Resetting => (tx_ready <=> ~(stat_tx = "VALID" \/ xfrc_in))
    /\ ~Resetting /\ hphase = "idle" => stat_tx # "VALID"

\* The device takes its new address before the host does.
AddrInv ==
    IF Resetting THEN haddr = 0
    ELSE dad = IF hphase # "idle" /\ hreq.act = "setaddr" /\ acted = "yes"
               THEN hreq.addr ELSE haddr

LEMMA AddrStep ==
    ASSUME ~Abort, ~Resends, Known, AddrInv, [Next]_vars
    PROVE  AddrInv'
<1>u. ASSUME UNCHANGED <<dad, haddr, hphase, hreq, acted>>,
             Resetting' <=> Resetting
      PROVE  AddrInv'
  BY <1>u DEF AddrInv
<1>r. ASSUME Resetting, haddr' = haddr, Resetting' PROVE AddrInv'
  BY <1>r DEF AddrInv
<1>1. ASSUME NEW r \in Requests, HostSetup(r)
      PROVE  AddrInv'
  BY <1>1 DEF HostSetup, SetupArrives, HostBegins, AddrInv, Resetting, bus, up
<1>2. ~HostResendsSetup
  BY DEF HostResendsSetup
<1>3. CASE HostToken
  BY <1>3, <1>u DEF HostToken, Resetting, up, bus, host, xfer
<1>4. CASE HostIn
  <2>1. /\ UNCHANGED <<dad, hreq, acted>> /\ HostTakesPacket
        /\ stat_tx = "VALID" /\ ~stall
        /\ Resetting' <=> Resetting
    BY <1>4
    DEF HostIn, HostTakesPacket, HostTakesData, HostTakesStatus, xfer,
        Resetting, up, bus
  <2>2. ~Resetting /\ acted = "yes" /\ hphase # "idle"
    <3>1. hphase # "idle"
      BY <2>1 DEF HostTakesPacket, HostExpectsIn
    <3>2. ~Resetting /\ Phase
      BY <3>1, KnownFacts
    <3>3. Replying \/ Acking
      BY <2>1, <3>1, <3>2 DEF Phase, Resting, Asking, Receiving, Refusing
    <3> QED
      BY <3>1, <3>2, <3>3 DEF Replying, Acking, SendsReply, SendsStatus
  <2>3. CASE HostTakesData
    <3>1. hphase' # "idle" /\ haddr' = haddr
      BY <2>3 DEF HostTakesData
    <3> QED
      BY <2>1, <2>2, <3>1 DEF AddrInv
  <2>4. CASE HostTakesStatus
    BY <2>1, <2>2, <2>4 DEF HostTakesStatus, AddrInv
  <2>5. CASE UNCHANGED xfer
    BY <1>u, <2>1, <2>5 DEF xfer
  <2> QED
    BY <2>1, <2>3, <2>4, <2>5 DEF HostTakesPacket
<1>5. CASE HostOut
  <2>1. /\ UNCHANGED <<dad, hreq, haddr, acted>> /\ hphase # "idle"
        /\ \/ hphase' # "idle"
           \/ hreq.in
        /\ Resetting' <=> Resetting
    BY <1>5 DEF HostOut, HostSendsOut, Resetting, up, bus
  <2>2. hreq.in => hreq.act # "setaddr"
    BY KnownFacts, CoreAssumption
  <2> QED
    BY <2>1, <2>2 DEF AddrInv
<1>6. CASE HostStalled
  <2>1. /\ UNCHANGED <<dad, hreq, haddr, acted>> /\ hphase # "idle" /\ stall
        /\ Resetting' <=> Resetting
    BY <1>6 DEF HostStalled, HostTakesStall, Resetting, up, bus
  <2>2. acted = "no"
    BY <2>1, KnownFacts
    DEF Phase, Resting, Asking, Receiving, Refusing, Refuses, Replying, Acking
  <2> QED
    BY <2>1, <2>2 DEF AddrInv
<1>7. CASE HostPollsKeyboard \/ keyboard_process \/ illegal
  BY <1>7, <1>u
  DEF HostPollsKeyboard, keyboard_process, illegal, Section, Reached, Resetting,
      up, bus, host, xfer
<1>8. CASE BusReset
  BY <1>8 DEF BusReset, HostSeesReset, AddrInv, Resetting, up
<1>9. CASE EnumerationDone
  <2>1. Resetting /\ Resetting' /\ haddr' = haddr
    BY <1>9 DEF EnumerationDone, Resetting, up, host, xfer
  <2> QED
    BY <1>r, <2>1
<1>10. CASE dwc_otg_process
  <2>1. Resetting' <=> Resetting
    BY <1>10, KnownFacts DEF dwc_otg_process, Sections, Resetting, up, bus
  <2> QED
    BY <1>10, <1>u, <2>1 DEF dwc_otg_process, host, xfer
<1>11. CASE handle_oepint
  <2>1. /\ UNCHANGED <<hphase, hreq, haddr>> /\ (Resetting' <=> Resetting)
    BY <1>11, OepCases
  <2>2. CASE Resetting
    BY <1>r, <2>1, <2>2
  <2>3. CASE ~Resetting /\ no_request
    BY <1>u, <2>1, <2>3 DEF no_request
  <2>4. CASE ~Resetting /\ ~no_request
    <3>1. hphase # "idle" /\ accept(hreq) /\ acted = "no"
      <4>1. CASE /\ oint = "stup" /\ accept(rx_slot.req)
        <5>1. rx_slot.req = hreq
          BY <4>1 DEF Known, PipeInv, ActInv
        <5>2. Asking /\ hn \in Nat
          BY <1>11, <2>4, <4>1, OepPhase, KnownFacts
        <5> QED
          BY <4>1, <5>1, <5>2 DEF Asking
      <4>2. CASE oint = "xfrc" /\ data_ready(rx_slot.len) /\ accept(req)
        <5>1. Receiving
          BY <1>11, <2>4, <4>2, OepPhase DEF data_ready
        <5> QED
          BY <4>2, <5>1 DEF Receiving
      <4> QED
        BY <1>11, <2>4, <4>1, <4>2, OepCases
    <3>2. acted' = "yes" /\ acted = "no"
      BY <3>1 DEF accept, DeviceActs
    <3>3. dad' = IF hreq.act = "setaddr" THEN hreq.addr ELSE dad
      BY <3>1 DEF accept
    <3> QED
      BY <2>1, <2>4, <3>1, <3>2, <3>3 DEF AddrInv
  <2> QED
    BY <2>2, <2>3, <2>4
<1>12. CASE handle_iepint \/ handle_rx_transfer
  <2>1. Resetting' <=> Resetting
    BY <1>12
    DEF handle_iepint, handle_rx_transfer, Section, Reached, Resetting, up, bus
  <2> QED
    BY <1>12, <1>u, <2>1 DEF handle_iepint, handle_rx_transfer, host, xfer
<1>13. CASE enumeration_done
  <2>1. Resetting /\ dad = 0 /\ hphase = "idle"
    BY <1>13, KnownFacts
    DEF enumeration_done, Section, Reached, Resetting, Known, PipeInv,
        ClearInv, Clear
  <2> QED
    BY <1>13, <2>1 DEF enumeration_done, host, xfer, AddrInv
<1>14. CASE handle_reset
  <2>1. line = "reset" /\ Resetting
    BY <1>14
    DEF handle_reset, Section, Reached, Known, SafeInv, ResetInv, Resetting,
        up
  <2> QED
    BY <1>14, <1>r, <2>1 DEF handle_reset, Resetting, up, host, xfer
<1>15. CASE UNCHANGED vars
  BY <1>15, <1>u DEF vars, Resetting, up, bus, host, xfer
<1> QED
  BY NextCases, <1>1, <1>2, <1>3, <1>4, <1>5, <1>6, <1>7, <1>8, <1>9, <1>10,
     <1>11, <1>12, <1>13, <1>14, <1>15
LEMMA FlagStep ==
    ASSUME ~Abort, ~Resends, ~Lossy, Known, FlagInv, [Next]_vars
    PROVE  FlagInv'
<1>k. Known'
  BY KnownStep
<1>t. /\ tx_ready \in BOOLEAN /\ xfrc_in \in BOOLEAN /\ BufferInv
      /\ ~Resetting => Phase
      /\ Resetting => hphase = "idle"
      /\ CoreTypeOK
  BY KnownFacts DEF Known, PipeInv, Types
<1>u. ASSUME UNCHANGED <<tx_ready, stat_tx, xfrc_in, dup>>,
             Resetting' <=> Resetting,
             hphase' = hphase \/ hphase' # "idle" \/ stat_tx # "VALID"
      PROVE  FlagInv'
  BY <1>u DEF FlagInv
<1>r. ASSUME Resetting', dup' => dup PROVE FlagInv'
  BY <1>r DEF FlagInv
<1>1. ASSUME NEW r \in Requests, HostSetup(r)
      PROVE  FlagInv'
  <2>1. ~Resetting /\ hphase = "idle"
    BY <1>1 DEF HostSetup, HostBegins, Resetting
  <2> QED
    BY <1>1, <2>1
    DEF HostSetup, SetupArrives, HostBegins, FlagInv, Resetting, up, bus
<1>2. ~HostResendsSetup
  BY DEF HostResendsSetup
<1>3. CASE \/ HostToken \/ HostPollsKeyboard \/ illegal
           \/ keyboard_process \/ handle_rx_transfer
  <2>1. Resetting' <=> Resetting
    BY <1>3
    DEF HostToken, HostPollsKeyboard, illegal, keyboard_process,
        handle_rx_transfer, Section, Reached, Resetting, up, bus
  <2> QED
    BY <1>3, <1>u, <2>1
    DEF HostToken, HostPollsKeyboard, illegal, keyboard_process,
        handle_rx_transfer, core, tx0, host, xfer
<1>4. CASE HostIn
  <2>1. /\ stat_tx = "VALID" /\ stat_tx' = "NAK" /\ dup' = FALSE
        /\ xfrc_in' = TRUE /\ tx_ready' = tx_ready
        /\ HostExpectsIn
    BY <1>4 DEF HostIn, HostTakesPacket
  <2>2. ~tx_ready
    BY <2>1, <1>t DEF BufferInv
  <2> QED
    BY <2>1, <2>2 DEF FlagInv
<1>5. CASE HostOut
  <2>1. /\ UNCHANGED <<tx_ready, stat_tx, xfrc_in, dup>>
        /\ Resetting' <=> Resetting
        /\ HostSendsOut /\ hphase # "idle" /\ ~stall
    BY <1>5 DEF HostOut, HostSendsOut, core, tx0, Resetting, up, bus
  <2>2. CASE hphase' = "idle"
    <3>1. hphase = "status" /\ hreq.in /\ hreq.wLength > 0
      BY <2>1, <2>2 DEF HostSendsOut
    <3>2. Asking \/ Replying
      BY <1>t, <2>1, <3>1, KnownFacts
      DEF Phase, Resting, Receiving, Refusing, Acking, SendsStatus
    <3>3. stat_tx # "VALID"
      <4>1. CASE Asking
        BY <4>1 DEF Asking
      <4>2. CASE Replying
        BY <2>1, <3>1, <4>2, StatusSent, KnownFacts DEF Replying, FlagInv
      <4> QED
        BY <3>2, <4>1, <4>2
    <3> QED
      BY <1>u, <2>1, <3>3
  <2> QED
    BY <1>u, <2>1, <2>2
<1>6. CASE HostStalled
  <2>1. /\ UNCHANGED <<tx_ready, stat_tx, xfrc_in, dup>>
        /\ Resetting' <=> Resetting
        /\ hphase # "idle" /\ stall
    BY <1>6 DEF HostStalled, HostTakesStall, core, tx0, Resetting, up, bus
  <2>2. stat_tx # "VALID"
    BY <1>t, <2>1
    DEF Phase, Resting, Asking, Receiving, Refusing, Refuses, Replying, Acking
  <2> QED
    BY <1>u, <2>1, <2>2
<1>7. CASE BusReset
  BY <1>7, <1>r DEF BusReset, HostSeesReset, Resetting, up
<1>8. CASE EnumerationDone
  BY <1>8, <1>r DEF EnumerationDone, host, Resetting
<1>9. CASE dwc_otg_process
  <2>1. Resetting' <=> Resetting
    BY <1>9, KnownFacts DEF dwc_otg_process, Sections, Resetting, up, bus
  <2> QED
    BY <1>9, <1>u, <2>1 DEF dwc_otg_process, core, tx0, host, xfer
<1>10. CASE handle_oepint
  <2>1. /\ UNCHANGED <<dup, hphase, xfrc_in>> /\ (Resetting' <=> Resetting)
    BY <1>10, OepCases DEF handle_oepint
  <2>2. CASE Resetting
    BY <1>r, <2>1, <2>2
  <2>3. CASE ~Resetting
    <3>1. stat_tx # "VALID"
      <4>1. Total # 0
        BY <1>10, <2>3, OepPhase
      <4>2. Resting \/ Asking \/ Receiving
        BY <1>t, <2>3, <4>1 DEF Phase, Refusing, Replying, Acking
      <4> QED
        BY <2>3, <4>2 DEF Resting, Asking, Receiving, FlagInv
    <3>2. \/ UNCHANGED <<tx_ready, stat_tx>>
          \/ tx_ready' = tx_ready /\ stat_tx' = "STALL"
          \/ tx_ready = TRUE /\ tx_ready' = FALSE /\ stat_tx' = "VALID"
      BY <1>10, <1>t, BufferMoves DEF handle_oepint
    <3>3. CASE hphase = "idle"
      <4>1. Resting /\ Total # 0
        BY <1>10, <2>3, <3>3, IdleRests, OepPhase
      <4>2. First.sts = "data" /\ req.in /\ data_len >= 0 /\ data_len \in Int
        BY <4>1, KnownFacts DEF Resting, Leftover
      <4>3. handle_rx_out(rx_slot.len)
        BY <1>10, <2>3, <4>2, OepCases, OepPhase, WireReads
      <4>4. UNCHANGED <<tx_ready, stat_tx>>
        BY <4>2, <4>3 DEF handle_rx_out, data_ready, tx0
      <4> QED
        BY <1>u, <2>1, <4>4
    <3>4. CASE hphase # "idle"
      BY <2>1, <2>3, <3>1, <3>2, <3>4 DEF FlagInv
    <3> QED
      BY <3>3, <3>4
  <2> QED
    BY <2>2, <2>3
<1>11. CASE handle_iepint
  <2>1. /\ UNCHANGED <<dup, hphase>> /\ (Resetting' <=> Resetting)
        /\ xfrc_in' = FALSE
    BY <1>11 DEF handle_iepint, Section, Reached, Resetting, up, bus, host, xfer
  <2>2. CASE Resetting
    BY <1>r, <2>1, <2>2
  <2>3. CASE ~xfrc_in
    BY <1>11, <1>t, <1>u, <2>1, <2>3 DEF handle_iepint, core, tx0
  <2>4. CASE ~Resetting /\ xfrc_in
    <3>1. handle_tx_ep0 /\ stat_tx # "VALID"
      BY <1>11, <1>t, <2>4 DEF handle_iepint, BufferInv
    <3>2. \/ tx_ready' = TRUE /\ stat_tx' = stat_tx
          \/ tx_ready' = FALSE /\ stat_tx' = "VALID"
      BY <1>t, <3>1, BufferMoves
    <3>3. hphase = "idle" => stat_tx' = stat_tx
      <4>1. hphase = "idle" => todo = -1
        BY <2>4, IdleRests DEF Resting
      <4> QED
        BY <3>1, <4>1 DEF handle_tx_ep0, usb_write_ep0
    <3> QED
      BY <2>1, <2>4, <3>1, <3>2, <3>3 DEF FlagInv
  <2> QED
    BY <1>t, <2>2, <2>3, <2>4
<1>12. CASE enumeration_done
  <2>1. ~xfrc_in
    BY <1>12
    DEF enumeration_done, Section, Reached, Known, PipeInv, ClearInv, Clear
  <2> QED
    BY <1>12, <2>1 DEF enumeration_done, configure_ep0, FlagInv, host
<1>13. CASE handle_reset
  <2>1. line = "reset"
    BY <1>13 DEF handle_reset, Section, Reached, Known, SafeInv, ResetInv
  <2> QED
    BY <1>13, <1>r, <2>1 DEF handle_reset, Resetting, up, host
<1>14. CASE UNCHANGED vars
  BY <1>14, <1>u DEF vars, core, tx0, host, xfer, Resetting, up, bus
<1> QED
  BY NextCases, <1>1, <1>2, <1>3, <1>4, <1>5, <1>6, <1>7, <1>8, <1>9, <1>10,
     <1>11, <1>12, <1>13, <1>14

(* The soft flag of the transmit buffer agrees with the controller, and the *)
(* device's address with the host's between transfers: Accounted of         *)
(* DwcTransfers (hw_dwc_otg.c:227-239, 397-410, 298-304).                   *)
THEOREM DwcAccounted ==
    ASSUME ~Abort, ~Resends, ~Lossy
    PROVE  Spec => []Accounted
<1>1. Init => Known /\ FlagInv /\ AddrInv
  <2>1. Init => FlagInv /\ AddrInv
    BY DEF Init, HostInit, FlagInv, AddrInv, Resetting, up
  <2> QED
    BY <2>1, KnownInit
<1>2. Known /\ FlagInv /\ AddrInv /\ [Next]_vars
        => (Known /\ FlagInv /\ AddrInv)'
  BY KnownStep, FlagStep, AddrStep
<1>3. FlagInv /\ AddrInv => Accounted
  BY DEF FlagInv, AddrInv, Accounted
<1> QED
  BY <1>1, <1>2, <1>3, PTL DEF Spec
=============================================================================
