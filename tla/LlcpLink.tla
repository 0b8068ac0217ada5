------------------------------ MODULE LlcpLink ------------------------------
(***************************************************************************)
(* The LLCP link of libnfc-nci (llcp_link.cc, llcp_sdp.cc, the link part   *)
(* of llcp_api.cc and llcp_util.cc) with the NFA P2P functions that use    *)
(* its logical link: two devices, each running this code, activate a link  *)
(* over an RF connection, keep it alive by the symmetry procedure, send    *)
(* UI PDUs, look up services, and deactivate it; the RF connection may be  *)
(* lost and made again.                                                    *)
(*                                                                         *)
(* A device is single threaded: its control block is one record and a      *)
(* handler is an operator from that record to the next one.  No data link  *)
(* connection is in use (module LlcpDlc models one), the upper layer does  *)
(* not call the API from a callback (NFA posts a message to itself), and   *)
(* GKI_getpoolbuf does not fail.                                           *)
(*                                                                         *)
(* total_tx_ui_pdu and total_rx_ui_pdu are not kept: they are the sums of  *)
(* the queue lengths.  Ghost data: "session" numbers the RF connections    *)
(* and marks the PDUs of each; "reports" counts LLCP_LINK_DEACTIVATED_EVT  *)
(* since the link was last activated, up to 2.                             *)
(***************************************************************************)
EXTENDS Integers, Sequences, FiniteSets

CONSTANTS
    Initiator, Target,     \* the two devices
    NumSaps,               \* logical links of a device, SAPs 1..NumSaps
    Environments           \* what may surround LLCP: see Environment

Node == {Initiator, Target}

Peer(n) == IF n = Initiator THEN Target ELSE Initiator

Sap == 1..NumSaps

(* Calls of the upper layer (ui_early: data offered while the link is not  *)
(* activated), loss of RF, an interface error of the NFCC, and general     *)
(* bytes that are refused.                                                 *)
Use == {"ui", "ui_early", "sdp", "deactivate", "rfloss", "error", "refuse"}

(* The uses of each device; whether delay_first_pdu_timeout, symm_delay    *)
(* and the inactivity timeout are above 0; whether the link timeout may    *)
(* expire although the peer is still going to answer; thresholds of the    *)
(* congestion of logical links; and the bounds of the model: PDUs of one   *)
(* transmission, SDUs, requests and calls per device, RF connections.      *)
Environment ==
    [name : STRING, uses : [Node -> SUBSET Use],
     first_delay : BOOLEAN, symm_delay : BOOLEAN, inact : BOOLEAN, late : BOOLEAN,
     ll_tx_congest_start : Nat, ll_tx_congest_end : Nat, max_num_ll_tx_buff : Nat,
     max_num_tx_buff : Nat, ll_rx_congest_start : Nat,
     max_agf : Nat, max_ui : Nat, max_sdp : Nat, max_deact : Nat, max_session : Nat]

ASSUME NodeAssumption == Initiator # Target
ASSUME SapAssumption == NumSaps \in Nat \ {0}
ASSUME EnvAssumption == Environments \subseteq Environment

VARIABLES
    node,      \* the control block of each device
    carrier,   \* the RF connection exists
    session,   \* RF connections made so far
    env        \* the environment of this behaviour, chosen at the start

vars == <<node, carrier, session, env>>
-----------------------------------------------------------------------------
(* Data.                                                                   *)

LINK_STATE == {"DEACTIVATED", "DEACTIVATING", "ACTIVATION_FAILED", "ACTIVATED"}

REASON == {"none", "LOCAL_INITIATED", "REMOTE_INITIATED", "TIMEOUT", "RF_LINK_LOSS_ERR",
           "RF_LINK_LOSS_NO_RX_LLC", "NFCC_ERROR"}

(* An SNL PDU carries service requests and responses.                      *)
Item == [type : {"SDREQ", "SDRES"}, tid : Nat]

Pdu == {p \in [ptype : {"DISC", "SNL", "UI"}, items : Seq(Item), sap : Sap \union {0},
               sdu : Nat, session : Nat] : p.ptype = "UI" => p.sap \in Sap}

(* One transmission: a SYMM without PDUs, one PDU, an AGF, or the one byte *)
(* of llcp_link_send_invalid_pdu.                                          *)
Frame == [invalid : BOOLEAN, pdus : Seq(Pdu)]

Symm == [invalid |-> FALSE, pdus |-> <<>>]

(* The UI PDUs in one receive buffer.                                      *)
RxBuffer == Seq(Pdu) \ {<<>>}

(* The logical link of a SAP: tLLCP_APP_CB, and the SAP of NFA P2P: its    *)
(* flag NFA_P2P_SAP_FLAG_LLINK_CONGESTED and the SDUs posted to the task.  *)
LogicalLink == [ui_xmit_q : Seq(Pdu), ui_rx_q : Seq(RxBuffer), is_ui_tx_congested : BOOLEAN,
                nfa_congested : BOOLEAN, pending : Seq(Nat)]

ControlBlock ==
    [link_state : LINK_STATE, symm_state : {"LOCAL_XMIT_NEXT", "REMOTE_XMIT_NEXT"},
     timer : {"none", "LINK_MANAGER", "DELAY_FIRST_PDU"}, inact_timer : BOOLEAN,
     rx_any : BOOLEAN, deact_reason : REASON, cback : BOOLEAN,
     sig_xmit_q : Seq(Pdu), ll : [Sap -> LogicalLink], ll_idx : Sap,
     overall_tx_congested : BOOLEAN,
     transac : SUBSET Nat, next_tid : Nat, p_snl : Seq(Item),
     rf : {"off", "starting", "on"}, rx_started : BOOLEAN, rf_deactivate : BOOLEAN,
     out : Seq(Frame), nui : Nat, nsdp : Nat, ndeact : Nat, reports : 0..2]

NewLink == [ui_xmit_q |-> <<>>, ui_rx_q |-> <<>>, is_ui_tx_congested |-> FALSE,
            nfa_congested |-> FALSE, pending |-> <<>>]

NewBlock ==
    [link_state |-> "DEACTIVATED", symm_state |-> "LOCAL_XMIT_NEXT",
     timer |-> "none", inact_timer |-> FALSE, rx_any |-> FALSE, deact_reason |-> "none",
     cback |-> FALSE, sig_xmit_q |-> <<>>, ll |-> [sap \in Sap |-> NewLink], ll_idx |-> 1,
     overall_tx_congested |-> FALSE, transac |-> {}, next_tid |-> 0, p_snl |-> <<>>,
     rf |-> "off", rx_started |-> FALSE, rf_deactivate |-> FALSE,
     out |-> <<>>, nui |-> 0, nsdp |-> 0, ndeact |-> 0, reports |-> 0]

Init ==
    /\ env \in Environments
    /\ node = [n \in Node |-> NewBlock]
    /\ carrier = FALSE /\ session = 0

(* What the environment of a handler decides: how many PDUs fit in one     *)
(* transmission, whether an item fits in the pending SNL and a UI PDU in   *)
(* the last buffer, and whether NFC_FlushData finds the frame unsent.      *)
Choice == [agf : 1..env.max_agf, fits : BOOLEAN, flushed : BOOLEAN]

NewPdu(ptype) == [ptype |-> ptype, items |-> <<>>, sap |-> 0, sdu |-> 0, session |-> session]

TotalTxUi(s) ==
    LET sum[k \in 0..NumSaps] == IF k = 0 THEN 0 ELSE sum[k - 1] + Len(s.ll[k].ui_xmit_q)
    IN sum[NumSaps]
-----------------------------------------------------------------------------
(* Congestion of logical links.                                            *)

(* NFA P2P follows the congestion events of its SAPs.                      *)
SetCongested(s, saps, v) ==
    [s EXCEPT !.ll = [sap \in Sap |->
        IF sap \in saps THEN [@[sap] EXCEPT !.is_ui_tx_congested = v, !.nfa_congested = v]
                        ELSE @[sap]]]

CheckCongestion(s) ==
    IF ~s.overall_tx_congested /\ TotalTxUi(s) >= env.max_num_tx_buff
      THEN SetCongested([s EXCEPT !.overall_tx_congested = TRUE],
                        {sap \in Sap : ~s.ll[sap].is_ui_tx_congested}, TRUE)
      ELSE s

(* Faulty variant: the queue must be shorter than the threshold.           *)
CheckUncongested_Below(s) ==
    LET s1 == [s EXCEPT !.overall_tx_congested = FALSE]
    IN IF TotalTxUi(s) < env.max_num_ll_tx_buff
         THEN SetCongested(s1, {sap \in Sap :
                /\ s.ll[sap].is_ui_tx_congested
                /\ Len(s.ll[sap].ui_xmit_q) < env.ll_tx_congest_end}, FALSE)
         ELSE s1

CheckUncongested(s) ==
    LET s1 == [s EXCEPT !.overall_tx_congested = FALSE]
    IN CASE s.overall_tx_congested /\ TotalTxUi(s) > env.max_num_tx_buff \div 2 -> s
         [] OTHER ->
              IF TotalTxUi(s) < env.max_num_ll_tx_buff
                THEN SetCongested(s1, {sap \in Sap :
                       /\ s.ll[sap].is_ui_tx_congested
                       /\ Len(s.ll[sap].ui_xmit_q) <= env.ll_tx_congest_end}, FALSE)
                ELSE s1
-----------------------------------------------------------------------------
(* Sending.                                                                *)

(* NFC_SendData; what is sent without RF is lost.                          *)
SendData(s, frame) == IF carrier THEN [s EXCEPT !.out = Append(@, frame)] ELSE s

(* Faulty variant: the sender keeps the turn.                              *)
SendToLower_KeepsTurn(s, frame) == SendData(s, frame)

(* llcp_link_send_to_lower.                                                *)
SendToLower(s, frame) == SendData([s EXCEPT !.symm_state = "REMOTE_XMIT_NEXT"], frame)

(* A pending SNL goes to the signalling queue.                             *)
CheckSendSnl(s) ==
    IF s.p_snl = <<>> THEN s
    ELSE [s EXCEPT !.p_snl = <<>>,
                   !.sig_xmit_q = Append(@, [NewPdu("SNL") EXCEPT !.items = s.p_snl])]

(* The SAP served next: the first one from ll_idx on with a UI PDU.        *)
Cyclic(s, d) == ((s.ll_idx - 1 + d) % NumSaps) + 1

NextSap(s) ==
    LET ds == {d \in 0..(NumSaps - 1) : s.ll[Cyclic(s, d)].ui_xmit_q # <<>>}
    IN Cyclic(s, CHOOSE d \in ds : \A e \in ds : d <= e)

NothingToSend(s) == s.sig_xmit_q = <<>> /\ TotalTxUi(s) = 0

(* Signalling PDUs first, then UI PDUs in round robin.                     *)
GetNextPdu(b) ==
    CASE b.s.sig_xmit_q # <<>> ->
           [s |-> [b.s EXCEPT !.sig_xmit_q = Tail(@)],
            pdus |-> Append(b.pdus, Head(b.s.sig_xmit_q))]
      [] b.s.sig_xmit_q = <<>> /\ ~NothingToSend(b.s) ->
           LET sap == NextSap(b.s)
           IN [s |-> [b.s EXCEPT !.ll[sap].ui_xmit_q = Tail(@), !.ll_idx = (sap % NumSaps) + 1],
               pdus |-> Append(b.pdus, Head(b.s.ll[sap].ui_xmit_q))]
      [] NothingToSend(b.s) -> b

BuildNextPdu(s, k) ==
    LET built[j \in 0..k] == IF j = 0 THEN [s |-> CheckSendSnl(s), pdus |-> <<>>]
                             ELSE GetNextPdu(built[j - 1])
    IN built[k]

StartLinkTimer(s) == [s EXCEPT !.timer = "LINK_MANAGER"]

StartInactivityTimer(s) == [s EXCEPT !.inact_timer = @ \/ env.inact]

(* Faulty variant: the link timer is not started after a SYMM.             *)
CheckSendData_NoTimer(s, c) ==
    LET s1 == CheckCongestion(s)
        b == BuildNextPdu(s1, c.agf)
    IN CASE s1.symm_state = "REMOTE_XMIT_NEXT" -> s1
         [] s1.symm_state = "LOCAL_XMIT_NEXT" /\ b.pdus # <<>> ->
              CheckUncongested([SendToLower(b.s, [invalid |-> FALSE, pdus |-> b.pdus])
                                  EXCEPT !.inact_timer = FALSE])
         [] s1.symm_state = "LOCAL_XMIT_NEXT" /\ b.pdus = <<>> /\ s1.link_state = "ACTIVATED" ->
              IF env.symm_delay THEN StartLinkTimer(b.s)
              ELSE StartInactivityTimer(SendToLower(b.s, Symm))
         [] OTHER -> b.s

(* The timer started after a transmission is the link timeout, or 50 ms in *)
(* DEACTIVATING; with nothing to send, the timer waits for data (then a    *)
(* SYMM is sent) or a SYMM is sent at once.                                *)
CheckSendData(s, c) ==
    LET s1 == CheckCongestion(s)
        b == BuildNextPdu(s1, c.agf)
    IN CASE s1.symm_state = "REMOTE_XMIT_NEXT" -> s1
         [] s1.symm_state = "LOCAL_XMIT_NEXT" /\ b.pdus # <<>> ->
              StartLinkTimer(CheckUncongested(
                [SendToLower(b.s, [invalid |-> FALSE, pdus |-> b.pdus])
                   EXCEPT !.inact_timer = FALSE]))
         [] s1.symm_state = "LOCAL_XMIT_NEXT" /\ b.pdus = <<>> /\ s1.link_state = "ACTIVATED" ->
              IF env.symm_delay THEN StartLinkTimer(b.s)
              ELSE StartLinkTimer(StartInactivityTimer(SendToLower(b.s, Symm)))
         [] OTHER -> b.s
-----------------------------------------------------------------------------
(* Deactivation.                                                           *)

(* Faulty variant: the pending service requests are forgotten unreported.  *)
DeactivateCleanup_KeepsSdp(n, s, reason) ==
    [s EXCEPT !.next_tid = 0, !.p_snl = <<>>,
              !.ll = [sap \in Sap |-> [@[sap] EXCEPT !.nfa_congested = FALSE]],
              !.link_state = "DEACTIVATED", !.timer = "none", !.inact_timer = FALSE,
              !.reports = IF @ < 2 THEN @ + 1 ELSE @,
              !.rf_deactivate = @ \/ n = Initiator]

(* Pending service requests fail, every SAP hears that the link is down    *)
(* (NFA P2P then clears its congestion flag), and NFA P2P deactivates the  *)
(* RF link of an initiator that still has one.                             *)
DeactivateCleanup(n, s, reason) ==
    [s EXCEPT !.transac = {}, !.next_tid = 0, !.p_snl = <<>>,
              !.ll = [sap \in Sap |-> [@[sap] EXCEPT !.nfa_congested = FALSE]],
              !.link_state = "DEACTIVATED", !.timer = "none", !.inact_timer = FALSE,
              !.reports = IF @ < 2 THEN @ + 1 ELSE @,
              !.rf_deactivate = @ \/ (/\ n = Initiator
                                      /\ reason \notin {"RF_LINK_LOSS_ERR",
                                                        "RF_LINK_LOSS_NO_RX_LLC"})]

FlushQueues(s) ==
    [s EXCEPT !.sig_xmit_q = <<>>, !.overall_tx_congested = FALSE,
              !.ll = [sap \in Sap |-> [@[sap] EXCEPT !.ui_xmit_q = <<>>, !.ui_rx_q = <<>>,
                                                     !.is_ui_tx_congested = FALSE]]]

(* NFC_FlushData drops the frame if it has not reached the NFCC yet (a     *)
(* frame is one NCI packet: nothing is dropped that the peer has started   *)
(* to receive).                                                            *)
FlushData(n, s, c) ==
    IF c.flushed /\ ~node[Peer(n)].rx_started THEN [s EXCEPT !.out = <<>>] ELSE s

(* Send the DISC of the link manager and wait until it is sent.            *)
SendDisc(s, c) ==
    LET s1 == CheckSendData([s EXCEPT !.sig_xmit_q = Append(@, NewPdu("DISC"))], c)
    IN [s1 EXCEPT !.link_state = "DEACTIVATING", !.deact_reason = "LOCAL_INITIATED",
                  !.timer = IF s1.sig_xmit_q = <<>> THEN "LINK_MANAGER" ELSE @]

LinkDeactivate(n, s, reason, c) ==
    LET s1 == FlushQueues(s)
        lost == IF reason = "RF_LINK_LOSS_ERR" /\ ~s.rx_any
                  THEN "RF_LINK_LOSS_NO_RX_LLC" ELSE reason
    IN CASE reason = "LOCAL_INITIATED" -> SendDisc(FlushData(n, s1, c), c)
         [] reason = "REMOTE_INITIATED" /\ n = Target ->
              DeactivateCleanup(n, SendToLower(s1, Symm), reason)
         [] OTHER -> DeactivateCleanup(n, FlushData(n, s1, c), lost)

(* Expiry of the timer of the link manager, also called when what it waits *)
(* for has happened.                                                       *)
ProcessLinkTimeout(n, s, c) ==
    CASE s.link_state = "ACTIVATED" /\ env.symm_delay /\ s.symm_state = "LOCAL_XMIT_NEXT" ->
           StartInactivityTimer(StartLinkTimer(SendToLower(s, Symm)))
      [] s.link_state = "ACTIVATED" /\ ~(env.symm_delay /\ s.symm_state = "LOCAL_XMIT_NEXT") ->
           LinkDeactivate(n, s, "TIMEOUT", c)
      [] s.link_state = "DEACTIVATING" ->
           [DeactivateCleanup(n, s, s.deact_reason) EXCEPT !.cback = FALSE]
      [] OTHER -> s
-----------------------------------------------------------------------------
(* Receiving.                                                              *)

(* Add an item to the pending SNL, or to a new one if it does not fit.     *)
AddToSnl(s, item, c) ==
    LET s1 == IF c.fits THEN s ELSE CheckSendSnl(s)
    IN [s1 EXCEPT !.p_snl = Append(@, item)]

(* llcp_sdp_proc_snl: a request is answered, a response ends the request   *)
(* with its tid.                                                           *)
ProcItem(s, item, c) ==
    IF item.type = "SDREQ"
      THEN AddToSnl(s, [type |-> "SDRES", tid |-> item.tid], c)
      ELSE [s EXCEPT !.transac = @ \ {item.tid}]

(* A UI PDU goes to the last rx buffer or a new one; the oldest buffer is  *)
(* discarded when there are too many.                                      *)
ProcUiPdu(s, p, c) ==
    LET q == s.ll[p.sap].ui_rx_q
        q1 == IF q # <<>> /\ c.fits THEN [q EXCEPT ![Len(q)] = Append(@, p)]
                                    ELSE Append(q, <<p>>)
    IN [s EXCEPT !.ll[p.sap].ui_rx_q =
          IF Len(q1) > env.ll_rx_congest_start THEN Tail(q1) ELSE q1]

(* The PDUs of a frame in turn; a DISC is the last one processed.          *)
ProcPdu(n, s, p, c) ==
    CASE p.ptype = "DISC" -> LinkDeactivate(n, s, "REMOTE_INITIATED", c)
      [] p.ptype = "UI" -> ProcUiPdu(s, p, c)
      [] p.ptype = "SNL" ->
           LET done[k \in 0..Len(p.items)] ==
                 IF k = 0 THEN s ELSE ProcItem(done[k - 1], p.items[k], c)
           IN done[Len(p.items)]

ProcPdus(n, s, pdus, c) ==
    LET done[k \in 0..Len(pdus)] ==
          IF k = 0 THEN s
          ELSE IF k > 1 /\ pdus[k - 1].ptype = "DISC" THEN done[k - 1]
               ELSE ProcPdu(n, done[k - 1], pdus[k], c)
        last == CHOOSE k \in 0..Len(pdus) :
                  /\ \A j \in 1..(k - 1) : pdus[j].ptype # "DISC"
                  /\ k = Len(pdus) \/ (k > 0 /\ pdus[k].ptype = "DISC")
    IN done[last]

(* Faulty variant: the answer to the DISC is handled like any other frame. *)
ProcRxData_DiscNotDone(n, s, frame, c) ==
    LET s1 == [s EXCEPT !.timer = "none"]
        s2 == IF frame.pdus = <<>> THEN s1
              ELSE ProcPdus(n, [s1 EXCEPT !.inact_timer = FALSE], frame.pdus, c)
    IN IF s.symm_state = "LOCAL_XMIT_NEXT" THEN s
       ELSE CheckSendData([s2 EXCEPT !.symm_state = "LOCAL_XMIT_NEXT"], c)

(* llcp_link_proc_rx_data.  A frame that is not expected is discarded; one *)
(* that is invalid still passes the turn.                                  *)
ProcRxData(n, s, frame, c) ==
    LET s1 == [s EXCEPT !.timer = "none"]
        s2 == IF frame.pdus = <<>> THEN s1
              ELSE ProcPdus(n, [s1 EXCEPT !.inact_timer = FALSE], frame.pdus, c)
    IN CASE s.symm_state = "LOCAL_XMIT_NEXT" -> s
         [] s.symm_state = "REMOTE_XMIT_NEXT"
              /\ s.link_state = "DEACTIVATING" /\ s.sig_xmit_q = <<>> ->
              ProcessLinkTimeout(n, s1, c)
         [] OTHER -> CheckSendData([s2 EXCEPT !.symm_state = "LOCAL_XMIT_NEXT"], c)
-----------------------------------------------------------------------------
(* Handlers of the NFC task.                                               *)

Update(n, s) ==
    /\ node' = [node EXCEPT ![n] = s]
    /\ UNCHANGED <<carrier, session, env>>

(* NFC_DATA_CEVT: the NFCC delivers a frame of the peer.                   *)
RxData(n) ==
    LET p == Peer(n)
        s == [node[n] EXCEPT !.rx_started = FALSE]
        frame == Head(node[p].out)
    IN /\ carrier /\ s.rf = "on" /\ node[p].out # <<>>
       /\ \E c \in Choice :
            LET s1 == CASE ~s.cback -> s
                        [] s.cback /\ s.link_state = "DEACTIVATED" -> SendToLower(s, Symm)
                        [] s.cback /\ s.link_state = "ACTIVATION_FAILED" ->
                             SendData(s, [invalid |-> TRUE, pdus |-> <<>>])
                        [] OTHER -> ProcRxData(n, [s EXCEPT !.rx_any = TRUE], frame, c)
            IN node' = [node EXCEPT ![n] = s1, ![p].out = Tail(@)]
       /\ UNCHANGED <<carrier, session, env>>

(* NFC_DATA_START_CEVT: the first part of the frame is there.              *)
DataStart(n) ==
    LET s == node[n]
    IN /\ carrier /\ s.rf = "on" /\ s.cback /\ ~s.rx_started /\ node[Peer(n)].out # <<>>
       /\ Update(n, [s EXCEPT !.rx_started = TRUE,
                              !.timer = IF s.symm_state = "REMOTE_XMIT_NEXT" THEN "none" ELSE @])

(* The peer is still going to send, or has sent.                           *)
PeerAnswers(n) ==
    LET p == node[Peer(n)]
    IN \/ p.out # <<>> \/ node[n].out # <<>>
       \/ p.symm_state = "LOCAL_XMIT_NEXT" /\ p.timer # "none" /\ p.link_state = "ACTIVATED"
       \/ p.rf = "starting"

(* The link timer: symm_delay with the turn, the peer's LTO without it     *)
(* (which an answer in time does not let expire), 50 ms in DEACTIVATING.   *)
LinkTimeout(n) ==
    LET s == node[n]
    IN /\ s.timer = "LINK_MANAGER"
       /\ (s.link_state = "ACTIVATED" /\ s.symm_state = "REMOTE_XMIT_NEXT" /\ carrier)
            => env.late \/ ~PeerAnswers(n)
       /\ \E c \in Choice : Update(n, ProcessLinkTimeout(n, [s EXCEPT !.timer = "none"], c))

FirstPduTimeout(n) ==
    LET s == node[n]
    IN /\ s.timer = "DELAY_FIRST_PDU"
       /\ \E c \in Choice : Update(n, CheckSendData([s EXCEPT !.timer = "none"], c))

InactivityTimeout(n) ==
    LET s == node[n]
    IN /\ s.inact_timer
       /\ \E c \in Choice :
            Update(n, LinkDeactivate(n, [s EXCEPT !.inact_timer = FALSE], "LOCAL_INITIATED", c))

(* NFC_ERROR_CEVT.                                                         *)
InterfaceError(n) ==
    LET s == node[n]
    IN /\ "error" \in env.uses[n] /\ carrier /\ s.cback
       /\ \E c \in Choice : Update(n, LinkDeactivate(n, s, "NFCC_ERROR", c))

(* Faulty variant: the loss of RF deactivates the link in any state.       *)
RfDeactivated_AnyState(n) ==
    LET s == [node[n] EXCEPT !.rf = "off", !.rx_started = FALSE]
    IN /\ ~carrier /\ node[n].rf = "on"
       /\ \E c \in Choice :
            Update(n, [LinkDeactivate(n, s, "RF_LINK_LOSS_ERR", c)
                         EXCEPT !.cback = FALSE, !.rf_deactivate = FALSE])

(* NFC_DEACTIVATE_CEVT: the RF connection is gone.                         *)
RfDeactivated(n) ==
    LET s == [node[n] EXCEPT !.rf = "off", !.rx_started = FALSE]
    IN /\ ~carrier /\ node[n].rf = "on"
       /\ \E c \in Choice :
            LET s1 == CASE ~s.cback -> s
                        [] s.cback /\ s.link_state = "DEACTIVATING" /\ n = Target ->
                             ProcessLinkTimeout(n, [s EXCEPT !.timer = "none"], c)
                        [] s.cback /\ s.link_state = "ACTIVATION_FAILED" ->
                             [s EXCEPT !.link_state = "DEACTIVATED"]
                        [] s.cback /\ s.link_state = "DEACTIVATED" -> s
                        [] OTHER -> LinkDeactivate(n, s, "RF_LINK_LOSS_ERR", c)
            IN Update(n, [s1 EXCEPT !.cback = FALSE, !.rf_deactivate = FALSE])

(* The NFC-DEP activation of the RF link: nfa_p2p_activate_llcp calls      *)
(* LLCP_ActivateLink, which may find the general bytes or the version      *)
(* unacceptable.                                                           *)
LinkActivate(n, accepted) ==
    LET s == [node[n] EXCEPT !.rf = "on"]
        s1 == [s EXCEPT !.rx_any = FALSE, !.link_state = "ACTIVATED", !.cback = TRUE,
                        !.reports = 0]
    IN /\ node[n].rf = "starting"
       /\ accepted \/ "refuse" \in env.uses[n]
       /\ Update(n, CASE s.link_state # "DEACTIVATED" -> s
                      [] s.link_state = "DEACTIVATED" /\ ~accepted ->
                           IF n = Initiator THEN [s EXCEPT !.rf_deactivate = TRUE]
                           ELSE [s EXCEPT !.rf_deactivate = TRUE, !.cback = TRUE,
                                          !.link_state = "ACTIVATION_FAILED"]
                      [] s.link_state = "DEACTIVATED" /\ accepted /\ n = Target ->
                           StartLinkTimer([s1 EXCEPT !.symm_state = "REMOTE_XMIT_NEXT"])
                      [] s.link_state = "DEACTIVATED" /\ accepted /\ n = Initiator ->
                           IF env.first_delay
                             THEN [s1 EXCEPT !.symm_state = "LOCAL_XMIT_NEXT",
                                             !.timer = "DELAY_FIRST_PDU"]
                             ELSE SendToLower(s1, Symm))
-----------------------------------------------------------------------------
(* Calls of the upper layer.                                               *)

DeactivateLink(n) ==
    LET s == node[n]
    IN /\ "deactivate" \in env.uses[n] /\ s.ndeact < env.max_deact
       /\ s.link_state # "DEACTIVATED"
       /\ \E c \in Choice :
            Update(n, LinkDeactivate(n, [s EXCEPT !.ndeact = @ + 1], "LOCAL_INITIATED", c))

DiscoverService(n) ==
    LET s == node[n]
    IN /\ "sdp" \in env.uses[n] /\ s.nsdp < env.max_sdp
       /\ s.link_state = "ACTIVATED"
       /\ \E c \in Choice :
            LET s1 == AddToSnl([s EXCEPT !.nsdp = @ + 1, !.transac = @ \union {s.next_tid},
                                         !.next_tid = @ + 1],
                               [type |-> "SDREQ", tid |-> s.next_tid], c)
            IN Update(n, IF s1.symm_state = "LOCAL_XMIT_NEXT" THEN CheckSendData(s1, c) ELSE s1)

(* LLCP_IsLogicalLinkCongested: why a SAP may not send, as the link is     *)
(* down, or as what is queued and posted has reached a threshold (then the *)
(* SAP is marked, to be told of the end).                                  *)
LinkRefuses(s, sap) == s.link_state # "ACTIVATED" \/ s.ll[sap].is_ui_tx_congested

TotalPending(s) ==
    LET sum[k \in 0..NumSaps] == IF k = 0 THEN 0 ELSE sum[k - 1] + Len(s.ll[k].pending)
    IN sum[NumSaps]

QueuesFull(s, sap) ==
    \/ Len(s.ll[sap].pending) + Len(s.ll[sap].ui_xmit_q) >= env.ll_tx_congest_start
    \/ TotalPending(s) + TotalTxUi(s) >= env.max_num_ll_tx_buff
    \/ TotalPending(s) + TotalTxUi(s) >= env.max_num_tx_buff

(* NFA_P2pSendUI, with GKI_sched_lock held: the SDU is posted to the NFC   *)
(* task, or refused.  remote_link_miu is 0, and every SDU too long, until  *)
(* the first activation.                                                   *)
P2pSendUI(n, sap) ==
    LET s == node[n]
    IN /\ "ui" \in env.uses[n] /\ s.nui < env.max_ui
       /\ \/ s.link_state = "ACTIVATED"
          \/ "ui_early" \in env.uses[n] /\ (s.link_state = "DEACTIVATING" \/ s.reports > 0)
       /\ ~s.ll[sap].nfa_congested
       /\ Update(n, CASE LinkRefuses(s, sap) -> [s EXCEPT !.ll[sap].nfa_congested = TRUE]
                      [] ~LinkRefuses(s, sap) /\ QueuesFull(s, sap) ->
                           SetCongested(s, {sap}, TRUE)
                      [] OTHER -> [s EXCEPT !.ll[sap].pending = Append(@, s.nui + 1),
                                            !.nui = @ + 1])

(* nfa_p2p_send_ui and LLCP_SendUI: the NFC task handles a posted SDU.     *)
SendUi(n, sap) ==
    LET s == [node[n] EXCEPT !.ll[sap].pending = Tail(@)]
        p == [NewPdu("UI") EXCEPT !.sap = sap, !.sdu = Head(node[n].ll[sap].pending)]
        congested(t) == \/ t.ll[sap].is_ui_tx_congested
                        \/ Len(t.ll[sap].ui_xmit_q) >= env.ll_tx_congest_start
                        \/ t.overall_tx_congested
                        \/ TotalTxUi(t) >= env.max_num_ll_tx_buff
    IN /\ node[n].ll[sap].pending # <<>>
       /\ \E c \in Choice :
            LET s1 == CheckSendData([s EXCEPT !.ll[sap].ui_xmit_q = Append(@, p)], c)
            IN Update(n, CASE s.link_state # "ACTIVATED" -> s
                           [] s.link_state = "ACTIVATED" /\ ~congested(s1) -> s1
                           [] OTHER -> SetCongested(s1, {sap}, TRUE))

(* LLCP_ReadLogicalLinkData: one UI PDU.                                   *)
ReadLogicalLinkData(n, sap) ==
    LET q == node[n].ll[sap].ui_rx_q
        q1 == IF Len(q[1]) = 1 THEN Tail(q) ELSE [q EXCEPT ![1] = Tail(@)]
    IN q # <<>> /\ Update(n, [node[n] EXCEPT !.ll[sap].ui_rx_q = q1])
-----------------------------------------------------------------------------
(* The RF connection, as NFC_Deactivate of either device or distance end   *)
(* it; made again when both devices have seen its end.                     *)
Connect ==
    /\ ~carrier /\ session < env.max_session
    /\ \A n \in Node : node[n].rf = "off"
    /\ carrier' = TRUE /\ session' = session + 1
    /\ node' = [n \in Node |-> [node[n] EXCEPT !.rf = "starting", !.out = <<>>]]
    /\ UNCHANGED env

RfLost ==
    /\ carrier /\ \A n \in Node : node[n].rf = "on"
    /\ \E n \in Node : node[n].rf_deactivate \/ "rfloss" \in env.uses[n]
    /\ carrier' = FALSE
    /\ node' = [n \in Node |-> [node[n] EXCEPT !.out = <<>>]]
    /\ UNCHANGED <<session, env>>

Timeout(n) == LinkTimeout(n) \/ FirstPduTimeout(n)

Task(n) ==
    \/ RxData(n) \/ DataStart(n) \/ Timeout(n) \/ InactivityTimeout(n)
    \/ InterfaceError(n) \/ RfDeactivated(n)
    \/ \E accepted \in BOOLEAN : LinkActivate(n, accepted)

Api(n) ==
    \/ DeactivateLink(n) \/ DiscoverService(n)
    \/ \E sap \in Sap : P2pSendUI(n, sap) \/ SendUi(n, sap) \/ ReadLogicalLinkData(n, sap)

Next == Connect \/ RfLost \/ \E n \in Node : Task(n) \/ Api(n)

Spec == Init /\ [][Next]_vars

(* Fairness: the NFCC delivers a frame, and reports activation and the end *)
(* of RF; the task handles what was posted to it; a timer expires (the     *)
(* link timeout only when no answer is coming); the RF link is deactivated *)
(* when the upper layer asks for it.  Each is stated by the condition that *)
(* cannot hold for ever: the step that ends it is always possible.         *)
FrameDue(n) == carrier /\ node[n].rf = "on" /\ node[Peer(n)].out # <<>>

TimerDue(n) ==
    /\ node[n].timer # "none"
    /\ \/ node[n].link_state # "ACTIVATED"
       \/ node[n].symm_state = "LOCAL_XMIT_NEXT"
       \/ ~PeerAnswers(n)

RfEndDue == carrier /\ \E n \in Node : node[n].rf_deactivate

Fairness ==
    /\ []<>~RfEndDue
    /\ \A n \in Node :
         /\ []<>~FrameDue(n)
         /\ []<>~TimerDue(n)
         /\ []<>(node[n].rf # "starting")
         /\ []<>(carrier \/ node[n].rf = "off")
         /\ \A sap \in Sap : []<>(node[n].ll[sap].pending = <<>>)

FairSpec == Spec /\ Fairness
-----------------------------------------------------------------------------
(* Properties.                                                             *)

(* Types of the control blocks.                                            *)
TypeOK ==
    /\ env \in Environments
    /\ node \in [Node -> ControlBlock]
    /\ carrier \in BOOLEAN
    /\ session \in 0..env.max_session

(* While both devices have the link activated, exactly one of them has the *)
(* turn or exactly one frame is on its way (symm_state): the symmetry      *)
(* procedure neither loses the turn nor gives it to both, also when UI     *)
(* data, service requests and first-PDU delay change who sends what.       *)
OneTurn ==
    (\A n \in Node : node[n].link_state = "ACTIVATED") =>
      /\ Cardinality({n \in Node : node[n].symm_state = "LOCAL_XMIT_NEXT"})
           + Len(node[Initiator].out) + Len(node[Target].out) = 1
         \/ ~carrier
      /\ \A n \in Node : node[n].symm_state = "LOCAL_XMIT_NEXT" => node[n].out = <<>>

(* LLCP_DeactivateLink accepts a link whose activation was refused: no     *)
(* timer watches the DISC that it queues, and its end is reported.         *)
ClosesRefused(n) == {"refuse", "deactivate"} \subseteq env.uses[n]

(* A link that is not deactivated is watched: the timer of the link        *)
(* manager runs, or the first part of a frame has stopped it, or the loss  *)
(* of RF is being reported.  (An initiator whose delay_first_pdu_timeout   *)
(* is 0 sends its first SYMM without the timer, llcp_link_activate.)       *)
LinkWatched ==
    \A n \in Node :
      (env.first_delay /\ ~ClosesRefused(n)) =>
        (node[n].link_state \in {"ACTIVATED", "DEACTIVATING"} =>
           node[n].timer # "none" \/ node[n].rx_started \/ ~carrier)

(* The link procedure: typed state, one turn, a watch over every link.     *)
LinkKept == TypeOK /\ OneTurn /\ LinkWatched

(* LLCP_LINK_DEACTIVATED_EVT comes at most once for an activation, however *)
(* the call, the timers, a DISC of the peer and the loss of RF cross.      *)
(* (NFC_ERROR_CEVT reports it again in any state.)                         *)
OneReport ==
    \A n \in Node :
      ("error" \notin env.uses[n] /\ ~ClosesRefused(n)) => node[n].reports <= 1

(* A device that sends a DISC, or wants to, ends up with the link          *)
(* deactivated on both sides, if answers come in time.                     *)
DeactivationCompletes ==
    \A n \in Node :
      (node[n].link_state = "DEACTIVATING" /\ ~env.late)
        ~> \A m \in Node : node[m].link_state = "DEACTIVATED"

(* A service request is answered by the peer, or reported as failed        *)
(* (llcp_sdp_proc_deactivation).                                           *)
DiscoverAnswered ==
    \A n \in Node : \A tid \in 0..1 :
      tid \in node[n].transac ~> tid \notin node[n].transac

(* An application that NFA_P2pSendUI refused because of congestion hears   *)
(* of its end, or of the end of the link.  (Not one that offered data      *)
(* without a link: its SAP stays marked through the next activation, as    *)
(* LLCP_IsLogicalLinkCongested has not marked it.)                         *)
UiCongestionEnds ==
    \A n \in Node : \A sap \in Sap :
      (node[n].ll[sap].nfa_congested /\ "ui_early" \notin env.uses[n])
        ~> ~node[n].ll[sap].nfa_congested

(* llcp_deactivate_cleanup: "We had sent out DISC": no DISC is left in the *)
(* signalling queue of a deactivated link.                                 *)
DiscWasSent ==
    \A n \in Node :
      node[n].link_state = "DEACTIVATED" =>
        \A i \in DOMAIN node[n].sig_xmit_q : node[n].sig_xmit_q[i].ptype # "DISC"
=============================================================================
