------------------------------ MODULE LlcpDlc ------------------------------
(***************************************************************************)
(* The LLCP data link connection of libnfc-nci (llcp_dlc.cc), with the     *)
(* parts of llcp_api.cc, llcp_util.cc and llcp_link.cc it runs on: two     *)
(* devices, each running this code, hold one connection between a client   *)
(* SAP and a server SAP over a symmetric (half duplex) LLCP link.          *)
(*                                                                         *)
(* A device is single threaded, so its control block is one record and a   *)
(* handler is an operator from that record to the next one.  A frame is    *)
(* the list of PDUs of one transmission: <<>> is a SYMM, a longer list an  *)
(* AGF.  The receiver takes the PDUs of a frame one step each, because     *)
(* the callbacks it makes for a PDU may call the API before the next one.  *)
(*                                                                         *)
(* Ghost data, used by the properties only: the incarnation "ep" of the    *)
(* connection, the ordinal "sdu" of the data of an I PDU, the counters     *)
(* nsent, nrcvd and ncomplete, "told" (the congestion status the upper     *)
(* layer last heard), "ind" (it was told of received data and has not yet  *)
(* read the queue empty) and last_nr (the N(R) last handed to a queue).    *)
(***************************************************************************)
EXTENDS Integers, Sequences, FiniteSets

CONSTANTS
    Client, Server,        \* the two devices
    LLCP_SEQ_MODULO,       \* modulus of sequence numbers (16 in llcp_defs.h)
    PoolOutcomes,          \* what GKI_getpoolbuf may answer: a set of BOOLEANs
    Environments           \* what may surround LLCP: see Environment

Node == {Client, Server}

(* Calls of the upper layer, expiry of the data link timer, link loss.     *)
Use == {"send", "query", "flush", "txdone", "busy", "disc", "reject",
        "timeout", "linkloss"}

(* What surrounds LLCP in a behaviour: the uses; the receive window each   *)
(* side announces; rx_congest_threshold of a connection,                   *)
(* overall_rx_congest_start and _end, max_num_tx_buff; and the bounds of   *)
(* the model: PDUs one build adds to a transmission, SDUs a device sends   *)
(* per connection, connection attempts.                                    *)
Environment ==
    [name : STRING, uses : [Node -> SUBSET Use], rw : [Node -> 0..(LLCP_SEQ_MODULO - 1)],
     rx_threshold : Nat, rx_start : Nat, rx_end : Nat, tx_buff : Nat,
     max_agf : Nat, max_sdu : Nat, max_ep : Nat]

ASSUME NodeAssumption == Client # Server
ASSUME SeqAssumption == LLCP_SEQ_MODULO \in Nat /\ LLCP_SEQ_MODULO > 1
ASSUME EnvAssumption == PoolOutcomes \subseteq BOOLEAN /\ Environments \subseteq Environment

VARIABLES
    node,      \* the control block of each device
    nep,       \* connection attempts so far
    env        \* the environment of this behaviour, chosen at the start

vars == <<node, nep, env>>

Uses == env.uses
RW == env.rw
RxCongestThreshold == env.rx_threshold
OverallRxStart == env.rx_start
OverallRxEnd == env.rx_end
MaxTxBuff == env.tx_buff
MaxAgf == env.max_agf
MaxSdu == env.max_sdu
MaxEp == env.max_ep

Peer(n) == IF n = Client THEN Server ELSE Client
-----------------------------------------------------------------------------
(* Data.                                                                   *)

SeqNum == 0..(LLCP_SEQ_MODULO - 1)

PTYPE == {"CONNECT", "CC", "DISC", "DM", "FRMR", "I", "RR", "RNR"}

(* Why a DM was sent: it confirms a DISC, answers a PDU for a connection   *)
(* that does not exist, or rejects a CONNECT.                              *)
REASON == {"none", "RESP_DISC", "NO_ACTIVE_CONNECTION", "REJECT"}

(* A CONNECT and a CC carry the sender's receive window, an I PDU N(S)     *)
(* and N(R), an RR and an RNR N(R).  sdu is ghost data: the ordinal of the *)
(* data of an I PDU, and in a DISC the number of SDUs accepted for sending *)
(* when its sender had nothing left to send (0 otherwise).                 *)
Pdu == [ptype : PTYPE, ns : SeqNum, nr : SeqNum, rw : SeqNum,
        reason : REASON, ep : Nat, sdu : Nat]

NewPdu(ptype, ep) ==
    [ptype |-> ptype, ns |-> 0, nr |-> 0, rw |-> 0, reason |-> "none",
     ep |-> ep, sdu |-> 0]

(* One transmission; agf says that its PDUs travel in an AGF PDU.          *)
Frame == [agf : BOOLEAN, pdus : Seq(Pdu)]

DLC_STATE == {"IDLE", "W4_REMOTE_RESP", "W4_LOCAL_RESP", "CONNECTED",
              "W4_REMOTE_DM"}

FLAG == {"PENDING_DISC", "PENDING_RR_RNR", "NOTIFY_TX_DONE"}

SYMM_STATE == {"LOCAL_XMIT_NEXT", "REMOTE_XMIT_NEXT"}

(* i_rx_q is a queue of buffers: a buffer holds the SDUs appended to it.   *)
Buffer == Seq(Nat) \ {<<>>}

ControlBlock ==
    [state : DLC_STATE, flags : SUBSET FLAG,
     local_busy : BOOLEAN, remote_busy : BOOLEAN,
     local_rw : SeqNum, remote_rw : SeqNum,
     next_tx_seq : SeqNum, rcvd_ack_seq : SeqNum,
     next_rx_seq : SeqNum, sent_ack_seq : SeqNum,
     i_xmit_q : Seq(Nat), is_tx_congested : BOOLEAN,
     i_rx_q : Seq(Buffer), is_rx_congested : BOOLEAN, num_rx_i_pdu : Int,
     overall_tx_congested : BOOLEAN, overall_rx_congested : BOOLEAN,
     sig_xmit_q : Seq(Pdu), out : Seq(Frame), symm_state : SYMM_STATE,
     num_data_link_connection : Nat,
     ep : Nat, nsent : Nat, nrcvd : Nat, ncomplete : Nat,
     told : BOOLEAN, ind : BOOLEAN, last_nr : SeqNum]

(* A device without a connection.                                          *)
NewBlock ==
    [state |-> "IDLE", flags |-> {}, local_busy |-> FALSE,
     remote_busy |-> FALSE, local_rw |-> 0, remote_rw |-> 0,
     next_tx_seq |-> 0, rcvd_ack_seq |-> 0,
     next_rx_seq |-> 0, sent_ack_seq |-> 0,
     i_xmit_q |-> <<>>, is_tx_congested |-> FALSE,
     i_rx_q |-> <<>>, is_rx_congested |-> FALSE, num_rx_i_pdu |-> 0,
     overall_tx_congested |-> FALSE, overall_rx_congested |-> FALSE,
     sig_xmit_q |-> <<>>, out |-> <<>>, symm_state |-> "REMOTE_XMIT_NEXT",
     num_data_link_connection |-> 0,
     ep |-> 0, nsent |-> 0, nrcvd |-> 0, ncomplete |-> 0,
     told |-> FALSE, ind |-> FALSE, last_nr |-> 0]

(* The connection part of a control block as a new connection finds it;    *)
(* what belongs to the link stays.                                         *)
ResetDlcb(s) ==
    [NewBlock EXCEPT
       !.overall_tx_congested = s.overall_tx_congested,
       !.overall_rx_congested = s.overall_rx_congested,
       !.sig_xmit_q = s.sig_xmit_q, !.out = s.out,
       !.symm_state = s.symm_state,
       !.num_data_link_connection = s.num_data_link_connection]

(* The client's device activated the link as initiator.                    *)
InitNode(n) ==
    [NewBlock EXCEPT !.symm_state = IF n = Client THEN "LOCAL_XMIT_NEXT"
                                                  ELSE "REMOTE_XMIT_NEXT"]

Init ==
    /\ node = [n \in Node |-> InitNode(n)]
    /\ nep = 0
    /\ env \in Environments

(* What a handler's environment decides: where the MIU (or the pool) cuts  *)
(* the two builds of a transmission, whether an SDU fits in the last       *)
(* buffer of the receive queue, and the answers of GKI_getpoolbuf for the  *)
(* PDU of the handler itself, for an RR or RNR and for a pending DISC.     *)
Choice == [k1 : 1..MaxAgf, k2 : 0..MaxAgf, append : BOOLEAN,
           pdu : PoolOutcomes, rr : PoolOutcomes, disc : PoolOutcomes]

(* Distance from b up to a, as the (uint8_t)(a - b) % LLCP_SEQ_MODULO of   *)
(* the code computes it (16 divides 256).                                  *)
Dist(a, b) == (a - b) % LLCP_SEQ_MODULO

(* Faulty variant: the counter is not wrapped.                             *)
Inc_NoWrap(a) == a + 1

Inc(a) == (a + 1) % LLCP_SEQ_MODULO

MinNat(a, b) == IF a <= b THEN a ELSE b
-----------------------------------------------------------------------------
(* Helpers of llcp_util.cc, and llcp_dlc.cc.                               *)

Connected(s) == s.state = "CONNECTED"

(* Received data is not acknowledged while one of these holds.             *)
RxFlowOff(s) == s.local_busy \/ s.is_rx_congested \/ s.overall_rx_congested

(* The tx queue is empty and every PDU, of both directions, acknowledged.  *)
NothingPending(s) ==
    /\ s.i_xmit_q = <<>>
    /\ s.next_rx_seq = s.sent_ack_seq
    /\ s.next_tx_seq = s.rcvd_ack_seq

SetFlag(s, f) == [s EXCEPT !.flags = @ \union {f}]

ClearFlag(s, f) == [s EXCEPT !.flags = @ \ {f}]

(* The overall rx congestion changes with the number of rx buffers in use. *)
CheckRxCongestedStatus(s) ==
    LET turned == IF s.overall_rx_congested
                    THEN Len(s.i_rx_q) <= OverallRxEnd
                    ELSE Len(s.i_rx_q) >= OverallRxStart
        s1 == IF turned THEN [s EXCEPT !.overall_rx_congested = ~@] ELSE s
    IN IF turned /\ Connected(s) /\ ~s.is_rx_congested
         THEN SetFlag(s1, "PENDING_RR_RNR") ELSE s1

FlushDataLinkRxData(s) ==
    LET s1 == [s EXCEPT !.i_rx_q = <<>>, !.num_rx_i_pdu = 0, !.ind = FALSE]
        s2 == IF ~s.local_busy /\ s.is_rx_congested
                THEN SetFlag([s1 EXCEPT !.is_rx_congested = FALSE],
                             "PENDING_RR_RNR")
                ELSE s1
    IN CheckRxCongestedStatus(s2)

AllocateDataLink(s) ==
    [ResetDlcb(s) EXCEPT !.num_data_link_connection = @ + 1]

DeallocateDataLink(s) ==
    IF s.state = "IDLE" THEN s
    ELSE [ResetDlcb(FlushDataLinkRxData([s EXCEPT !.i_xmit_q = <<>>]))
            EXCEPT !.num_data_link_connection = IF @ > 0 THEN @ - 1 ELSE @]

Enqueue(s, p) == [s EXCEPT !.sig_xmit_q = Append(@, p)]

(* RR, or RNR when the receive flow is off; V(RA) moves before the buffer  *)
(* of the PDU is allocated.                                                *)
SendRrRnr(s, ok) ==
    LET pend == "PENDING_RR_RNR" \in s.flags
        unacked == s.sent_ack_seq # s.next_rx_seq
        s1 == IF RxFlowOff(s) THEN s
              ELSE [s EXCEPT !.sent_ack_seq = s.next_rx_seq]
        p == [NewPdu(IF RxFlowOff(s) THEN "RNR" ELSE "RR", s.ep)
                EXCEPT !.nr = s1.sent_ack_seq]
    IN CASE ~pend /\ (~unacked \/ RxFlowOff(s)) -> s
         [] (pend \/ (unacked /\ ~RxFlowOff(s))) /\ ~ok -> s1
         [] (pend \/ (unacked /\ ~RxFlowOff(s))) /\ ok ->
              [Enqueue(ClearFlag(s1, "PENDING_RR_RNR"), p)
                 EXCEPT !.last_nr = s1.sent_ack_seq]

(* The DISC of a connection that leaves CONNECTED; the timer of the code   *)
(* runs exactly in the W4 states.                                          *)
EnterW4RemoteDm(s, ok) ==
    LET s1 == [s EXCEPT !.state = "W4_REMOTE_DM"]
        p == [NewPdu("DISC", s.ep)
                EXCEPT !.sdu = IF NothingPending(s) THEN s.nsent ELSE 0]
    IN IF ok THEN Enqueue(s1, p) ELSE s1

(* The request to disconnect that waited until nothing was pending.        *)
PendingDisc(s, ok) ==
    IF "PENDING_DISC" \in s.flags /\ NothingPending(s)
      THEN LET s1 == ClearFlag(s, "PENDING_DISC")
           IN IF Connected(s) THEN EnterW4RemoteDm(s1, ok) ELSE s1
      ELSE s

(* Faulty variant: the end of transmission is reported with data queued.   *)
NotifyWhenDone_Early(s, ok) ==
    IF "NOTIFY_TX_DONE" \in s.flags
      THEN [ClearFlag(PendingDisc(s, ok), "NOTIFY_TX_DONE")
              EXCEPT !.ncomplete = s.nsent]
      ELSE PendingDisc(s, ok)

(* Tail of llcp_dlc_get_next_pdu, reached when there was no I PDU to take. *)
NotifyWhenDone(s, ok) ==
    LET s1 == PendingDisc(s, ok)
    IN IF NothingPending(s) /\ "NOTIFY_TX_DONE" \in s.flags
         THEN [ClearFlag(s1, "NOTIFY_TX_DONE") EXCEPT !.ncomplete = s.nsent]
         ELSE s1

(* Faulty variant: nothing is acknowledged unless an I PDU carries it.     *)
CheckToSendRrRnr_NoRr(s, c) ==
    IF Connected(s) THEN PendingDisc(s, c.disc) ELSE s

CheckToSendRrRnr(s, c) ==
    IF Connected(s) THEN PendingDisc(SendRrRnr(s, c.rr), c.disc) ELSE s
-----------------------------------------------------------------------------
(* Building a transmission, llcp_link.cc.                                  *)

(* Faulty variant: the remote's receive window is ignored.                 *)
SendableIPdus_NoWindow(s) ==
    IF s.state # "IDLE" /\ ~s.remote_busy THEN Len(s.i_xmit_q) ELSE 0

(* I PDUs that may be taken now: the remote is not busy, its window open.  *)
SendableIPdus(s) ==
    IF s.state # "IDLE" /\ ~s.remote_busy
         /\ Dist(s.next_tx_seq, s.rcvd_ack_seq) < s.remote_rw
      THEN MinNat(Len(s.i_xmit_q),
                  s.remote_rw - Dist(s.next_tx_seq, s.rcvd_ack_seq))
      ELSE 0


(* Take m I PDUs from the tx queue; N(R) follows V(R) unless flow is off.  *)
BuildInfoPdus(s, m) ==
    LET nr == IF RxFlowOff(s) THEN s.sent_ack_seq ELSE s.next_rx_seq
    IN [pdus |-> [j \in 1..m |->
                    [NewPdu("I", s.ep)
                       EXCEPT !.ns = (s.next_tx_seq + j - 1) % LLCP_SEQ_MODULO,
                              !.nr = nr, !.sdu = s.i_xmit_q[j]]],
        s |-> IF m = 0 THEN s
              ELSE [s EXCEPT !.i_xmit_q = SubSeq(@, m + 1, Len(@)),
                             !.next_tx_seq = (@ + m) % LLCP_SEQ_MODULO,
                             !.sent_ack_seq = nr, !.last_nr = nr]]

(* Add up to k PDUs to a transmission, signalling PDUs first.              *)
AddPdus(b, k) ==
    LET nsig == MinNat(k, Len(b.s.sig_xmit_q))
        sigs == SubSeq(b.s.sig_xmit_q, 1, nsig)
        s1 == [b.s EXCEPT !.sig_xmit_q = SubSeq(@, nsig + 1, Len(@))]
        info == BuildInfoPdus(s1, MinNat(k - nsig, SendableIPdus(b.s)))
    IN [pdus |-> b.pdus \o sigs \o info.pdus, s |-> info.s]

(* The first PDU is taken whatever its length; without one the connection  *)
(* is looked at for a pending DISC or TX_COMPLETE.                         *)
BuildNextPdu(b, k, disc) ==
    IF b.pdus = <<>>
      THEN IF b.s.sig_xmit_q = <<>> /\ SendableIPdus(b.s) = 0
             THEN [b EXCEPT !.s = NotifyWhenDone(b.s, disc)]
             ELSE AddPdus(b, IF k = 0 THEN 1 ELSE k)
      ELSE AddPdus(b, k)

CheckCongestion(s) ==
    IF s.overall_tx_congested \/ Len(s.i_xmit_q) < MaxTxBuff THEN s
    ELSE IF Connected(s) /\ ~s.remote_busy /\ ~s.is_tx_congested
           THEN [s EXCEPT !.overall_tx_congested = TRUE,
                          !.is_tx_congested = TRUE, !.told = TRUE]
           ELSE [s EXCEPT !.overall_tx_congested = TRUE]

(* Faulty variant: the upper layer is not told.                            *)
CheckUncongested_Silent(s) ==
    IF s.overall_tx_congested /\ Len(s.i_xmit_q) > MaxTxBuff \div 2 THEN s
    ELSE [s EXCEPT !.overall_tx_congested = FALSE,
                   !.is_tx_congested =
                      @ /\ ~(/\ Connected(s)
                             /\ Len(s.i_xmit_q) <= s.remote_rw \div 2)]

CheckUncongested(s) ==
    IF s.overall_tx_congested /\ Len(s.i_xmit_q) > MaxTxBuff \div 2 THEN s
    ELSE LET s1 == [s EXCEPT !.overall_tx_congested = FALSE]
         IN IF Connected(s) /\ s.is_tx_congested
                 /\ Len(s.i_xmit_q) <= s.remote_rw \div 2
              THEN [s1 EXCEPT !.is_tx_congested = FALSE,
                              !.told = @ /\ s.remote_busy]
              ELSE s1

(* Faulty variant: the sender keeps the turn.                              *)
SendToLower_KeepsTurn(s, pdus) ==
    [s EXCEPT !.out = <<[agf |-> Len(pdus) > 1, pdus |-> pdus]>>]

(* llcp_link_send_to_lower: the frame goes to NFC_SendData and the turn to *)
(* the peer.                                                               *)
SendToLower(s, pdus) ==
    [s EXCEPT !.symm_state = "REMOTE_XMIT_NEXT",
              !.out = <<[agf |-> Len(pdus) > 1, pdus |-> pdus]>>]

CheckSendData(s, c) ==
    LET s0 == CheckCongestion(s)
        b1 == BuildNextPdu([pdus |-> <<>>, s |-> s0], c.k1, c.disc)
        b2 == BuildNextPdu([b1 EXCEPT !.s = CheckToSendRrRnr(b1.s, c)],
                           c.k2, c.disc)
    IN IF s.symm_state # "LOCAL_XMIT_NEXT" THEN s0
       ELSE IF b2.pdus = <<>> THEN b2.s
       ELSE CheckUncongested(SendToLower(b2.s, b2.pdus))

(* llcp_util_send_dm and its siblings: allocate, enqueue, try to send.     *)
SendSig(s, p, c) == IF c.pdu THEN CheckSendData(Enqueue(s, p), c) ELSE s

SendDm(s, reason, ep, c) ==
    SendSig(s, [NewPdu("DM", ep) EXCEPT !.reason = reason], c)
-----------------------------------------------------------------------------
(* Received PDUs, llcp_dlc.cc.  s is the receiver, p the PDU.              *)

ProcConnect(s, p, c) ==
    IF s.state # "IDLE"
      THEN SendDm(s, "REJECT", p.ep, c)
      ELSE [AllocateDataLink(s) EXCEPT !.state = "W4_LOCAL_RESP",
                                       !.remote_rw = p.rw, !.ep = p.ep]

(* (A late CC of an earlier attempt is taken for the answer: ep follows.)   *)
ProcCc(s, p) ==
    LET s1 == [s EXCEPT !.state = "CONNECTED", !.remote_rw = p.rw,
                        !.ep = p.ep]
    IN CASE s.state # "W4_REMOTE_RESP" -> s
         [] s.state = "W4_REMOTE_RESP" /\ s.overall_rx_congested ->
              SetFlag(s1, "PENDING_RR_RNR")
         [] s.state = "W4_REMOTE_RESP" /\ ~s.overall_rx_congested -> s1

ProcDisc(s, c) ==
    CASE s.state = "CONNECTED" ->
           DeallocateDataLink(SendDm(s, "RESP_DISC", s.ep, c))
      [] s.state = "W4_REMOTE_DM" -> SendDm(s, "RESP_DISC", s.ep, c)
      [] s.state \notin {"CONNECTED", "W4_REMOTE_DM"} -> s

(* A DM other than the answer to a DISC is for the connection that waits   *)
(* for a CC, whatever its reason.                                          *)
ProcDm(s, p) ==
    IF \/ s.state = "W4_REMOTE_RESP"
       \/ s.state = "W4_REMOTE_DM" /\ p.reason = "RESP_DISC"
      THEN DeallocateDataLink(s) ELSE s

(* V(SA) <= N(R) <= V(S).                                                  *)
NrInRange(s, nr) ==
    Dist(nr, s.rcvd_ack_seq) + Dist(s.next_tx_seq, nr)
      = Dist(s.next_tx_seq, s.rcvd_ack_seq)

FrameError(s, c) == DeallocateDataLink(SendSig(s, NewPdu("FRMR", s.ep), c))

(* The data of an I PDU goes to the last buffer, to the buffer it came in, *)
(* or, out of an AGF PDU, to a new buffer if there is one.                 *)
StoreSdu(s, p, agf, c) ==
    LET q == s.i_rx_q
    IN CASE c.append /\ q # <<>> ->
              [s EXCEPT !.i_rx_q[Len(q)] = Append(@, p.sdu)]
         [] ~(c.append /\ q # <<>>) /\ (~agf \/ c.pdu) ->
              CheckRxCongestedStatus([s EXCEPT !.i_rx_q = Append(@, <<p.sdu>>)])
         [] ~(c.append /\ q # <<>>) /\ ~(~agf \/ c.pdu) -> s

AcceptIPdu(s, p, agf, c) ==
    LET s1 == [s EXCEPT !.next_rx_seq = Inc(@), !.rcvd_ack_seq = p.nr,
                        !.nrcvd = @ + 1]
        s2 == StoreSdu(s1, p, agf, c)
        s3 == [s2 EXCEPT !.num_rx_i_pdu = @ + 1,
                         !.ind = \/ @
                                 \/ ~s.local_busy /\ s.num_rx_i_pdu = 0]
    IN IF ~s3.is_rx_congested /\ s3.num_rx_i_pdu >= RxCongestThreshold
         THEN SetFlag([s3 EXCEPT !.is_rx_congested = TRUE], "PENDING_RR_RNR")
         ELSE s3

ProcI(s, p, agf, c) ==
    IF ~Connected(s) THEN SendDm(s, "NO_ACTIVE_CONNECTION", p.ep, c)
    ELSE IF /\ p.ns = s.next_rx_seq
            /\ Dist(p.ns, s.sent_ack_seq) < s.local_rw
            /\ NrInRange(s, p.nr)
           THEN AcceptIPdu(s, p, agf, c)
           ELSE FrameError(s, c)

AcceptRrRnr(s, p) ==
    LET busy == p.ptype = "RNR"
    IN [s EXCEPT !.rcvd_ack_seq = p.nr, !.remote_busy = busy,
                 !.told = IF s.remote_busy # busy /\ ~s.is_tx_congested
                            THEN busy ELSE @]

ProcRrRnr(s, p, c) ==
    CASE s.state = "IDLE" -> s
      [] s.state # "IDLE" /\ NrInRange(s, p.nr) ->
           PendingDisc(AcceptRrRnr(s, p), c.disc)
      [] s.state # "IDLE" /\ ~NrInRange(s, p.nr) -> FrameError(s, c)

ProcRxPdu(s, p, agf, c) ==
    CASE p.ptype = "CONNECT" -> ProcConnect(s, p, c)
      [] p.ptype = "CC" -> ProcCc(s, p)
      [] p.ptype = "DISC" -> ProcDisc(s, c)
      [] p.ptype = "DM" -> ProcDm(s, p)
      [] p.ptype = "FRMR" -> DeallocateDataLink(s)
      [] p.ptype = "I" -> ProcI(s, p, agf, c)
      [] p.ptype \in {"RR", "RNR"} -> ProcRrRnr(s, p, c)
-----------------------------------------------------------------------------
(* Steps of the link.                                                      *)

Update(n, s) == node' = [node EXCEPT ![n] = s] /\ UNCHANGED <<nep, env>>

InFlight(n) == node[Peer(n)].out # <<>>

(* The next PDU of the frame that n is receiving.                          *)
RxPdu(n) ==
    /\ InFlight(n)
    /\ LET f == node[Peer(n)].out[1]
       IN /\ f.pdus # <<>>
          /\ \E c \in Choice :
               node' = [node EXCEPT
                          ![Peer(n)].out = <<[f EXCEPT !.pdus = Tail(@)]>>,
                          ![n] = ProcRxPdu(@, Head(f.pdus), f.agf, c)]
    /\ UNCHANGED <<nep, env>>

(* End of the frame (at once for a SYMM): the turn to send is n's.         *)
RxEnd(n) ==
    /\ InFlight(n)
    /\ node[Peer(n)].out[1].pdus = <<>>
    /\ \E c \in Choice :
         node' = [node EXCEPT
                    ![Peer(n)].out = <<>>,
                    ![n] = CheckSendData(
                             [@ EXCEPT !.symm_state = "LOCAL_XMIT_NEXT"], c)]
    /\ UNCHANGED <<nep, env>>

(* The link timer in LOCAL_XMIT_NEXT: a SYMM, whatever the queues hold.    *)
SymmTimeout(n) ==
    /\ node[n].symm_state = "LOCAL_XMIT_NEXT"
    /\ \E ok \in PoolOutcomes :
         Update(n, IF ok THEN SendToLower(node[n], <<>>) ELSE node[n])

(* The data link timer: nobody answered a CONNECT, a CONNECT_IND or a DISC *)
DataLinkTimeout(n) ==
    LET s == node[n]
    IN /\ "timeout" \in Uses[n]
       /\ s.state \in {"W4_REMOTE_RESP", "W4_LOCAL_RESP", "W4_REMOTE_DM"}
       /\ \E c \in Choice :
            Update(n, DeallocateDataLink(
                        IF s.state = "W4_LOCAL_RESP"
                          THEN SendDm(s, "REJECT", s.ep, c) ELSE s))

(* The link is lost (LLCP_DLC_EVENT_LINK_ERROR on both sides) and          *)
(* activated again, either device being the initiator.                     *)
LinkDeactivate ==
    /\ \E n \in Node : "linkloss" \in Uses[n]
    /\ \E init \in Node :
         node' = [n \in Node |->
                    [DeallocateDataLink(node[n]) EXCEPT
                       !.sig_xmit_q = <<>>, !.out = <<>>,
                       !.overall_tx_congested = FALSE,
                       !.overall_rx_congested = FALSE,
                       !.symm_state = IF n = init THEN "LOCAL_XMIT_NEXT"
                                                  ELSE "REMOTE_XMIT_NEXT"]]
    /\ UNCHANGED <<nep, env>>
-----------------------------------------------------------------------------
(* The API of the upper layer, llcp_api.cc.                                *)

(* A CONNECT that gets no buffer leaves the control block IDLE, where      *)
(* llcp_util_deallocate_data_link does nothing.                            *)
ConnectReq ==
    LET s == AllocateDataLink(node[Client])
    IN /\ node[Client].state = "IDLE"
       /\ nep < MaxEp
       /\ nep' = nep + 1 /\ UNCHANGED env
       /\ \E c \in Choice :
            node' = [node EXCEPT ![Client] =
              IF c.pdu
                THEN [CheckSendData(
                        Enqueue(s, [NewPdu("CONNECT", nep + 1)
                                      EXCEPT !.rw = RW[Client]]), c)
                        EXCEPT !.local_rw = RW[Client], !.ep = nep + 1,
                               !.state = "W4_REMOTE_RESP"]
                ELSE s]

ConnectCfm(n) ==
    LET s1 == [node[n] EXCEPT !.local_rw = RW[n], !.state = "CONNECTED"]
        s2 == IF s1.overall_rx_congested
                THEN SetFlag(s1, "PENDING_RR_RNR") ELSE s1
        p == [NewPdu("CC", s1.ep) EXCEPT !.rw = RW[n]]
    IN /\ node[n].state = "W4_LOCAL_RESP"
       /\ \E c \in Choice :
            Update(n, IF c.pdu THEN CheckSendData(Enqueue(s2, p), c)
                               ELSE DeallocateDataLink(s2))

(* In a state other than W4_LOCAL_RESP the event fails but the control     *)
(* block is deallocated all the same.                                      *)
ConnectReject(n) ==
    /\ "reject" \in Uses[n]
    /\ node[n].state = "W4_LOCAL_RESP"
    /\ \E c \in Choice :
         Update(n, DeallocateDataLink(SendDm(node[n], "REJECT", node[n].ep, c)))

SendData(n) ==
    LET s == node[n]
        s1 == [s EXCEPT !.i_xmit_q = Append(@, s.nsent + 1),
                        !.nsent = @ + 1]
    IN /\ "send" \in Uses[n]
       /\ Connected(s) /\ s.remote_rw # 0 /\ s.nsent < MaxSdu
       /\ \E c \in Choice :
            LET s2 == CheckSendData(s1, c)
                congested == \/ s2.is_tx_congested
                             \/ s2.overall_tx_congested
                             \/ s2.remote_busy
                             \/ Len(s2.i_xmit_q) >= s2.remote_rw
            IN Update(n, [s2 EXCEPT !.is_tx_congested = congested,
                                    !.told = @ \/ congested])

(* The caller has "pending" SDUs of its own on their way to LLCP.          *)
IsDataLinkCongested(n, pending) ==
    LET s == node[n]
        full == \/ pending + Len(s.i_xmit_q) >= s.remote_rw
                \/ pending + Len(s.i_xmit_q) >= MaxTxBuff
    IN /\ "query" \in Uses[n]
       /\ Connected(s)
       /\ Update(n, IF s.is_tx_congested \/ s.remote_busy
                      THEN [s EXCEPT !.told = TRUE]
                      ELSE [s EXCEPT !.is_tx_congested = full,
                                     !.told = full])

(* One whole SDU is read; reading an empty queue tells the upper layer     *)
(* that there is no more.                                                  *)
ReadDataLinkData(n) ==
    LET s == node[n]
        q == s.i_rx_q
        s1 == IF q = <<>> THEN s ELSE [s EXCEPT !.num_rx_i_pdu = @ - 1]
        s2 == CASE q = <<>> -> s1
                [] q # <<>> /\ Len(q[1]) = 1 ->
                     CheckRxCongestedStatus([s1 EXCEPT !.i_rx_q = Tail(q)])
                [] q # <<>> /\ Len(q[1]) # 1 ->
                     [s1 EXCEPT !.i_rx_q[1] = Tail(@)]
        s3 == IF /\ ~s.local_busy /\ s.is_rx_congested
                 /\ s1.num_rx_i_pdu <= RxCongestThreshold \div 2
                THEN SetFlag([s2 EXCEPT !.is_rx_congested = FALSE],
                             "PENDING_RR_RNR")
                ELSE s2
    IN /\ s.state # "IDLE" /\ (q # <<>> \/ s.ind)
       /\ Update(n, [s3 EXCEPT !.ind = @ /\ s3.i_rx_q # <<>>])

FlushRxData(n) ==
    /\ "flush" \in Uses[n]
    /\ node[n].state # "IDLE"
    /\ Update(n, FlushDataLinkRxData(node[n]))

DisconnectReq(n, flush) ==
    LET s == node[n]
    IN /\ "disc" \in Uses[n]
       /\ Connected(s)
       /\ \E c \in Choice :
            Update(n, CASE flush \/ NothingPending(s) ->
                             IF c.pdu
                               THEN CheckSendData(EnterW4RemoteDm(s, TRUE), c)
                               ELSE EnterW4RemoteDm(s, FALSE)
                        [] ~(flush \/ NothingPending(s)) ->
                             SetFlag(s, "PENDING_DISC"))

SetTxCompleteNtf(n) ==
    /\ "txdone" \in Uses[n]
    /\ node[n].state # "IDLE"
    /\ Update(n, SetFlag(node[n], "NOTIFY_TX_DONE"))

SetLocalBusyStatus(n, busy) ==
    LET s == node[n]
        s1 == SetFlag([s EXCEPT !.local_busy = busy], "PENDING_RR_RNR")
    IN /\ "busy" \in Uses[n]
       /\ s.state # "IDLE" /\ s.local_busy # busy
       /\ Update(n, IF ~busy /\ s.i_rx_q # <<>> /\ Connected(s)
                      THEN [s1 EXCEPT !.ind = TRUE] ELSE s1)
-----------------------------------------------------------------------------
Link(n) == RxPdu(n) \/ RxEnd(n) \/ SymmTimeout(n)

Api(n) ==
    \/ ConnectCfm(n) \/ ConnectReject(n) \/ SendData(n)
    \/ \E pending \in 0..1 : IsDataLinkCongested(n, pending)
    \/ ReadDataLinkData(n) \/ FlushRxData(n)
    \/ \E flush \in BOOLEAN : DisconnectReq(n, flush)
    \/ SetTxCompleteNtf(n)
    \/ \E busy \in BOOLEAN : SetLocalBusyStatus(n, busy)

Next ==
    \/ ConnectReq
    \/ LinkDeactivate
    \/ \E n \in Node : Link(n) \/ Api(n) \/ DataLinkTimeout(n)

Spec == Init /\ [][Next]_vars

(* The symmetry procedure never stops: each device receives frames for     *)
(* ever (the NFCC delivers what NFC_SendData gave it, and the SYMM timer   *)
(* always runs in LOCAL_XMIT_NEXT).  The upper layer answers a connect     *)
(* indication, "reads data until queue is empty", and stops being busy.  *)
Receives(n) == InFlight(n) /\ node'[Peer(n)].out = <<>>

Fairness ==
    \A n \in Node :
      /\ []<><<Receives(n)>>_vars
      /\ []<>(node[n].state # "W4_LOCAL_RESP")
      /\ []<>(node[n].i_rx_q = <<>>)
      /\ <>[](~node[n].local_busy)

FairSpec == Spec /\ Fairness
-----------------------------------------------------------------------------
(* Properties.                                                             *)

(* Types of the control blocks.                                            *)
TypeOK ==
    /\ env \in Environments
    /\ node \in [Node -> ControlBlock]
    /\ nep \in 0..MaxEp

(* The symmetry procedure (symm_state) never gives both devices the turn   *)
(* to send, never lets a device send into a frame the other has not        *)
(* received completely, and never loses the turn.                          *)
HalfDuplex ==
    /\ \A n \in Node :
         /\ Len(node[n].out) <= 1
         /\ node[n].symm_state = "LOCAL_XMIT_NEXT" =>
              /\ node[Peer(n)].symm_state = "REMOTE_XMIT_NEXT"
              /\ node[n].out = <<>> /\ node[Peer(n)].out = <<>>
         /\ node[n].out # <<>> => node[Peer(n)].out = <<>>
    /\ \E n \in Node : \/ node[n].symm_state = "LOCAL_XMIT_NEXT"
                       \/ node[n].out # <<>>

(* No more than the remote's receive window of I PDUs is unacknowledged    *)
(* (llcp_dlc_is_rw_open), whatever acknowledgements arrive.                *)
WindowRespected ==
    \A n \in Node :
      Dist(node[n].next_tx_seq, node[n].rcvd_ack_seq) <= node[n].remote_rw

(* The PDU that n will process next.                                       *)
HasNext(n) == InFlight(n) /\ node[Peer(n)].out[1].pdus # <<>>

NextPdu(n) == Head(node[Peer(n)].out[1].pdus)

(* Every I PDU that reaches an open connection belongs to it, carries the  *)
(* next SDU in order, and passes the N(S) and N(R) checks of               *)
(* llcp_dlc_proc_i_pdu.                                                    *)
DataInOrder ==
    \A n \in Node :
      HasNext(n) /\ NextPdu(n).ptype = "I" /\ Connected(node[n]) =>
        /\ NextPdu(n).ep = node[n].ep
        /\ NextPdu(n).sdu = node[n].nrcvd + 1
        /\ NextPdu(n).ns = node[n].next_rx_seq
        /\ Dist(NextPdu(n).ns, node[n].sent_ack_seq) < node[n].local_rw
        /\ NrInRange(node[n], NextPdu(n).nr)

(* An RR or RNR of the open connection passes the N(R) check.              *)
AckInRange ==
    \A n \in Node :
      (/\ HasNext(n) /\ NextPdu(n).ptype \in {"RR", "RNR"}
       /\ NextPdu(n).ep = node[n].ep /\ node[n].state # "IDLE")
        => NrInRange(node[n], NextPdu(n).nr)

(* V(RA) is the N(R) that was last sent: the peer hears of every           *)
(* acknowledgement.                                                        *)
AckIsSent ==
    \A n \in Node :
      Connected(node[n]) => node[n].last_nr = node[n].sent_ack_seq

(* The sequence numbers of llcp_dlc.cc keep the two devices together: the  *)
(* window is respected, two devices running this code never reject each    *)
(* other's I, RR and RNR PDUs with FRMR, no SDU is lost, repeated or       *)
(* reordered, and no acknowledgement is kept back.                         *)
InSequence == WindowRespected /\ DataInOrder /\ AckInRange /\ AckIsSent

(* LLCP_SAP_EVT_TX_COMPLETE is true: all the SDUs accepted before it have  *)
(* reached the peer of the connection.                                     *)
TxCompleteIsTrue ==
    \A n \in Node :
      node[n].ep = node[Peer(n)].ep =>
        node[n].ncomplete <= node[Peer(n)].nrcvd

(* A DISC sent once nothing was pending (without flush) finds a peer that  *)
(* has received every SDU.                                                 *)
CleanDisc ==
    \A n \in Node :
      (/\ HasNext(n) /\ NextPdu(n).ptype = "DISC"
       /\ NextPdu(n).ep = node[n].ep /\ NextPdu(n).sdu > 0)
        => node[n].nrcvd = NextPdu(n).sdu

(* Received data of a device that is not busy has been announced to the    *)
(* upper layer (llcp_dlc_proc_i_pdu: "notify rx data is available so upper *)
(* layer reads data until queue is empty").                                *)
DataIndicated ==
    \A n \in Node :
      (/\ Connected(node[n]) /\ ~node[n].local_busy
       /\ node[n].i_rx_q # <<>>)
        => node[n].ind

(* What the upper layers of the two ends are told is so: of the end of a   *)
(* transmission, of an orderly end, and of data that waits to be read.     *)
DeliveredAsTold == TxCompleteIsTrue /\ CleanDisc /\ DataIndicated

(* is_rx_congested ("true if rx I PDU is congested") holds only while more *)
(* than half of the threshold waits to be read, unless the upper layer     *)
(* itself stops the flow by local busy.                                    *)
RxCongestionIsReal ==
    \A n \in Node :
      node[n].is_rx_congested /\ ~node[n].local_busy =>
        node[n].num_rx_i_pdu > RxCongestThreshold \div 2

(* The upper layers that neither reject nor are busy, and no timer runs    *)
(* out before its answer: what progress needs besides the link.            *)
Orderly == \A n \in Node : env.uses[n] \cap {"busy", "reject", "timeout", "linkloss"} = {}

(* An upper layer that was told of congestion is told of its end, or the   *)
(* connection ends.                                                        *)
CongestionEnds ==
    \A n \in Node : (Orderly /\ node[n].told) ~> ~node[n].told

(* Every I PDU is acknowledged in the end, and a disconnect request that   *)
(* waits for pending data is carried out, unless the connection ends.      *)
DataAcknowledged ==
    \A n \in Node :
      /\ (Orderly /\ node[n].next_tx_seq # node[n].rcvd_ack_seq)
           ~> \/ node[n].next_tx_seq = node[n].rcvd_ack_seq
              \/ ~Connected(node[n])
      /\ (Orderly /\ "PENDING_DISC" \in node[n].flags) ~> ~Connected(node[n])
=============================================================================
