--------------------------- MODULE LlcpDlcProofs ---------------------------
(***************************************************************************)
(* Type correctness of LlcpDlc, the half duplex discipline of the symmetry *)
(* procedure and the announcement of received data, for all values of the  *)
(* constants.                                                              *)
(*                                                                         *)
(* The argument.  Every operator from control block to control block       *)
(* either leaves symm_state and out as they are (Stays) or, called with    *)
(* the turn, sends one frame and gives the turn away (Sent).  No handler   *)
(* of a received PDU can do the latter, because its device does not have   *)
(* the turn; the end of a frame, the timer and the API can, at most once.  *)
(*                                                                         *)
(* The second part is about what a device has received: num_rx_i_pdu is    *)
(* the number of SDUs that wait (Counted: the sum is a function that the   *)
(* proofs exhibit and change with the queue), so that the first one that   *)
(* comes is the one announced.  An operator either leaves all of this      *)
(* alone (Alike), or is one of the few that receive, read or flush.        *)
(***************************************************************************)
EXTENDS LlcpDlc, SequenceTheorems, TLAPS

(* From s to t the device neither sends nor changes the turn. *)
Stays(s, t) ==
    t \in ControlBlock /\ t.symm_state = s.symm_state /\ t.out = s.out

(* Sequence numbers are naturals and 0 is one of them. *)
LEMMA SeqNumFacts == 0 \in SeqNum /\ SeqNum \subseteq Nat /\ SeqNum \subseteq Int
BY SeqAssumption DEF SeqNum

(* The distance of two sequence numbers is a sequence number. *)
LEMMA DistType == ASSUME NEW a \in SeqNum, NEW b \in SeqNum PROVE Dist(a, b) \in SeqNum
BY SeqAssumption DEF SeqNum, Dist

(* The successor of a sequence number is a sequence number. *)
LEMMA IncType == ASSUME NEW a \in SeqNum PROVE Inc(a) \in SeqNum
BY SeqAssumption DEF SeqNum, Inc

(* A device without a connection has a well-typed control block. *)
LEMMA NewBlockType == NewBlock \in ControlBlock
<1>1. <<>> \in Seq(Nat) /\ <<>> \in Seq(Buffer) /\ <<>> \in Seq(Frame) /\ <<>> \in Seq(Pdu)  OBVIOUS
<1> QED BY <1>1, SeqNumFacts DEF NewBlock, ControlBlock, DLC_STATE, SYMM_STATE

(* ResetDlcb touches the connection, not the link. *)
LEMMA ResetStays == ASSUME NEW s \in ControlBlock PROVE Stays(s, ResetDlcb(s))
BY NewBlockType DEF ResetDlcb, ControlBlock, Stays

(* Setting a flag of the connection leaves the link alone. *)
LEMMA SetFlagStays ==
    ASSUME NEW s \in ControlBlock, NEW f \in FLAG PROVE Stays(s, SetFlag(s, f))
BY DEF SetFlag, ControlBlock, Stays

(* Clearing a flag of the connection leaves the link alone. *)
LEMMA ClearFlagStays ==
    ASSUME NEW s \in ControlBlock, NEW f PROVE Stays(s, ClearFlag(s, f))
BY DEF ClearFlag, ControlBlock, Stays

(* Stays is transitive. *)
LEMMA StaysTrans ==
    ASSUME NEW s, NEW t, NEW u, Stays(s, t), Stays(t, u) PROVE Stays(s, u)
BY DEF Stays

(* llcp_util_check_rx_congested_status leaves the link alone. *)
LEMMA CheckRxStays ==
    ASSUME NEW s \in ControlBlock PROVE Stays(s, CheckRxCongestedStatus(s))
<1>1. Stays(s, [s EXCEPT !.overall_rx_congested = ~@]) BY ZenonT(60) DEF ControlBlock, Stays
<1>2. Stays(s, s) BY DEF Stays
<1> QED BY <1>1, <1>2, SetFlagStays DEF CheckRxCongestedStatus, FLAG, Stays

(* What Stays relates to is a control block. *)
LEMMA StaysType == ASSUME NEW s, NEW t, Stays(s, t) PROVE t \in ControlBlock
BY DEF Stays

(* Stays is reflexive on control blocks. *)
LEMMA StaysRefl == ASSUME NEW s \in ControlBlock PROVE Stays(s, s)
BY DEF Stays

(* Assignments to single fields of the connection. *)
LEMMA FieldStays ==
    ASSUME NEW s \in ControlBlock
    PROVE  /\ Stays(s, [s EXCEPT !.is_rx_congested = FALSE])
           /\ \A x \in Nat : Stays(s, [s EXCEPT !.num_data_link_connection = x])
           /\ \A x \in SeqNum : Stays(s, [s EXCEPT !.last_nr = x])
           /\ \A x \in Nat : Stays(s, [s EXCEPT !.ncomplete = x])
           /\ s.num_data_link_connection \in Nat
           /\ s.num_data_link_connection > 0 => s.num_data_link_connection - 1 \in Nat
<1>1. Stays(s, [s EXCEPT !.is_rx_congested = FALSE]) BY DEF ControlBlock, Stays
<1>2. ASSUME NEW x \in Nat PROVE Stays(s, [s EXCEPT !.num_data_link_connection = x]) BY DEF ControlBlock, Stays
<1>3. ASSUME NEW x \in SeqNum PROVE Stays(s, [s EXCEPT !.last_nr = x]) BY DEF ControlBlock, Stays
<1>4. ASSUME NEW x \in Nat PROVE Stays(s, [s EXCEPT !.ncomplete = x]) BY DEF ControlBlock, Stays
<1>5. s.num_data_link_connection \in Nat BY DEF ControlBlock
<1>6. s.num_data_link_connection > 0 => s.num_data_link_connection - 1 \in Nat BY <1>5
<1> QED BY <1>1, <1>2, <1>3, <1>4, <1>5, <1>6

(* LLCP_FlushDataLinkRxData leaves the link alone. *)
LEMMA FlushStays ==
    ASSUME NEW s \in ControlBlock PROVE Stays(s, FlushDataLinkRxData(s))
<1> DEFINE s1 == [s EXCEPT !.i_rx_q = <<>>, !.num_rx_i_pdu = 0, !.ind = FALSE]
           s2 == [s1 EXCEPT !.is_rx_congested = FALSE]
           s3 == SetFlag(s2, "PENDING_RR_RNR")
<1>0. <<>> \in Seq(Buffer) OBVIOUS
<1>a. ASSUME NEW z \in Seq(Buffer), NEW i \in Int
      PROVE  Stays(s, [s EXCEPT !.i_rx_q = z, !.num_rx_i_pdu = i, !.ind = FALSE])
  BY DEF ControlBlock, Stays
<1>b. 0 \in Int OBVIOUS
<1>1. Stays(s, s1) BY <1>0, <1>a, <1>b, Zenon
<1> HIDE DEF s1
<1>2. Stays(s, s2) BY <1>1, FieldStays, StaysType, StaysTrans, SeqNumFacts
<1> HIDE DEF s2
<1>3. Stays(s, s3) BY <1>2, SetFlagStays, StaysType, StaysTrans DEF FLAG
<1> HIDE DEF s3
<1>4. \/ FlushDataLinkRxData(s) = CheckRxCongestedStatus(s1)
      \/ FlushDataLinkRxData(s) = CheckRxCongestedStatus(s3)
  BY DEF FlushDataLinkRxData, s1, s2, s3
<1> QED BY <1>1, <1>3, <1>4, CheckRxStays, StaysType, StaysTrans

(* llcp_util_allocate_data_link leaves the link alone. *)
LEMMA AllocateStays ==
    ASSUME NEW s \in ControlBlock PROVE Stays(s, AllocateDataLink(s))
<1> DEFINE r == ResetDlcb(s)
<1>1. Stays(s, r) BY ResetStays
<1>2. AllocateDataLink(s) =
        [r EXCEPT !.num_data_link_connection = r.num_data_link_connection + 1]
  BY DEF AllocateDataLink
<1> HIDE DEF r
<1>3. r \in ControlBlock BY <1>1, StaysType
<1>4. r.num_data_link_connection \in Nat BY <1>3, FieldStays
<1>5. r.num_data_link_connection + 1 \in Nat BY <1>4
<1> QED BY <1>1, <1>2, <1>3, <1>5, FieldStays, StaysTrans

(* llcp_util_deallocate_data_link leaves the link alone. *)
LEMMA DeallocateStays ==
    ASSUME NEW s \in ControlBlock PROVE Stays(s, DeallocateDataLink(s))
<1> DEFINE s1 == [s EXCEPT !.i_xmit_q = <<>>]
           r == ResetDlcb(FlushDataLinkRxData(s1))
<1>0. <<>> \in Seq(Nat) OBVIOUS
<1>1. Stays(s, s1) BY <1>0 DEF ControlBlock, Stays
<1>2. Stays(s, r)
  <2> HIDE DEF s1
  <2> QED BY <1>1, FlushStays, ResetStays, StaysTrans, StaysType
<1>3. DeallocateDataLink(s) = IF s.state = "IDLE" THEN s
        ELSE [r EXCEPT !.num_data_link_connection = IF @ > 0 THEN @ - 1 ELSE @]
  BY DEF DeallocateDataLink
<1> HIDE DEF r
<1> QED BY <1>2, <1>3, StaysRefl, FieldStays, StaysTrans, StaysType, SeqNumFacts

(* Queueing a signalling PDU does not send it. *)
LEMMA EnqueueStays ==
    ASSUME NEW s \in ControlBlock, NEW p \in Pdu PROVE Stays(s, Enqueue(s, p))
<1> DEFINE q == Append(s.sig_xmit_q, p)
<1>1. s.sig_xmit_q \in Seq(Pdu) BY DEF ControlBlock
<1>2. q \in Seq(Pdu) BY <1>1
<1>3. Enqueue(s, p) = [s EXCEPT !.sig_xmit_q = q] BY DEF Enqueue
<1> HIDE DEF q
<1> QED BY <1>2, <1>3, ZenonT(60) DEF ControlBlock, Stays

(* NewPdu makes PDUs. *)
LEMMA NewPduType ==
    ASSUME NEW ptype \in PTYPE, NEW ep \in Nat PROVE NewPdu(ptype, ep) \in Pdu
BY SeqNumFacts DEF NewPdu, Pdu, REASON

(* llcp_util_send_rr_rnr queues at most a PDU. *)
LEMMA SendRrRnrStays ==
    ASSUME NEW s \in ControlBlock, NEW ok \in BOOLEAN PROVE Stays(s, SendRrRnr(s, ok))
<1> DEFINE s1 == IF RxFlowOff(s) THEN s ELSE [s EXCEPT !.sent_ack_seq = s.next_rx_seq]
           p == [NewPdu(IF RxFlowOff(s) THEN "RNR" ELSE "RR", s.ep) EXCEPT !.nr = s1.sent_ack_seq]
           s2 == Enqueue(ClearFlag(s1, "PENDING_RR_RNR"), p)
<1>0. Stays(s, s) BY DEF Stays
<1>1. Stays(s, [s EXCEPT !.sent_ack_seq = s.next_rx_seq]) BY DEF ControlBlock, Stays
<1>2. Stays(s, s1) BY <1>0, <1>1
<1>3. s1.sent_ack_seq \in SeqNum /\ s.ep \in Nat BY <1>2 DEF Stays, ControlBlock
<1> HIDE DEF s1
<1>4. NewPdu(IF RxFlowOff(s) THEN "RNR" ELSE "RR", s.ep) \in Pdu
  BY <1>3, NewPduType DEF PTYPE
<1>5. p \in Pdu BY <1>3, <1>4 DEF Pdu
<1> HIDE DEF p
<1>6. Stays(s, s2) BY <1>2, <1>5, ClearFlagStays, EnqueueStays, StaysTrans, StaysType
<1>7. Stays(s, [s2 EXCEPT !.last_nr = s1.sent_ack_seq])
  <2> HIDE DEF s2
  <2> QED BY <1>3, <1>6, FieldStays, StaysTrans, StaysType
<1>8. SendRrRnr(s, ok) \in {s, s1, [s2 EXCEPT !.last_nr = s1.sent_ack_seq]}
  BY DEF SendRrRnr, s1, s2, p
<1> QED BY <1>0, <1>2, <1>7, <1>8

(* Leaving CONNECTED queues at most a DISC. *)
LEMMA EnterW4RemoteDmStays ==
    ASSUME NEW s \in ControlBlock, NEW ok \in BOOLEAN
    PROVE  Stays(s, EnterW4RemoteDm(s, ok))
<1> DEFINE s1 == [s EXCEPT !.state = "W4_REMOTE_DM"]
           p == [NewPdu("DISC", s.ep) EXCEPT !.sdu = IF NothingPending(s) THEN s.nsent ELSE 0]
<1>1. Stays(s, s1) /\ s.ep \in Nat /\ s.nsent \in Nat BY DEF ControlBlock, Stays, DLC_STATE
<1>2. NewPdu("DISC", s.ep) \in Pdu BY <1>1, NewPduType DEF PTYPE
<1>3. p \in Pdu BY <1>1, <1>2 DEF Pdu
<1>4. EnterW4RemoteDm(s, ok) = IF ok THEN Enqueue(s1, p) ELSE s1 BY DEF EnterW4RemoteDm
<1> HIDE DEF s1, p
<1> QED BY <1>1, <1>3, <1>4, EnqueueStays, StaysTrans, StaysType

(* A disconnect that waited queues at most a DISC. *)
LEMMA PendingDiscStays ==
    ASSUME NEW s \in ControlBlock, NEW ok \in BOOLEAN PROVE Stays(s, PendingDisc(s, ok))
<1>1. Stays(s, s) BY DEF Stays
<1> QED BY <1>1, ClearFlagStays, EnterW4RemoteDmStays, StaysTrans, StaysType DEF PendingDisc

(* The tail of llcp_dlc_get_next_pdu sends nothing. *)
LEMMA NotifyWhenDoneStays ==
    ASSUME NEW s \in ControlBlock, NEW ok \in BOOLEAN PROVE Stays(s, NotifyWhenDone(s, ok))
<1>1. Stays(s, PendingDisc(s, ok)) BY PendingDiscStays
<1>2. s.nsent \in Nat BY DEF ControlBlock
<1> QED BY <1>1, <1>2, FieldStays, ClearFlagStays, StaysTrans, StaysType, SeqNumFacts
  DEF NotifyWhenDone

(* llcp_dlc_check_to_send_rr_rnr queues PDUs, it sends none. *)
LEMMA CheckToSendRrRnrStays ==
    ASSUME NEW s \in ControlBlock, NEW c \in Choice PROVE Stays(s, CheckToSendRrRnr(s, c))
<1>1. Stays(s, s) BY DEF Stays
<1>2. c.rr \in BOOLEAN /\ c.disc \in BOOLEAN BY EnvAssumption DEF Choice
<1> QED BY <1>1, <1>2, SendRrRnrStays, PendingDiscStays, StaysTrans, StaysType DEF CheckToSendRrRnr

(* From s to t the device sends one frame and gives the turn away. *)
Sent(s, t) ==
    /\ t \in ControlBlock
    /\ s.symm_state = "LOCAL_XMIT_NEXT" /\ t.symm_state = "REMOTE_XMIT_NEXT"
    /\ t.out # <<>> /\ Len(t.out) <= 1

(* Splitting a sequence gives sequences over the same set. *)
LEMMA SubSeqType ==
    ASSUME NEW S, NEW q \in Seq(S), NEW m \in Nat, m <= Len(q)
    PROVE  /\ SubSeq(q, 1, m) \in Seq(S)
           /\ SubSeq(q, m + 1, Len(q)) \in Seq(S)
<1>1. Len(q) \in Nat /\ \A i \in 1..Len(q) : q[i] \in S BY LenProperties, ElementOfSeq
<1>2. \A i \in 1..m : q[i] \in S BY <1>1
<1>3. \A i \in (m+1)..Len(q) : q[i] \in S BY <1>1
<1>4. SubSeq(q, 1, m) \in Seq(S) BY <1>2, SubSeqProperties
<1>5. SubSeq(q, m + 1, Len(q)) \in Seq(S) BY <1>1, <1>3, SubSeqProperties
<1> QED BY <1>4, <1>5

(* Never more I PDUs are taken than are queued. *)
LEMMA SendableType ==
    ASSUME NEW s \in ControlBlock
    PROVE  SendableIPdus(s) \in Nat /\ SendableIPdus(s) <= Len(s.i_xmit_q)
<1>1. /\ s.next_tx_seq \in SeqNum /\ s.rcvd_ack_seq \in SeqNum /\ s.remote_rw \in Nat
      /\ Len(s.i_xmit_q) \in Nat
  BY SeqNumFacts, LenProperties DEF ControlBlock
<1>2. Dist(s.next_tx_seq, s.rcvd_ack_seq) \in Nat BY <1>1, DistType, SeqNumFacts
<1> QED BY <1>1, <1>2 DEF SendableIPdus, MinNat

(* llcp_dlc_get_next_pdu gives PDUs and leaves the turn. *)
LEMMA BuildInfoPdusType ==
    ASSUME NEW s \in ControlBlock, NEW m \in Nat, m <= Len(s.i_xmit_q)
    PROVE  /\ BuildInfoPdus(s, m).pdus \in Seq(Pdu)
           /\ Stays(s, BuildInfoPdus(s, m).s)
<1> DEFINE nr == IF RxFlowOff(s) THEN s.sent_ack_seq ELSE s.next_rx_seq
           p(j) == [NewPdu("I", s.ep)
                       EXCEPT !.ns = (s.next_tx_seq + j - 1) % LLCP_SEQ_MODULO,
                              !.nr = nr, !.sdu = s.i_xmit_q[j]]
           q == SubSeq(s.i_xmit_q, m + 1, Len(s.i_xmit_q))
           x == (s.next_tx_seq + m) % LLCP_SEQ_MODULO
           t == [s EXCEPT !.i_xmit_q = q, !.next_tx_seq = x, !.sent_ack_seq = nr, !.last_nr = nr]
<1>0. s.next_tx_seq \in Nat BY SeqNumFacts DEF ControlBlock
<1>1. nr \in SeqNum /\ s.ep \in Nat /\ s.i_xmit_q \in Seq(Nat) /\ s.next_tx_seq \in SeqNum
  BY DEF ControlBlock
<1> HIDE DEF nr
<1>2. NewPdu("I", s.ep) \in Pdu BY <1>1, NewPduType DEF PTYPE
<1>3. ASSUME NEW j \in 1..m PROVE p(j) \in Pdu
  <2>1. (s.next_tx_seq + j - 1) % LLCP_SEQ_MODULO \in SeqNum
    <3>1. s.next_tx_seq + j - 1 \in Int BY <1>0
    <3> QED BY <3>1, SeqAssumption DEF SeqNum
  <2>2. s.i_xmit_q[j] \in Nat BY <1>1, ElementOfSeq, LenProperties
  <2> QED BY <1>1, <1>2, <2>1, <2>2 DEF Pdu
<1>4. [j \in 1..m |-> p(j)] \in Seq(Pdu)
  <2> HIDE DEF p
  <2> QED BY <1>3, SeqDef
<1>5. q \in Seq(Nat) BY <1>1, SubSeqType
<1>6. x \in SeqNum
  <2>1. s.next_tx_seq + m \in Int BY <1>0
  <2> QED BY <2>1, SeqAssumption DEF SeqNum
<1>7. BuildInfoPdus(s, m).pdus = [j \in 1..m |-> p(j)] BY DEF BuildInfoPdus, nr
<1>8. BuildInfoPdus(s, m).s = IF m = 0 THEN s ELSE t BY DEF BuildInfoPdus, nr
<1> HIDE DEF q, x
<1>9. Stays(s, t) BY <1>1, <1>5, <1>6 DEF ControlBlock, Stays
<1> QED BY <1>4, <1>7, <1>8, <1>9, StaysRefl

(* b is a transmission under construction, s the device at its start. *)
Built(s, b) == \E pdus, t : pdus \in Seq(Pdu) /\ b = [pdus |-> pdus, s |-> t] /\ Stays(s, t)

(* llcp_link_get_next_pdu extends the transmission. *)
LEMMA AddPdusType ==
    ASSUME NEW s \in ControlBlock, NEW pdus \in Seq(Pdu), NEW k \in Nat
    PROVE  Built(s, AddPdus([pdus |-> pdus, s |-> s], k))
<1> DEFINE nsig == MinNat(k, Len(s.sig_xmit_q))
           sigs == SubSeq(s.sig_xmit_q, 1, nsig)
           rest == SubSeq(s.sig_xmit_q, nsig + 1, Len(s.sig_xmit_q))
           s1 == [s EXCEPT !.sig_xmit_q = rest]
           m == MinNat(k - nsig, SendableIPdus(s))
           info == BuildInfoPdus(s1, m)
<1>1. s.sig_xmit_q \in Seq(Pdu) /\ Len(s.sig_xmit_q) \in Nat BY LenProperties DEF ControlBlock
<1>2. nsig \in Nat /\ nsig <= Len(s.sig_xmit_q) /\ k - nsig \in Nat BY <1>1 DEF MinNat
<1>3. m \in Nat /\ m <= Len(s.i_xmit_q)
  <2>1. SendableIPdus(s) \in Nat /\ SendableIPdus(s) <= Len(s.i_xmit_q) BY SendableType
  <2>2. Len(s.i_xmit_q) \in Nat BY LenProperties DEF ControlBlock
  <2> QED BY <1>2, <2>1, <2>2 DEF MinNat
<1>4. sigs \in Seq(Pdu) /\ rest \in Seq(Pdu) BY <1>1, <1>2, SubSeqType
<1> HIDE DEF nsig, m, rest
<1>5. Stays(s, s1) /\ s1.i_xmit_q = s.i_xmit_q BY <1>4 DEF ControlBlock, Stays
<1> HIDE DEF s1
<1>6. info.pdus \in Seq(Pdu) /\ Stays(s1, info.s) BY <1>3, <1>5, BuildInfoPdusType, StaysType
<1>7. AddPdus([pdus |-> pdus, s |-> s], k) = [pdus |-> pdus \o sigs \o info.pdus, s |-> info.s]
  BY DEF AddPdus, nsig, m, rest, s1
<1> HIDE DEF info, sigs
<1>8. pdus \o sigs \o info.pdus \in Seq(Pdu) BY <1>4, <1>6, ConcatProperties
<1>9. Stays(s, info.s) BY <1>5, <1>6, StaysTrans
<1> HIDE DEF info
<1> QED BY <1>7, <1>8, <1>9 DEF Built
(* llcp_link_build_next_pdu extends the transmission. *)
LEMMA BuildNextPduType ==
    ASSUME NEW s \in ControlBlock, NEW b, Built(s, b), NEW k \in Nat, NEW ok \in BOOLEAN
    PROVE  Built(s, BuildNextPdu(b, k, ok))
<1>1. PICK pdus, t : pdus \in Seq(Pdu) /\ b = [pdus |-> pdus, s |-> t] /\ Stays(s, t)
  BY DEF Built
<1>2. t \in ControlBlock BY <1>1, StaysType
<1>3. \A j \in Nat : Built(t, AddPdus(b, j)) BY <1>1, <1>2, AddPdusType
<1>4. \A j \in Nat : Built(s, AddPdus(b, j)) BY <1>1, <1>3, StaysTrans DEF Built
<1>5. Built(s, [b EXCEPT !.s = NotifyWhenDone(b.s, ok)])
  <2>1. b.s = t /\ [b EXCEPT !.s = NotifyWhenDone(b.s, ok)] = [pdus |-> pdus, s |-> NotifyWhenDone(t, ok)]
    BY <1>1
  <2>2. Stays(s, NotifyWhenDone(t, ok)) BY <1>1, <1>2, NotifyWhenDoneStays, StaysTrans
  <2> QED BY <2>1, <2>2 DEF Built
<1>6. (IF k = 0 THEN 1 ELSE k) \in Nat OBVIOUS
<1> QED BY <1>4, <1>5, <1>6 DEF BuildNextPdu

(* llcp_link_check_congestion leaves the link alone. *)
LEMMA CheckCongestionStays ==
    ASSUME NEW s \in ControlBlock PROVE Stays(s, CheckCongestion(s))
<1> DEFINE t1 == [s EXCEPT !.overall_tx_congested = TRUE]
           t2 == [s EXCEPT !.overall_tx_congested = TRUE,
                           !.is_tx_congested = TRUE, !.told = TRUE]
<1>1. Stays(s, t1) BY DEF ControlBlock, Stays
<1>2. Stays(s, t2) BY DEF ControlBlock, Stays
<1>3. CheckCongestion(s) \in {s, t1, t2} BY DEF CheckCongestion
<1> HIDE DEF t1, t2
<1> QED BY <1>1, <1>2, <1>3, StaysRefl

(* llcp_link_check_uncongested leaves the link alone. *)
LEMMA CheckUncongestedStays ==
    ASSUME NEW s \in ControlBlock PROVE Stays(s, CheckUncongested(s))
<1> DEFINE s1 == [s EXCEPT !.overall_tx_congested = FALSE]
           s2 == [s1 EXCEPT !.is_tx_congested = FALSE, !.told = @ /\ s.remote_busy]
<1>1. Stays(s, s1) BY DEF ControlBlock, Stays
<1>2. CheckUncongested(s) \in {s, s1, s2} BY DEF CheckUncongested
<1> HIDE DEF s1
<1>3. s1 \in ControlBlock BY <1>1, StaysType
<1>4. ASSUME NEW t \in ControlBlock
      PROVE  Stays(t, [t EXCEPT !.is_tx_congested = FALSE, !.told = @ /\ s.remote_busy])
  BY ZenonT(60) DEF ControlBlock, Stays
<1>5. Stays(s, s2) BY <1>1, <1>3, <1>4, StaysTrans
<1> HIDE DEF s2
<1> QED BY <1>1, <1>2, <1>5, StaysRefl

(* llcp_link_send_to_lower sends one frame and gives the turn away. *)
LEMMA SendToLowerSent ==
    ASSUME NEW s \in ControlBlock, NEW pdus \in Seq(Pdu), s.symm_state = "LOCAL_XMIT_NEXT"
    PROVE  Sent(s, SendToLower(s, pdus))
<1> DEFINE f == [agf |-> Len(pdus) > 1, pdus |-> pdus]
           o == <<f>>
<1>1. f \in Frame BY DEF Frame
<1> HIDE DEF f
<1>2. o \in Seq(Frame) BY <1>1
<1>a. o # <<>> /\ Len(o) <= 1 OBVIOUS
<1>3. SendToLower(s, pdus) = [s EXCEPT !.symm_state = "REMOTE_XMIT_NEXT", !.out = o]
  BY DEF SendToLower, f
<1> HIDE DEF o
<1>4. ASSUME NEW z \in Seq(Frame)
      PROVE  LET t == [s EXCEPT !.symm_state = "REMOTE_XMIT_NEXT", !.out = z]
             IN t \in ControlBlock /\ t.symm_state = "REMOTE_XMIT_NEXT" /\ t.out = z
  BY DEF ControlBlock, SYMM_STATE
<1>5. /\ SendToLower(s, pdus) \in ControlBlock
      /\ SendToLower(s, pdus).symm_state = "REMOTE_XMIT_NEXT"
      /\ SendToLower(s, pdus).out = o
  BY <1>2, <1>3, <1>4
<1> QED BY <1>a, <1>5 DEF Sent

(* The choices of the environment are typed. *)
LEMMA ChoiceType ==
    ASSUME NEW c \in Choice
    PROVE  /\ c.k1 \in Nat /\ c.k2 \in Nat /\ c.append \in BOOLEAN
           /\ c.pdu \in BOOLEAN /\ c.rr \in BOOLEAN /\ c.disc \in BOOLEAN
BY EnvAssumption DEF Choice

(* A step keeps the turn and the frame, or sends a frame and gives the turn away. *)
Handled(s, t) == Stays(s, t) \/ Sent(s, t)

(* Handling around a transmission keeps it one transmission. *)
LEMMA StaysSent ==
    ASSUME NEW s, NEW t, NEW u
    PROVE  /\ Stays(s, t) /\ Sent(t, u) => Sent(s, u)
           /\ Sent(s, t) /\ Stays(t, u) => Sent(s, u)
BY DEF Stays, Sent

(* llcp_link_check_send_data sends at most one frame, and none without the turn. *)
LEMMA CheckSendDataHandled ==
    ASSUME NEW s \in ControlBlock, NEW c \in Choice
    PROVE  /\ Handled(s, CheckSendData(s, c))
           /\ s.symm_state = "REMOTE_XMIT_NEXT" => Stays(s, CheckSendData(s, c))
<1> DEFINE s0 == CheckCongestion(s)
           b1 == BuildNextPdu([pdus |-> <<>>, s |-> s0], c.k1, c.disc)
           b1a == [b1 EXCEPT !.s = CheckToSendRrRnr(b1.s, c)]
           b2 == BuildNextPdu(b1a, c.k2, c.disc)
<1>0. CheckSendData(s, c) =
        IF s.symm_state # "LOCAL_XMIT_NEXT" THEN s0
        ELSE IF b2.pdus = <<>> THEN b2.s
        ELSE CheckUncongested(SendToLower(b2.s, b2.pdus))
  BY DEF CheckSendData
<1>1. Stays(s, s0) /\ s0 \in ControlBlock BY CheckCongestionStays, StaysType
<1> HIDE DEF s0
<1>2. Built(s, [pdus |-> <<>>, s |-> s0])
  <2>1. <<>> \in Seq(Pdu) OBVIOUS
  <2> QED BY <1>1, <2>1 DEF Built
<1>3. Built(s, b1) BY <1>2, BuildNextPduType, ChoiceType
<1> HIDE DEF b1
<1>4. Built(s, b1a)
  <2>1. PICK pdus, t : pdus \in Seq(Pdu) /\ b1 = [pdus |-> pdus, s |-> t] /\ Stays(s, t)
    BY <1>3 DEF Built
  <2>2. b1a = [pdus |-> pdus, s |-> CheckToSendRrRnr(t, c)] BY <2>1
  <2>3. Stays(s, CheckToSendRrRnr(t, c)) BY <2>1, StaysType, StaysTrans, CheckToSendRrRnrStays
  <2> QED BY <2>1, <2>2, <2>3 DEF Built
<1> HIDE DEF b1a
<1>5. Built(s, b2) BY <1>4, BuildNextPduType, ChoiceType
<1> HIDE DEF b2
<1>6. b2.pdus \in Seq(Pdu) /\ Stays(s, b2.s) BY <1>5 DEF Built
<1>7. ASSUME s.symm_state = "LOCAL_XMIT_NEXT"
      PROVE  Sent(s, CheckUncongested(SendToLower(b2.s, b2.pdus)))
  <2>1. b2.s \in ControlBlock /\ b2.s.symm_state = "LOCAL_XMIT_NEXT" BY <1>6, <1>7 DEF Stays
  <2>2. Sent(b2.s, SendToLower(b2.s, b2.pdus)) BY <1>6, <2>1, SendToLowerSent
  <2>3. Stays(SendToLower(b2.s, b2.pdus), CheckUncongested(SendToLower(b2.s, b2.pdus)))
    BY <2>2, CheckUncongestedStays DEF Sent
  <2> QED BY <1>6, <2>2, <2>3, StaysSent
<1> QED BY <1>0, <1>1, <1>6, <1>7 DEF Handled
(* Sending a signalling PDU sends at most one frame, none without the turn. *)
LEMMA SendSigHandled ==
    ASSUME NEW s \in ControlBlock, NEW p \in Pdu, NEW c \in Choice
    PROVE  /\ Handled(s, SendSig(s, p, c))
           /\ s.symm_state = "REMOTE_XMIT_NEXT" => Stays(s, SendSig(s, p, c))
<1>1. Stays(s, Enqueue(s, p)) BY EnqueueStays
<1>2. Enqueue(s, p) \in ControlBlock /\ Enqueue(s, p).symm_state = s.symm_state
  BY <1>1 DEF Stays
<1>3. SendSig(s, p, c) \in {s, CheckSendData(Enqueue(s, p), c)} BY DEF SendSig
<1>4. /\ Handled(Enqueue(s, p), CheckSendData(Enqueue(s, p), c))
      /\ s.symm_state = "REMOTE_XMIT_NEXT" => Stays(Enqueue(s, p), CheckSendData(Enqueue(s, p), c))
  BY <1>2, CheckSendDataHandled
<1>5. Handled(s, CheckSendData(Enqueue(s, p), c)) BY <1>1, <1>4, StaysTrans, StaysSent DEF Handled
<1>6. s.symm_state = "REMOTE_XMIT_NEXT" => Stays(s, CheckSendData(Enqueue(s, p), c))
  BY <1>1, <1>4, StaysTrans
<1> QED BY <1>3, <1>5, <1>6, StaysRefl DEF Handled

(* llcp_util_send_dm sends at most one frame, none without the turn. *)
LEMMA SendDmHandled ==
    ASSUME NEW s \in ControlBlock, NEW reason \in REASON, NEW ep \in Nat, NEW c \in Choice
    PROVE  /\ Handled(s, SendDm(s, reason, ep, c))
           /\ s.symm_state = "REMOTE_XMIT_NEXT" => Stays(s, SendDm(s, reason, ep, c))
<1>1. NewPdu("DM", ep) \in Pdu BY NewPduType DEF PTYPE
<1>2. [NewPdu("DM", ep) EXCEPT !.reason = reason] \in Pdu BY <1>1 DEF Pdu
<1> QED BY <1>2, SendSigHandled DEF SendDm

(* Received PDUs, at a device that does not have the turn. *)
(* A received CONNECT is handled without sending. *)
LEMMA ProcConnectStays ==
    ASSUME NEW s \in ControlBlock, NEW p \in Pdu, NEW c \in Choice,
           s.symm_state = "REMOTE_XMIT_NEXT"
    PROVE  Stays(s, ProcConnect(s, p, c))
<1>1. p.ep \in Nat /\ p.rw \in SeqNum BY DEF Pdu
<1>2. Stays(s, SendDm(s, "REJECT", p.ep, c)) BY <1>1, SendDmHandled DEF REASON
<1>3. ASSUME NEW t \in ControlBlock
      PROVE  Stays(t, [t EXCEPT !.state = "W4_LOCAL_RESP", !.remote_rw = p.rw, !.ep = p.ep])
  BY <1>1 DEF ControlBlock, Stays, DLC_STATE
<1>4. Stays(s, [AllocateDataLink(s) EXCEPT !.state = "W4_LOCAL_RESP", !.remote_rw = p.rw, !.ep = p.ep])
  BY <1>3, AllocateStays, StaysType, StaysTrans
<1> QED BY <1>2, <1>4 DEF ProcConnect

(* A received CC is handled without sending. *)
LEMMA ProcCcStays ==
    ASSUME NEW s \in ControlBlock, NEW p \in Pdu PROVE Stays(s, ProcCc(s, p))
<1> DEFINE s1 == [s EXCEPT !.state = "CONNECTED", !.remote_rw = p.rw, !.ep = p.ep]
<1>1. p.ep \in Nat /\ p.rw \in SeqNum BY DEF Pdu
<1>2. Stays(s, s1) BY <1>1 DEF ControlBlock, Stays, DLC_STATE
<1>3. ProcCc(s, p) \in {s, s1, SetFlag(s1, "PENDING_RR_RNR")}
  BY DEF ProcCc
<1> HIDE DEF s1
<1>4. Stays(s, SetFlag(s1, "PENDING_RR_RNR")) BY <1>2, SetFlagStays, StaysType, StaysTrans DEF FLAG
<1> QED BY <1>2, <1>3, <1>4, StaysRefl

(* A received DISC is answered in the next turn. *)
LEMMA ProcDiscStays ==
    ASSUME NEW s \in ControlBlock, NEW c \in Choice, s.symm_state = "REMOTE_XMIT_NEXT"
    PROVE  Stays(s, ProcDisc(s, c))
<1>1. s.ep \in Nat BY DEF ControlBlock
<1>2. Stays(s, SendDm(s, "RESP_DISC", s.ep, c)) BY <1>1, SendDmHandled DEF REASON
<1>3. Stays(s, DeallocateDataLink(SendDm(s, "RESP_DISC", s.ep, c)))
  BY <1>2, DeallocateStays, StaysType, StaysTrans
<1>4. ProcDisc(s, c) \in {s, SendDm(s, "RESP_DISC", s.ep, c),
                          DeallocateDataLink(SendDm(s, "RESP_DISC", s.ep, c))}
  BY DEF ProcDisc
<1> QED BY <1>2, <1>3, <1>4, StaysRefl

(* A frame error is reported in the next turn. *)
LEMMA FrameErrorStays ==
    ASSUME NEW s \in ControlBlock, NEW c \in Choice, s.symm_state = "REMOTE_XMIT_NEXT"
    PROVE  Stays(s, FrameError(s, c))
<1>1. s.ep \in Nat BY DEF ControlBlock
<1>2. NewPdu("FRMR", s.ep) \in Pdu BY <1>1, NewPduType DEF PTYPE
<1>3. Stays(s, SendSig(s, NewPdu("FRMR", s.ep), c)) BY <1>2, SendSigHandled
<1> QED BY <1>3, DeallocateStays, StaysType, StaysTrans DEF FrameError

(* Appending to a receive buffer gives a receive buffer. *)
LEMMA AppendBuffer ==
    ASSUME NEW z \in Seq(Nat), NEW x \in Nat PROVE Append(z, x) \in Buffer
<1>1. Append(z, x) \in Seq(Nat) /\ Len(Append(z, x)) = Len(z) + 1 /\ Len(z) \in Nat OBVIOUS
<1>2. Len(Append(z, x)) # 0 BY <1>1
<1>3. Append(z, x) # <<>> BY <1>2, EmptySeq
<1> QED BY <1>1, <1>3 DEF Buffer

(* Storing received data leaves the link alone. *)
LEMMA StoreSduStays ==
    ASSUME NEW s \in ControlBlock, NEW p \in Pdu, NEW agf, NEW c
    PROVE  Stays(s, StoreSdu(s, p, agf, c))
<1> DEFINE q == s.i_rx_q
           last == Append(q[Len(q)], p.sdu)
           q1 == [q EXCEPT ![Len(q)] = last]
           q2 == Append(q, <<p.sdu>>)
           t1 == [s EXCEPT !.i_rx_q = q1]
           t2 == [s EXCEPT !.i_rx_q = q2]
<1>1. q \in Seq(Buffer) /\ p.sdu \in Nat BY DEF ControlBlock, Pdu
<1>2. ASSUME NEW z \in Seq(Buffer) PROVE Stays(s, [s EXCEPT !.i_rx_q = z])
  BY DEF ControlBlock, Stays
<1>3. ASSUME q # <<>> PROVE Stays(s, t1)
  <2> HIDE DEF q
  <2>1. Len(q) \in 1..Len(q) BY <1>1, <1>3, EmptySeq
  <2>2. q[Len(q)] \in Buffer BY <1>1, <2>1, ElementOfSeq
  <2>3. q[Len(q)] \in Seq(Nat) BY <2>2 DEF Buffer
  <2>5. last \in Buffer BY <1>1, <2>3, AppendBuffer
  <2> HIDE DEF last
  <2>4. q1 \in Seq(Buffer) BY <1>1, <2>1, <2>5, ExceptSeq
  <2> HIDE DEF q1
  <2> QED BY <2>4, <1>2
<1>4. Stays(s, CheckRxCongestedStatus(t2))
  <2>1. <<p.sdu>> \in Buffer BY <1>1 DEF Buffer
  <2> HIDE DEF q
  <2>2. q2 \in Seq(Buffer) BY <1>1, <2>1
  <2> HIDE DEF q2
  <2>3. Stays(s, t2) BY <2>2, <1>2
  <2> HIDE DEF t2
  <2> QED BY <2>3, CheckRxStays, StaysType, StaysTrans
<1>5. \/ StoreSdu(s, p, agf, c) = s
      \/ q # <<>> /\ StoreSdu(s, p, agf, c) = t1
      \/ StoreSdu(s, p, agf, c) = CheckRxCongestedStatus(t2)
  BY DEF StoreSdu
<1> QED BY <1>3, <1>4, <1>5, StaysRefl
(* Accepting an I PDU leaves the link alone. *)
LEMMA AcceptIPduStays ==
    ASSUME NEW s \in ControlBlock, NEW p \in Pdu, NEW agf, NEW c
    PROVE  Stays(s, AcceptIPdu(s, p, agf, c))
<1> DEFINE s1 == [s EXCEPT !.next_rx_seq = Inc(@), !.rcvd_ack_seq = p.nr, !.nrcvd = @ + 1]
           s2 == StoreSdu(s1, p, agf, c)
           ind == s2.ind \/ (~s.local_busy /\ s.num_rx_i_pdu = 0)
           s3 == [s2 EXCEPT !.num_rx_i_pdu = @ + 1,
                            !.ind = @ \/ (~s.local_busy /\ s.num_rx_i_pdu = 0)]
           s4 == [s3 EXCEPT !.is_rx_congested = TRUE]
<1>1. s.next_rx_seq \in SeqNum /\ p.nr \in SeqNum /\ s.nrcvd \in Nat BY DEF ControlBlock, Pdu
<1>2. Inc(s.next_rx_seq) \in SeqNum /\ s.nrcvd + 1 \in Nat BY <1>1, IncType
<1>3. ASSUME NEW x \in SeqNum, NEW y \in SeqNum, NEW z \in Nat
      PROVE  Stays(s, [s EXCEPT !.next_rx_seq = x, !.rcvd_ack_seq = y, !.nrcvd = z])
  BY DEF ControlBlock, Stays
<1>4. Stays(s, s1) BY <1>1, <1>2, <1>3
<1> HIDE DEF s1
<1>5. Stays(s, s2) BY <1>4, StoreSduStays, StaysType, StaysTrans
<1> HIDE DEF s2
<1>6. ASSUME NEW t \in ControlBlock, NEW i \in Int, NEW b \in BOOLEAN
      PROVE  Stays(t, [t EXCEPT !.num_rx_i_pdu = i, !.ind = b])
  BY DEF ControlBlock, Stays
<1>7. Stays(s, s3)
  <2>0. s2 \in ControlBlock BY <1>5, StaysType
  <2>1. s2.num_rx_i_pdu \in Int /\ s2.ind \in BOOLEAN BY <2>0 DEF ControlBlock
  <2>2. s2.num_rx_i_pdu + 1 \in Int BY <2>1
  <2>3. (s2.ind \/ (~s.local_busy /\ s.num_rx_i_pdu = 0)) \in BOOLEAN OBVIOUS
  <2>4. Stays(s2, s3) BY <1>6, <2>0, <2>1, <2>2, <2>3
  <2> QED BY <1>5, <2>4, StaysTrans
<1> HIDE DEF s3
<1>8. ASSUME NEW t \in ControlBlock PROVE Stays(t, [t EXCEPT !.is_rx_congested = TRUE])
  BY DEF ControlBlock, Stays
<1>9. Stays(s, s4) BY <1>7, <1>8, StaysType, StaysTrans
<1>10. AcceptIPdu(s, p, agf, c) \in {s3, SetFlag(s4, "PENDING_RR_RNR")}
  BY DEF AcceptIPdu, s1, s2, s3
<1> HIDE DEF s4
<1> QED BY <1>7, <1>9, <1>10, SetFlagStays, StaysType, StaysTrans DEF FLAG

(* A received I PDU is handled without sending. *)
LEMMA ProcIStays ==
    ASSUME NEW s \in ControlBlock, NEW p \in Pdu, NEW agf, NEW c \in Choice,
           s.symm_state = "REMOTE_XMIT_NEXT"
    PROVE  Stays(s, ProcI(s, p, agf, c))
<1>1. p.ep \in Nat BY DEF Pdu
<1>2. Stays(s, SendDm(s, "NO_ACTIVE_CONNECTION", p.ep, c)) BY <1>1, SendDmHandled DEF REASON
<1> QED BY <1>2, AcceptIPduStays, FrameErrorStays DEF ProcI

(* A received RR or RNR is handled without sending. *)
LEMMA ProcRrRnrStays ==
    ASSUME NEW s \in ControlBlock, NEW p \in Pdu, NEW c \in Choice,
           s.symm_state = "REMOTE_XMIT_NEXT"
    PROVE  Stays(s, ProcRrRnr(s, p, c))
<1>1. p.nr \in SeqNum BY DEF Pdu
<1>2. s.told \in BOOLEAN BY DEF ControlBlock
<1>4. Stays(s, AcceptRrRnr(s, p))
  <2> DEFINE busy == p.ptype = "RNR"
             b == IF s.remote_busy # busy /\ ~s.is_tx_congested THEN busy ELSE s.told
  <2>1. busy \in BOOLEAN /\ b \in BOOLEAN BY <1>2
  <2>2. AcceptRrRnr(s, p) = [s EXCEPT !.rcvd_ack_seq = p.nr, !.remote_busy = busy, !.told = b]
    BY Zenon DEF AcceptRrRnr
  <2> HIDE DEF busy, b
  <2>3. Stays(s, [s EXCEPT !.rcvd_ack_seq = p.nr, !.remote_busy = busy, !.told = b])
    BY <1>1, <2>1, ZenonT(60) DEF ControlBlock, Stays
  <2> QED BY <2>2, <2>3, Zenon
<1>5. Stays(s, PendingDisc(AcceptRrRnr(s, p), c.disc))
  BY <1>4, PendingDiscStays, ChoiceType, StaysType, StaysTrans
<1>6. ProcRrRnr(s, p, c) \in {s, PendingDisc(AcceptRrRnr(s, p), c.disc), FrameError(s, c)}
  BY DEF ProcRrRnr
<1> QED BY <1>5, <1>6, StaysRefl, FrameErrorStays

(* No received PDU makes its receiver send before the end of the frame. *)
LEMMA ProcRxPduStays ==
    ASSUME NEW s \in ControlBlock, NEW p \in Pdu, NEW agf, NEW c \in Choice,
           s.symm_state = "REMOTE_XMIT_NEXT"
    PROVE  Stays(s, ProcRxPdu(s, p, agf, c))
<1>1. p.ptype \in PTYPE BY DEF Pdu
<1>2. ProcRxPdu(s, p, agf, c) \in
        {ProcConnect(s, p, c), ProcCc(s, p), ProcDisc(s, c), ProcDm(s, p),
         DeallocateDataLink(s), ProcI(s, p, agf, c), ProcRrRnr(s, p, c)}
  BY <1>1 DEF ProcRxPdu, PTYPE
<1>3. Stays(s, ProcDm(s, p)) BY DeallocateStays, StaysRefl DEF ProcDm
<1> QED BY <1>2, <1>3, ProcConnectStays, ProcCcStays, ProcDiscStays, DeallocateStays,
           ProcIStays, ProcRrRnrStays

(* The inductive invariant: HalfDuplex needs only the types of the two  *)
(* fields it speaks of, but every handler between two of its steps has   *)
(* to be typed for that.                                                 *)
IInv == TypeOK /\ HalfDuplex

(* The environment of a behaviour is typed. *)
LEMMA EnvType == ASSUME TypeOK PROVE RW \in [Node -> SeqNum] /\ MaxEp \in Nat
BY EnvAssumption DEF TypeOK, Environment, RW, MaxEp, SeqNum

(* There are two devices. *)
LEMMA PeerFacts ==
    /\ \A n \in Node : Peer(n) \in Node /\ Peer(n) # n /\ Peer(Peer(n)) = n
    /\ \A n, m \in Node : m = n \/ m = Peer(n)
BY NodeAssumption DEF Node, Peer

(* HalfDuplex as seen by one device s, t being its peer. *)
Turn(s, t) ==
    /\ Len(s.out) <= 1
    /\ s.symm_state = "LOCAL_XMIT_NEXT" =>
         /\ t.symm_state = "REMOTE_XMIT_NEXT"
         /\ s.out = <<>> /\ t.out = <<>>
    /\ s.out # <<>> => t.out = <<>>

HasTurn(s) == s.symm_state = "LOCAL_XMIT_NEXT" \/ s.out # <<>>

(* HalfDuplex says Turn of both devices and that one has the turn. *)
LEMMA HalfDuplexOfTurn ==
    ASSUME NEW n \in Node
    PROVE  HalfDuplex <=> /\ Turn(node[n], node[Peer(n)]) /\ Turn(node[Peer(n)], node[n])
                          /\ HasTurn(node[n]) \/ HasTurn(node[Peer(n)])
BY PeerFacts DEF HalfDuplex, Turn, HasTurn

(* The same in the next state. *)
LEMMA HalfDuplexOfTurnP ==
    ASSUME NEW n \in Node
    PROVE  HalfDuplex' <=> /\ Turn(node'[n], node'[Peer(n)]) /\ Turn(node'[Peer(n)], node'[n])
                           /\ HasTurn(node'[n]) \/ HasTurn(node'[Peer(n)])
BY PeerFacts DEF HalfDuplex, Turn, HasTurn

(* Turn and HasTurn depend on symm_state and out only. *)
LEMMA TurnStays ==
    ASSUME NEW s, NEW t, NEW u, Stays(s, t)
    PROVE  /\ Turn(s, u) <=> Turn(t, u)
           /\ Turn(u, s) <=> Turn(u, t)
           /\ HasTurn(s) <=> HasTurn(t)
BY DEF Stays, Turn, HasTurn

(* A transmission passes the turn with the frame. *)
LEMMA TurnSent ==
    ASSUME NEW s, NEW t, NEW u \in ControlBlock, Sent(s, t), Turn(s, u), Turn(u, s)
    PROVE  Turn(t, u) /\ Turn(u, t) /\ HasTurn(t)
<1>1. /\ t.symm_state = "REMOTE_XMIT_NEXT" /\ s.symm_state = "LOCAL_XMIT_NEXT"
      /\ t.out # <<>> /\ Len(t.out) <= 1
  BY DEF Sent
<1>2. u.symm_state = "REMOTE_XMIT_NEXT" /\ u.out = <<>> BY <1>1 DEF Turn
<1> QED BY <1>1, <1>2 DEF Turn, HasTurn

(* A step of one device that sends at most one frame keeps the invariant. *)
LEMMA UpdateHandled ==
    ASSUME IInv, NEW n \in Node, NEW t, Handled(node[n], t), Update(n, t)
    PROVE  IInv'
<1> DEFINE s == node[n]  u == node[Peer(n)]
<1>1. t \in ControlBlock BY DEF Handled, Stays, Sent
<1>2. /\ node \in [Node -> ControlBlock] /\ nep' = nep /\ env' = env /\ node' = [node EXCEPT ![n] = t]
  BY DEF IInv, TypeOK, Update
<1>3. node'[n] = t /\ node'[Peer(n)] = u BY <1>2, PeerFacts
<1>4. TypeOK' BY <1>1, <1>2 DEF IInv, TypeOK, MaxEp
<1>5. Turn(s, u) /\ Turn(u, s) /\ (HasTurn(s) \/ HasTurn(u)) BY HalfDuplexOfTurn DEF IInv
<1>6. u \in ControlBlock BY <1>2, PeerFacts
<1>7. Turn(t, u) /\ Turn(u, t) /\ (HasTurn(t) \/ HasTurn(u))
  <2> HIDE DEF s, u
  <2>1. CASE Stays(s, t) BY <2>1, <1>5, TurnStays
  <2>2. CASE Sent(s, t) BY <2>2, <1>5, <1>6, TurnSent
  <2> QED BY <2>1, <2>2 DEF Handled, s
<1> QED BY <1>3, <1>4, <1>7, HalfDuplexOfTurnP DEF IInv

(* Receiving a PDU of a frame keeps the invariant. *)
LEMMA RxPduKeeps == ASSUME IInv, NEW n \in Node, RxPdu(n) PROVE IInv'
<1> DEFINE s == node[n]  u == node[Peer(n)]  f == u.out[1]
           g == [f EXCEPT !.pdus = Tail(@)]  u1 == [u EXCEPT !.out = <<g>>]
<1>1. node \in [Node -> ControlBlock] BY DEF IInv, TypeOK
<1>2. s \in ControlBlock /\ u \in ControlBlock /\ Peer(n) \in Node /\ Peer(n) # n BY <1>1, PeerFacts
<1>3. Turn(s, u) /\ Turn(u, s) BY HalfDuplexOfTurn DEF IInv
<1>4. u.out # <<>> /\ f.pdus # <<>> BY DEF RxPdu, InFlight
<1>5. u.symm_state = "REMOTE_XMIT_NEXT" /\ s.symm_state = "REMOTE_XMIT_NEXT" /\ s.out = <<>>
  BY <1>2, <1>3, <1>4 DEF Turn, ControlBlock, SYMM_STATE
<1>6. f \in Frame
  <2>1. u.out \in Seq(Frame) BY <1>2 DEF ControlBlock
  <2>2. 1 \in 1..Len(u.out) BY <1>4, <2>1, EmptySeq
  <2> QED BY <2>1, <2>2, ElementOfSeq
<1>7. PICK c \in Choice :
        node' = [node EXCEPT ![Peer(n)].out = <<[f EXCEPT !.pdus = Tail(@)]>>,
                             ![n] = ProcRxPdu(@, Head(f.pdus), f.agf, c)]
  BY DEF RxPdu
<1> DEFINE t == ProcRxPdu(s, Head(f.pdus), f.agf, c)
<1>8. Head(f.pdus) \in Pdu /\ g \in Frame
  <2>1. f.pdus \in Seq(Pdu) BY <1>6 DEF Frame
  <2>2. Head(f.pdus) \in Pdu /\ Tail(f.pdus) \in Seq(Pdu) BY <1>4, <2>1, HeadTailProperties
  <2> QED BY <1>6, <2>2 DEF Frame
<1>9. Stays(s, t) BY <1>2, <1>5, <1>8, ProcRxPduStays
<1>10. node' = [[node EXCEPT ![Peer(n)] = u1] EXCEPT ![n] = t]
  BY <1>1, <1>2, <1>7
<1> HIDE DEF t, g
<1>11. u1 \in ControlBlock /\ u1.symm_state = "REMOTE_XMIT_NEXT" /\ u1.out = <<g>>
  <2>1. <<g>> \in Seq(Frame) BY <1>8
  <2>2. ASSUME NEW z \in Seq(Frame)
        PROVE  LET v == [u EXCEPT !.out = z]
               IN v \in ControlBlock /\ v.symm_state = u.symm_state /\ v.out = z
    BY <1>2 DEF ControlBlock
  <2> QED BY <1>5, <2>1, <2>2
<1> HIDE DEF s, u, u1
<1>12. node'[n] = t /\ node'[Peer(n)] = u1 BY <1>1, <1>2, <1>10
<1>13. TypeOK'
  <2>1. nep' = nep /\ env' = env BY DEF RxPdu
  <2>2. t \in ControlBlock BY <1>9, StaysType
  <2> QED BY <1>1, <1>2, <1>10, <1>11, <2>1, <2>2 DEF IInv, TypeOK, MaxEp
<1>14. t.symm_state = "REMOTE_XMIT_NEXT" /\ t.out = <<>> BY <1>5, <1>9 DEF Stays
<1>15. Len(<<g>>) <= 1 /\ <<g>> # <<>> /\ Len(<<>>) <= 1 OBVIOUS
<1>16. Turn(t, u1) /\ Turn(u1, t) /\ HasTurn(u1) BY <1>11, <1>14, <1>15 DEF Turn, HasTurn
<1> QED BY <1>12, <1>13, <1>16, HalfDuplexOfTurnP DEF IInv
(* The end of a frame passes the turn to its receiver. *)
LEMMA RxEndKeeps == ASSUME IInv, NEW n \in Node, RxEnd(n) PROVE IInv'
<1> DEFINE s == node[n]  u == node[Peer(n)]
           s1 == [s EXCEPT !.symm_state = "LOCAL_XMIT_NEXT"]
           u1 == [u EXCEPT !.out = <<>>]
<1>1. node \in [Node -> ControlBlock] BY DEF IInv, TypeOK
<1>2. s \in ControlBlock /\ u \in ControlBlock /\ Peer(n) \in Node /\ Peer(n) # n BY <1>1, PeerFacts
<1>3. Turn(s, u) /\ Turn(u, s) BY HalfDuplexOfTurn DEF IInv
<1>4. u.out # <<>> BY DEF RxEnd, InFlight
<1>5. u.symm_state = "REMOTE_XMIT_NEXT" /\ s.symm_state = "REMOTE_XMIT_NEXT" /\ s.out = <<>>
  BY <1>2, <1>3, <1>4 DEF Turn, ControlBlock, SYMM_STATE
<1>6. PICK c \in Choice :
        node' = [node EXCEPT ![Peer(n)].out = <<>>,
                             ![n] = CheckSendData([@ EXCEPT !.symm_state = "LOCAL_XMIT_NEXT"], c)]
  BY DEF RxEnd
<1> DEFINE t == CheckSendData(s1, c)
<1>7. node' = [[node EXCEPT ![Peer(n)] = u1] EXCEPT ![n] = t]
  BY <1>1, <1>2, <1>6
<1>8. s1 \in ControlBlock /\ s1.symm_state = "LOCAL_XMIT_NEXT" /\ s1.out = <<>>
  BY <1>2, <1>5 DEF ControlBlock, SYMM_STATE
<1>9. u1 \in ControlBlock /\ u1.symm_state = "REMOTE_XMIT_NEXT" /\ u1.out = <<>>
  <2>1. <<>> \in Seq(Frame) OBVIOUS
  <2>2. ASSUME NEW z \in Seq(Frame)
        PROVE  LET v == [u EXCEPT !.out = z]
               IN v \in ControlBlock /\ v.symm_state = u.symm_state /\ v.out = z
    BY <1>2 DEF ControlBlock
  <2> QED BY <1>5, <2>1, <2>2
<1> HIDE DEF s1
<1>10. Handled(s1, t) BY <1>8, CheckSendDataHandled
<1> HIDE DEF s, u, u1, t
<1>11. node'[n] = t /\ node'[Peer(n)] = u1 BY <1>1, <1>2, <1>7
<1>12. TypeOK'
  <2>1. nep' = nep /\ env' = env BY DEF RxEnd
  <2>2. t \in ControlBlock BY <1>10 DEF Handled, Stays, Sent
  <2> QED BY <1>1, <1>2, <1>7, <1>9, <2>1, <2>2 DEF IInv, TypeOK, MaxEp
<1>13. Turn(s1, u1) /\ Turn(u1, s1) /\ HasTurn(s1)
  <2>1. Len(<<>>) <= 1 OBVIOUS
  <2> QED BY <1>8, <1>9, <2>1 DEF Turn, HasTurn
<1>14. Turn(t, u1) /\ Turn(u1, t) /\ HasTurn(t)
  <2>1. CASE Stays(s1, t) BY <2>1, <1>13, TurnStays
  <2>2. CASE Sent(s1, t) BY <2>2, <1>9, <1>13, TurnSent
  <2> QED BY <1>10, <2>1, <2>2 DEF Handled
<1> QED BY <1>11, <1>12, <1>14, HalfDuplexOfTurnP DEF IInv

(* Each device has a control block. *)
LEMMA NodeType == ASSUME IInv, NEW n \in Node PROVE node[n] \in ControlBlock
BY DEF IInv, TypeOK

(* A SYMM passes the turn. *)
LEMMA SymmTimeoutKeeps == ASSUME IInv, NEW n \in Node, SymmTimeout(n) PROVE IInv'
<1>1. PICK ok \in PoolOutcomes :
        Update(n, IF ok THEN SendToLower(node[n], <<>>) ELSE node[n])
  BY DEF SymmTimeout
<1>2. <<>> \in Seq(Pdu) OBVIOUS
<1>3. node[n].symm_state = "LOCAL_XMIT_NEXT" BY DEF SymmTimeout
<1>4. Handled(node[n], IF ok THEN SendToLower(node[n], <<>>) ELSE node[n])
  BY <1>2, <1>3, NodeType, SendToLowerSent, StaysRefl DEF Handled
<1> QED BY <1>1, <1>4, UpdateHandled

(* Handled followed by Stays. *)
LEMMA HandledThen ==
    ASSUME NEW s, NEW t, NEW u, Handled(s, t), Stays(t, u) PROVE Handled(s, u)
BY StaysTrans, StaysSent DEF Handled

(* Stays followed by Handled. *)
LEMMA ThenHandled ==
    ASSUME NEW s, NEW t, NEW u, Stays(s, t), Handled(t, u) PROVE Handled(s, u)
BY StaysTrans, StaysSent DEF Handled

(* What Handled relates to is a control block. *)
LEMMA HandledType == ASSUME NEW s, NEW t, Handled(s, t) PROVE t \in ControlBlock
BY DEF Handled, Stays, Sent

(* Sending nothing is a case of Handled. *)
LEMMA StaysHandled == ASSUME NEW s, NEW t, Stays(s, t) PROVE Handled(s, t)
BY DEF Handled

(* Rejecting a connection sends at most one frame. *)
LEMMA RejectHandled ==
    ASSUME NEW s \in ControlBlock, NEW c \in Choice
    PROVE  Handled(s, DeallocateDataLink(SendDm(s, "REJECT", s.ep, c)))
<1>1. s.ep \in Nat BY DEF ControlBlock
<1>2. Handled(s, SendDm(s, "REJECT", s.ep, c)) BY <1>1, SendDmHandled DEF REASON
<1> QED BY <1>2, DeallocateStays, HandledType, HandledThen

(* The data link timer keeps the invariant. *)
LEMMA DataLinkTimeoutKeeps == ASSUME IInv, NEW n \in Node, DataLinkTimeout(n) PROVE IInv'
<1> DEFINE s == node[n]
<1>1. s \in ControlBlock BY NodeType
<1>2. PICK c \in Choice :
        Update(n, DeallocateDataLink(IF s.state = "W4_LOCAL_RESP" THEN SendDm(s, "REJECT", s.ep, c) ELSE s))
  BY DEF DataLinkTimeout
<1> HIDE DEF s
<1>3. Handled(s, DeallocateDataLink(IF s.state = "W4_LOCAL_RESP" THEN SendDm(s, "REJECT", s.ep, c) ELSE s))
  BY <1>1, RejectHandled, DeallocateStays, StaysHandled
<1> QED BY <1>2, <1>3, UpdateHandled DEF s

(* A lost link starts again with one turn. *)
LEMMA LinkDeactivateKeeps == ASSUME IInv, LinkDeactivate PROVE IInv'
<1> DEFINE w(n, m) == [DeallocateDataLink(node[n]) EXCEPT
                       !.sig_xmit_q = <<>>, !.out = <<>>,
                       !.overall_tx_congested = FALSE,
                       !.overall_rx_congested = FALSE,
                       !.symm_state = IF n = m THEN "LOCAL_XMIT_NEXT"
                                               ELSE "REMOTE_XMIT_NEXT"]
<1>1. PICK m \in Node : node' = [n \in Node |-> w(n, m)]
  BY DEF LinkDeactivate
<1>2. ASSUME NEW n \in Node
      PROVE  /\ w(n, m) \in ControlBlock /\ w(n, m).out = <<>>
             /\ w(n, m).symm_state = IF n = m THEN "LOCAL_XMIT_NEXT" ELSE "REMOTE_XMIT_NEXT"
  <2> DEFINE r == DeallocateDataLink(node[n])
             y == IF n = m THEN "LOCAL_XMIT_NEXT" ELSE "REMOTE_XMIT_NEXT"
  <2>1. r \in ControlBlock BY NodeType, DeallocateStays, StaysType
  <2> HIDE DEF r
  <2>2. y \in SYMM_STATE BY DEF SYMM_STATE
  <2> HIDE DEF y
  <2> DEFINE a == <<>>
             b == <<>>
  <2>3. a \in Seq(Pdu) /\ b \in Seq(Frame) OBVIOUS
  <2>4. w(n, m) = [r EXCEPT !.sig_xmit_q = a, !.out = b, !.overall_tx_congested = FALSE,
                       !.overall_rx_congested = FALSE, !.symm_state = y]
    BY Zenon DEF r, y
  <2> HIDE DEF w, a, b
  <2> DEFINE v == [r EXCEPT !.sig_xmit_q = a, !.out = b, !.overall_tx_congested = FALSE,
                       !.overall_rx_congested = FALSE, !.symm_state = y]
  <2>5. v \in ControlBlock /\ v.out = b /\ v.symm_state = y
    BY <2>1, <2>2, <2>3 DEF ControlBlock
  <2> HIDE DEF v
  <2> QED BY <2>4, <2>5 DEF b, y, v
<1> HIDE DEF w
<1>3. TypeOK'
  <2>1. nep' = nep /\ env' = env BY DEF LinkDeactivate
  <2> QED BY <1>1, <1>2, <2>1 DEF IInv, TypeOK, MaxEp
<1>4. /\ Turn(node'[m], node'[Peer(m)]) /\ Turn(node'[Peer(m)], node'[m]) /\ HasTurn(node'[m])
  <2>1. node'[m] = w(m, m) /\ node'[Peer(m)] = w(Peer(m), m) /\ Peer(m) # m /\ Peer(m) \in Node
    BY <1>1, PeerFacts
  <2>2. Len(<<>>) <= 1 OBVIOUS
  <2> QED BY <1>2, <2>1, <2>2 DEF Turn, HasTurn
<1> QED BY <1>3, <1>4, HalfDuplexOfTurnP, SMTT(30) DEF IInv

(* LLCP_ConnectReq keeps the invariant. *)
LEMMA ConnectReqKeeps == ASSUME IInv, ConnectReq PROVE IInv'
<1> DEFINE o == node[Client]
           s == AllocateDataLink(o)
           p == [NewPdu("CONNECT", nep + 1) EXCEPT !.rw = RW[Client]]
           q(c) == CheckSendData(Enqueue(s, p), c)
           t(c) == [q(c) EXCEPT !.local_rw = RW[Client], !.ep = nep + 1, !.state = "W4_REMOTE_RESP"]
           r(c) == IF c.pdu THEN t(c) ELSE s
<1>1. PICK c \in Choice : node' = [node EXCEPT ![Client] = r(c)]
  BY DEF ConnectReq
<1>2. Client \in Node /\ o \in ControlBlock /\ nep \in Nat /\ nep + 1 \in Nat
      /\ node \in [Node -> ControlBlock]
  BY EnvType DEF IInv, TypeOK, Node
<1>3. RW[Client] \in SeqNum BY <1>2, EnvType DEF IInv
<1>4. Stays(o, s) BY <1>2, AllocateStays
<1> HIDE DEF o, s
<1>5. s \in ControlBlock BY <1>4, StaysType
<1>6. NewPdu("CONNECT", nep + 1) \in Pdu BY <1>2, NewPduType DEF PTYPE
<1>7. p \in Pdu BY <1>3, <1>6 DEF Pdu
<1> HIDE DEF p
<1>8. Handled(s, q(c))
  <2>1. Stays(s, Enqueue(s, p)) BY <1>5, <1>7, EnqueueStays
  <2> QED BY <2>1, StaysType, CheckSendDataHandled, ThenHandled
<1> HIDE DEF q
<1>9. ASSUME NEW u \in ControlBlock, NEW x \in SeqNum, NEW y \in Nat
      PROVE  Stays(u, [u EXCEPT !.local_rw = x, !.ep = y, !.state = "W4_REMOTE_RESP"])
  BY DEF ControlBlock, Stays, DLC_STATE
<1>10. Stays(q(c), t(c)) BY <1>2, <1>3, <1>8, <1>9, HandledType
<1> HIDE DEF t
<1>11. Handled(o, r(c)) BY <1>4, <1>8, <1>10, HandledThen, ThenHandled, StaysHandled
<1> HIDE DEF r
<1>12. env' = env /\ nep' \in 0..MaxEp' BY <1>2, EnvType DEF ConnectReq, IInv, MaxEp
<1>13. TypeOK' BY <1>1, <1>2, <1>11, <1>12, HandledType DEF IInv, TypeOK
<1>14. HalfDuplex'
  <2>1. node'[Client] = r(c) /\ node'[Peer(Client)] = node[Peer(Client)]
    BY <1>1, <1>2, PeerFacts
  <2>2. node[Peer(Client)] \in ControlBlock BY <1>2, PeerFacts
  <2>3. Turn(o, node[Peer(Client)]) /\ Turn(node[Peer(Client)], o)
        /\ (HasTurn(o) \/ HasTurn(node[Peer(Client)]))
    BY <1>2, HalfDuplexOfTurn DEF IInv, o
  <2>4. CASE Stays(o, r(c)) BY <1>2, <2>1, <2>3, <2>4, TurnStays, HalfDuplexOfTurnP
  <2>5. CASE Sent(o, r(c)) BY <1>2, <2>1, <2>2, <2>3, <2>5, TurnSent, HalfDuplexOfTurnP
  <2> QED BY <1>11, <2>4, <2>5 DEF Handled
<1> QED BY <1>13, <1>14 DEF IInv

(* LLCP_ConnectCfm keeps the invariant. *)
LEMMA ConnectCfmKeeps == ASSUME IInv, NEW n \in Node, ConnectCfm(n) PROVE IInv'
<1> DEFINE s == node[n]
           s1 == [s EXCEPT !.local_rw = RW[n], !.state = "CONNECTED"]
           s2 == IF s1.overall_rx_congested THEN SetFlag(s1, "PENDING_RR_RNR") ELSE s1
           p == [NewPdu("CC", s1.ep) EXCEPT !.rw = RW[n]]
           r(c) == IF c.pdu THEN CheckSendData(Enqueue(s2, p), c) ELSE DeallocateDataLink(s2)
<1>1. PICK c \in Choice : Update(n, r(c)) BY DEF ConnectCfm
<1>2. s \in ControlBlock BY NodeType
<1>3. RW[n] \in SeqNum BY EnvType DEF IInv
<1>4. Stays(s, s1)
  <2> HIDE DEF s
  <2> QED BY <1>2, <1>3, ZenonT(60) DEF ControlBlock, Stays, DLC_STATE
<1> HIDE DEF s1
<1>5. Stays(s, s2) BY <1>4, SetFlagStays, StaysType, StaysTrans DEF FLAG
<1>6. s1.ep \in Nat
  <2>1. s1 \in ControlBlock BY <1>4, StaysType
  <2> QED BY <2>1 DEF ControlBlock
<1>7. NewPdu("CC", s1.ep) \in Pdu BY <1>6, NewPduType DEF PTYPE
<1>8. p \in Pdu BY <1>3, <1>7 DEF Pdu
<1> HIDE DEF s, s2, p
<1>9. Handled(s2, CheckSendData(Enqueue(s2, p), c))
  <2>1. Stays(s2, Enqueue(s2, p)) BY <1>5, <1>8, EnqueueStays, StaysType
  <2> QED BY <2>1, StaysType, CheckSendDataHandled, ThenHandled
<1>10. Handled(s2, r(c)) BY <1>5, <1>9, DeallocateStays, StaysHandled, StaysType
<1>11. Handled(s, r(c)) BY <1>5, <1>10, ThenHandled
<1> HIDE DEF r
<1> QED BY <1>1, <1>11, UpdateHandled DEF s

(* LLCP_ConnectReject keeps the invariant. *)
LEMMA ConnectRejectKeeps == ASSUME IInv, NEW n \in Node, ConnectReject(n) PROVE IInv'
BY NodeType, RejectHandled, UpdateHandled DEF ConnectReject

(* LLCP_SendData keeps the invariant. *)
LEMMA SendDataKeeps == ASSUME IInv, NEW n \in Node, SendData(n) PROVE IInv'
<1> DEFINE s == node[n]
           s1 == [s EXCEPT !.i_xmit_q = Append(@, s.nsent + 1), !.nsent = @ + 1]
           s2(c) == CheckSendData(s1, c)
           b(c) == \/ s2(c).is_tx_congested \/ s2(c).overall_tx_congested \/ s2(c).remote_busy
                   \/ Len(s2(c).i_xmit_q) >= s2(c).remote_rw
           r(c) == [s2(c) EXCEPT !.is_tx_congested = b(c), !.told = @ \/ b(c)]
<1>1. PICK c \in Choice : Update(n, r(c)) BY DEF SendData
<1>2. s \in ControlBlock BY NodeType
<1> HIDE DEF s
<1>3. s.i_xmit_q \in Seq(Nat) /\ s.nsent \in Nat BY <1>2 DEF ControlBlock
<1>4. Append(s.i_xmit_q, s.nsent + 1) \in Seq(Nat) /\ s.nsent + 1 \in Nat BY <1>3
<1>5. ASSUME NEW q \in Seq(Nat), NEW x \in Nat
      PROVE  Stays(s, [s EXCEPT !.i_xmit_q = q, !.nsent = x])
  BY <1>2 DEF ControlBlock, Stays
<1>6. Stays(s, s1) BY <1>4, <1>5
<1> HIDE DEF s1
<1>7. Handled(s1, s2(c)) BY <1>6, StaysType, CheckSendDataHandled
<1> HIDE DEF s2
<1>8. s2(c) \in ControlBlock BY <1>7, HandledType
<1>9. b(c) \in BOOLEAN /\ (s2(c).told \/ b(c)) \in BOOLEAN OBVIOUS
<1> HIDE DEF b
<1>10. ASSUME NEW t \in ControlBlock, NEW x \in BOOLEAN, NEW y \in BOOLEAN
       PROVE  Stays(t, [t EXCEPT !.is_tx_congested = x, !.told = y])
  BY ZenonT(60) DEF ControlBlock, Stays
<1>11. Stays(s2(c), r(c)) BY <1>8, <1>9, <1>10
<1> HIDE DEF r
<1>12. Handled(s, r(c)) BY <1>6, <1>7, <1>11, HandledThen, ThenHandled
<1> QED BY <1>1, <1>12, UpdateHandled DEF s

(* LLCP_IsDataLinkCongested keeps the invariant. *)
LEMMA IsDataLinkCongestedKeeps ==
    ASSUME IInv, NEW n \in Node, NEW pending, IsDataLinkCongested(n, pending) PROVE IInv'
<1> DEFINE s == node[n]
           full == \/ pending + Len(s.i_xmit_q) >= s.remote_rw
                   \/ pending + Len(s.i_xmit_q) >= MaxTxBuff
           r == IF s.is_tx_congested \/ s.remote_busy
                      THEN [s EXCEPT !.told = TRUE]
                      ELSE [s EXCEPT !.is_tx_congested = full, !.told = full]
<1>1. Update(n, r) BY DEF IsDataLinkCongested
<1>2. s \in ControlBlock BY NodeType
<1>3. full \in BOOLEAN OBVIOUS
<1> HIDE DEF s, full
<1>4. Stays(s, [s EXCEPT !.told = TRUE]) BY <1>2 DEF ControlBlock, Stays
<1>5. Stays(s, [s EXCEPT !.is_tx_congested = full, !.told = full])
  BY <1>2, <1>3, ZenonT(60) DEF ControlBlock, Stays
<1>6. Stays(s, r) BY <1>4, <1>5
<1> HIDE DEF r
<1> QED BY <1>1, <1>6, StaysHandled, UpdateHandled DEF s

(* LLCP_FlushDataLinkRxData keeps the invariant. *)
LEMMA FlushRxDataKeeps == ASSUME IInv, NEW n \in Node, FlushRxData(n) PROVE IInv'
BY NodeType, FlushStays, StaysHandled, UpdateHandled DEF FlushRxData

(* LLCP_SetTxCompleteNtf keeps the invariant. *)
LEMMA SetTxCompleteNtfKeeps == ASSUME IInv, NEW n \in Node, SetTxCompleteNtf(n) PROVE IInv'
BY NodeType, SetFlagStays, StaysHandled, UpdateHandled DEF SetTxCompleteNtf, FLAG

(* LLCP_DisconnectReq keeps the invariant. *)
LEMMA DisconnectReqKeeps ==
    ASSUME IInv, NEW n \in Node, NEW flush, DisconnectReq(n, flush) PROVE IInv'
<1> DEFINE s == node[n]
           r1(c) == CheckSendData(EnterW4RemoteDm(s, TRUE), c)
           r2 == EnterW4RemoteDm(s, FALSE)
           r3 == SetFlag(s, "PENDING_DISC")
<1>1. s \in ControlBlock BY NodeType
<1>2. PICK c \in Choice : \/ Update(n, r1(c)) \/ Update(n, r2) \/ Update(n, r3)
  BY DEF DisconnectReq
<1> HIDE DEF s
<1>3. Handled(s, r1(c)) BY <1>1, EnterW4RemoteDmStays, CheckSendDataHandled, StaysType, ThenHandled
<1>4. Handled(s, r2) BY <1>1, EnterW4RemoteDmStays, StaysHandled
<1>5. Handled(s, r3) BY <1>1, SetFlagStays, StaysHandled DEF FLAG
<1> HIDE DEF r1, r2, r3
<1> QED BY <1>2, <1>3, <1>4, <1>5, UpdateHandled DEF s

(* LLCP_SetLocalBusyStatus keeps the invariant. *)
LEMMA SetLocalBusyStatusKeeps ==
    ASSUME IInv, NEW n \in Node, NEW busy \in BOOLEAN, SetLocalBusyStatus(n, busy) PROVE IInv'
<1> DEFINE s == node[n]
           s0 == [s EXCEPT !.local_busy = busy]
           s1 == SetFlag(s0, "PENDING_RR_RNR")
           r == IF ~busy /\ s.i_rx_q # <<>> /\ Connected(s) THEN [s1 EXCEPT !.ind = TRUE] ELSE s1
<1>1. s \in ControlBlock BY NodeType
<1>2. Update(n, r) BY DEF SetLocalBusyStatus
<1> HIDE DEF s
<1>3. Stays(s, s0) BY <1>1 DEF ControlBlock, Stays
<1> HIDE DEF s0
<1>4. Stays(s, s1) BY <1>3, SetFlagStays, StaysType, StaysTrans DEF FLAG
<1> HIDE DEF s1
<1>5. ASSUME NEW t \in ControlBlock PROVE Stays(t, [t EXCEPT !.ind = TRUE])
  BY DEF ControlBlock, Stays
<1>6. Stays(s, r) BY <1>4, <1>5, StaysType, StaysTrans
<1> HIDE DEF r
<1> QED BY <1>2, <1>6, StaysHandled, UpdateHandled DEF s
(* LLCP_ReadDataLinkData keeps the invariant. *)
LEMMA ReadDataLinkDataKeeps ==
    ASSUME IInv, NEW n \in Node, ReadDataLinkData(n) PROVE IInv'
<1> DEFINE s == node[n]
           q == s.i_rx_q
           s1 == IF q = <<>> THEN s ELSE [s EXCEPT !.num_rx_i_pdu = @ - 1]
           t1 == [s1 EXCEPT !.i_rx_q = Tail(q)]
           t2 == [s1 EXCEPT !.i_rx_q[1] = Tail(@)]
           s2 == CASE q = <<>> -> s1
                   [] q # <<>> /\ Len(q[1]) = 1 -> CheckRxCongestedStatus(t1)
                   [] q # <<>> /\ Len(q[1]) # 1 -> t2
           s2f == [s2 EXCEPT !.is_rx_congested = FALSE]
           s3 == IF /\ ~s.local_busy /\ s.is_rx_congested
                    /\ s1.num_rx_i_pdu <= RxCongestThreshold \div 2
                   THEN SetFlag(s2f, "PENDING_RR_RNR") ELSE s2
           r == [s3 EXCEPT !.ind = @ /\ s3.i_rx_q # <<>>]
<1>1. s \in ControlBlock BY NodeType
<1>2. Update(n, r) BY DEF ReadDataLinkData
<1> HIDE DEF s
<1>3. q \in Seq(Buffer) /\ s.num_rx_i_pdu \in Int BY <1>1 DEF ControlBlock
<1>4. Stays(s, s1) /\ s1.i_rx_q = q
  <2>1. ASSUME NEW i \in Int
        PROVE  LET t == [s EXCEPT !.num_rx_i_pdu = i] IN Stays(s, t) /\ t.i_rx_q = q
    BY <1>1 DEF ControlBlock, Stays
  <2>2. s.num_rx_i_pdu - 1 \in Int BY <1>3
  <2> QED BY <2>1, <2>2, <1>1, StaysRefl
<1> HIDE DEF s1
<1>5. s1 \in ControlBlock BY <1>4, StaysType
<1>6. ASSUME NEW z \in Seq(Buffer) PROVE Stays(s1, [s1 EXCEPT !.i_rx_q = z])
  BY <1>5 DEF ControlBlock, Stays
<1>7. ASSUME q # <<>>
      PROVE  Stays(s1, t1) /\ (Len(q[1]) # 1 => Stays(s1, t2))
  <2> DEFINE z == [q EXCEPT ![1] = Tail(@)]
  <2>1. Tail(q) \in Seq(Buffer) BY <1>3, <1>7, HeadTailProperties
  <2>2. ASSUME Len(q[1]) # 1 PROVE z \in Seq(Buffer)
    <3>1. 1 \in 1..Len(q) BY <1>3, <1>7, EmptySeq
    <3>2. q[1] \in Buffer BY <1>3, <3>1, ElementOfSeq
    <3>3. q[1] \in Seq(Nat) /\ q[1] # <<>> BY <3>2 DEF Buffer
    <3>4. Len(q[1]) \in Nat \ {0} BY <3>3, EmptySeq
    <3>5. Tail(q[1]) \in Seq(Nat) /\ Len(Tail(q[1])) = Len(q[1]) - 1
      BY <3>3, HeadTailProperties
    <3>6. Len(Tail(q[1])) # 0 BY <2>2, <3>4, <3>5
    <3>7. Tail(q[1]) # <<>> BY <3>6, EmptySeq
    <3>8. Tail(q[1]) \in Buffer BY <3>5, <3>7 DEF Buffer
    <3> QED BY <1>3, <3>1, <3>8, ExceptSeq
  <2>3. t2 = [s1 EXCEPT !.i_rx_q = z] BY <1>4
  <2> HIDE DEF q, z
  <2> QED BY <1>6, <2>1, <2>2, <2>3
<1> HIDE DEF t1, t2
<1>8. Stays(s, s2)
  <2>1. \/ s2 = s1
        \/ q # <<>> /\ s2 = CheckRxCongestedStatus(t1)
        \/ q # <<>> /\ Len(q[1]) # 1 /\ s2 = t2
    <3> HIDE DEF q
    <3> QED OBVIOUS
  <2> HIDE DEF q, s2
  <2> QED BY <1>4, <1>7, <2>1, CheckRxStays, StaysType, StaysTrans
<1> HIDE DEF s2
<1>9. Stays(s, s2f) BY <1>8, FieldStays, StaysType, StaysTrans
<1> HIDE DEF s2f
<1>10. Stays(s, s3) BY <1>8, <1>9, SetFlagStays, StaysType, StaysTrans DEF FLAG
<1> HIDE DEF s3
<1>11. ASSUME NEW t \in ControlBlock, NEW x \in BOOLEAN PROVE Stays(t, [t EXCEPT !.ind = x])
  BY DEF ControlBlock, Stays
<1>12. Stays(s, r)
  <2>1. s3 \in ControlBlock BY <1>10, StaysType
  <2>2. (s3.ind /\ s3.i_rx_q # <<>>) \in BOOLEAN OBVIOUS
  <2>3. Stays(s3, r) BY <1>11, <2>1, <2>2
  <2> QED BY <1>10, <2>3, StaysTrans
<1> HIDE DEF r
<1> QED BY <1>2, <1>12, StaysHandled, UpdateHandled DEF s

(* The invariant holds when the link has been activated. *)
LEMMA InitIInv == ASSUME Init PROVE IInv
<1>1. TypeOK
  <2>1. ASSUME NEW n \in Node PROVE InitNode(n) \in ControlBlock
    <3> DEFINE y == IF n = Client THEN "LOCAL_XMIT_NEXT" ELSE "REMOTE_XMIT_NEXT"
    <3>1. y \in SYMM_STATE BY DEF SYMM_STATE
    <3>2. InitNode(n) = [NewBlock EXCEPT !.symm_state = y] BY DEF InitNode
    <3> HIDE DEF y
    <3> QED BY <3>1, <3>2, NewBlockType, ZenonT(60) DEF ControlBlock
  <2>2. nep \in 0..MaxEp /\ env \in Environments BY EnvAssumption DEF Init, Environment, MaxEp
  <2> QED BY <2>1, <2>2 DEF Init, TypeOK
<1>2. HalfDuplex
  <2>1. /\ InitNode(Client).symm_state = "LOCAL_XMIT_NEXT" /\ InitNode(Client).out = <<>>
        /\ InitNode(Server).symm_state = "REMOTE_XMIT_NEXT" /\ InitNode(Server).out = <<>>
    BY NodeAssumption DEF InitNode, NewBlock
  <2>2. node[Client] = InitNode(Client) /\ node[Server] = InitNode(Server)
        /\ Client \in Node /\ Peer(Client) = Server
    BY DEF Init, Node, Peer
  <2>3. Len(<<>>) <= 1 OBVIOUS
  <2>4. Turn(node[Client], node[Server]) /\ Turn(node[Server], node[Client]) /\ HasTurn(node[Client])
    BY <2>1, <2>2, <2>3 DEF Turn, HasTurn
  <2> QED BY <2>2, <2>4, HalfDuplexOfTurn
<1> QED BY <1>1, <1>2 DEF IInv

(* Every step keeps the invariant. *)
LEMMA NextIInv == ASSUME IInv, [Next]_vars PROVE IInv'
<1>1. CASE ConnectReq BY <1>1, ConnectReqKeeps
<1>2. CASE LinkDeactivate BY <1>2, LinkDeactivateKeeps
<1>3. ASSUME NEW n \in Node, Link(n) PROVE IInv'
  BY <1>3, RxPduKeeps, RxEndKeeps, SymmTimeoutKeeps DEF Link
<1>4. ASSUME NEW n \in Node, Api(n) PROVE IInv'
  BY <1>4, ConnectCfmKeeps, ConnectRejectKeeps, SendDataKeeps, IsDataLinkCongestedKeeps,
     ReadDataLinkDataKeeps, FlushRxDataKeeps, DisconnectReqKeeps, SetTxCompleteNtfKeeps,
     SetLocalBusyStatusKeeps DEF Api
<1>5. ASSUME NEW n \in Node, DataLinkTimeout(n) PROVE IInv'
  BY <1>5, DataLinkTimeoutKeeps
<1>6. CASE UNCHANGED vars BY <1>6 DEF vars, IInv, TypeOK, HalfDuplex, MaxEp
<1> QED BY <1>1, <1>2, <1>3, <1>4, <1>5, <1>6 DEF Next

(* The inductive invariant is an invariant. *)
LEMMA IInvInvariant == Spec => []IInv
BY InitIInv, NextIInv, PTL DEF Spec

(* The control blocks of both devices stay well typed: sequence numbers    *)
(* stay below the modulus, buffers of received data are never empty, and   *)
(* no field takes a value outside its type (tLLCP_DLCB).                   *)
THEOREM TypeCorrect == Spec => []TypeOK
<1>1. IInv => TypeOK BY DEF IInv
<1> QED BY <1>1, IInvInvariant, PTL

(* Whatever the calls, time-outs and losses of the link: the devices never *)
(* both have the turn to send, a frame is never overwritten before it was  *)
(* received completely, and the turn is never lost                         *)
(* (llcp_link_check_send_data, symm_state).                                *)
THEOREM HalfDuplexKept == Spec => []HalfDuplex
<1>1. IInv => HalfDuplex BY DEF IInv
<1> QED BY <1>1, IInvInvariant, PTL

-----------------------------------------------------------------------------
(* The announcement of received data.                                      *)

(* f counts the SDUs of the first buffers of q, which are k in all.        *)
Counted(q, k) ==
    \E f \in [0..Len(q) -> Int] :
      /\ f[0] = 0 /\ f[Len(q)] = k
      /\ \A i \in 1..Len(q) : f[i] = f[i-1] + Len(q[i])

(* num_rx_i_pdu counts what waits to be read, only a connection has        *)
(* something to read, and the upper layer was told of it.                  *)
Announces(s) ==
    /\ Counted(s.i_rx_q, s.num_rx_i_pdu)
    /\ s.state \notin {"CONNECTED", "W4_REMOTE_DM"} => s.i_rx_q = <<>>
    /\ Connected(s) /\ ~s.local_busy /\ s.i_rx_q # <<>> => s.ind

(* From s to t nothing was received or read.                               *)
Alike(s, t) ==
    /\ t.i_rx_q = s.i_rx_q /\ t.num_rx_i_pdu = s.num_rx_i_pdu
    /\ t.ind = s.ind /\ t.local_busy = s.local_busy
    /\ t.state = s.state \/ (Connected(s) /\ t.state = "W4_REMOTE_DM")

(* An empty queue holds nothing. *)
LEMMA CountedEmpty == Counted(<<>>, 0) /\ \A k : Counted(<<>>, k) => k = 0
<1>1. Len(<<>>) = 0 /\ 0..0 = {0} /\ 1..0 = {} OBVIOUS
<1>2. Counted(<<>>, 0)
  <2> DEFINE f == [i \in 0..0 |-> 0]
  <2>1. f \in [0..Len(<<>>) -> Int] /\ f[0] = 0 /\ f[Len(<<>>)] = 0 BY <1>1
  <2> HIDE DEF f
  <2> QED BY <1>1, <2>1 DEF Counted
<1>3. ASSUME NEW k, Counted(<<>>, k) PROVE k = 0
  <2>1. PICK f \in [0..Len(<<>>) -> Int] : f[0] = 0 /\ f[Len(<<>>)] = k BY <1>3 DEF Counted
  <2> QED BY <1>1, <2>1
<1> QED BY <1>2, <1>3

(* A buffer more. *)
LEMMA CountedAppend ==
    ASSUME NEW q \in Seq(Buffer), NEW k \in Int, Counted(q, k), NEW b \in Buffer, Len(b) = 1
    PROVE  Counted(Append(q, b), k + 1)
<1> DEFINE n == Len(q)  r == Append(q, b)
<1>1. PICK f \in [0..n -> Int] : f[0] = 0 /\ f[n] = k /\ \A i \in 1..n : f[i] = f[i-1] + Len(q[i])
  BY DEF Counted
<1>2. n \in Nat /\ Len(r) = n + 1 /\ r[n + 1] = b /\ \A i \in 1..n : r[i] = q[i] BY AppendProperties, LenProperties
<1> HIDE DEF n, r
<1> DEFINE g == [i \in 0..(n + 1) |-> IF i = n + 1 THEN k + 1 ELSE f[i]]
<1>3. g \in [0..Len(r) -> Int] BY <1>1, <1>2
<1>4. g[0] = 0 /\ g[Len(r)] = k + 1 BY <1>1, <1>2
<1>5. ASSUME NEW i \in 1..Len(r) PROVE g[i] = g[i-1] + Len(r[i])
  <2>1. CASE i = n + 1
    <3>1. g[i] = k + 1 /\ n \in 0..(n + 1) /\ n # n + 1 /\ i - 1 = n BY <1>2, <2>1
    <3>2. g[i-1] = k BY <1>1, <3>1
    <3> QED BY <1>2, <2>1, <3>1, <3>2
  <2>2. CASE i # n + 1
    <3>1. i \in 1..n /\ i \in 0..(n + 1) /\ i - 1 \in 0..(n + 1) /\ i - 1 # n + 1 BY <1>2, <2>2
    <3>2. g[i] = f[i] /\ g[i-1] = f[i-1] BY <2>2, <3>1
    <3> QED BY <1>1, <1>2, <3>1, <3>2
  <2> QED BY <2>1, <2>2
<1> HIDE DEF g
<1>6. Counted(r, k + 1) BY <1>3, <1>4, <1>5 DEF Counted
<1> QED BY <1>6 DEF r

(* An SDU more in the last buffer. *)
LEMMA CountedLast ==
    ASSUME NEW q \in Seq(Buffer), q # <<>>, NEW k \in Int, Counted(q, k), NEW x \in Nat
    PROVE  Counted([q EXCEPT ![Len(q)] = Append(q[Len(q)], x)], k + 1)
<1> DEFINE n == Len(q)  b == Append(q[n], x)  r == [q EXCEPT ![n] = b]
<1>1. PICK f \in [0..n -> Int] : f[0] = 0 /\ f[n] = k /\ \A i \in 1..n : f[i] = f[i-1] + Len(q[i])
  BY DEF Counted
<1>2. n \in Nat /\ n \in 1..n BY EmptySeq, LenProperties
<1>3. Len(b) = Len(q[n]) + 1 /\ Len(q[n]) \in Nat
  <2>1. q[n] \in Buffer BY <1>2, ElementOfSeq
  <2>2. q[n] \in Seq(Nat) BY <2>1 DEF Buffer
  <2> HIDE DEF n
  <2> QED BY <2>2
<1> HIDE DEF b
<1>4. Len(r) = n /\ r[n] = b /\ \A i \in 1..n : i # n => r[i] = q[i] BY <1>2
<1> HIDE DEF n, r
<1> DEFINE g == [f EXCEPT ![n] = k + 1]
<1>5. g \in [0..Len(r) -> Int] /\ g[0] = 0 /\ g[Len(r)] = k + 1 BY <1>1, <1>2, <1>4
<1>6. ASSUME NEW i \in 1..Len(r) PROVE g[i] = g[i-1] + Len(r[i])
  <2>1. i \in 1..n /\ i \in 0..n /\ i - 1 \in 0..n /\ i - 1 # n BY <1>2, <1>4
  <2>2. f[i-1] \in Int /\ g[i-1] = f[i-1] BY <1>1, <2>1
  <2>3. CASE i = n
    <3>1. g[i] = k + 1 /\ k = f[i-1] + Len(q[n]) BY <1>1, <1>2, <2>1, <2>3
    <3>2. Len(r[i]) = Len(q[n]) + 1 BY <1>3, <1>4, <2>3
    <3> QED BY <1>3, <2>2, <3>1, <3>2
  <2>4. CASE i # n BY <1>1, <1>4, <2>1, <2>2, <2>4
  <2> QED BY <2>3, <2>4
<1> HIDE DEF g
<1>7. Counted(r, k + 1) BY <1>5, <1>6 DEF Counted
<1> QED BY <1>7 DEF r, b, n

(* The first buffer is read, which held one SDU. *)
LEMMA CountedTail ==
    ASSUME NEW q \in Seq(Buffer), q # <<>>, Len(q[1]) = 1, NEW k \in Int, Counted(q, k)
    PROVE  Counted(Tail(q), k - 1)
<1> DEFINE n == Len(q)  r == Tail(q)
<1>1. PICK f \in [0..n -> Int] : f[0] = 0 /\ f[n] = k /\ \A i \in 1..n : f[i] = f[i-1] + Len(q[i])
  BY DEF Counted
<1>2. n \in Nat /\ 1 \in 1..n /\ Len(r) = n - 1 /\ \A i \in 1..Len(r) : r[i] = q[i + 1]
  BY EmptySeq, LenProperties, HeadTailProperties
<1> HIDE DEF n, r
<1> DEFINE g == [i \in 0..(n - 1) |-> f[i + 1] - 1]
<1>3. f[1] = 1
  <2>1. f[1] = f[1-1] + Len(q[1]) BY <1>1, <1>2
  <2>2. 1 - 1 = 0 OBVIOUS
  <2> QED BY <1>1, <2>1, <2>2
<1>4. g \in [0..Len(r) -> Int] BY <1>1, <1>2
<1>5. g[0] = 0 /\ g[Len(r)] = k - 1 BY <1>1, <1>2, <1>3
<1>6. ASSUME NEW i \in 1..Len(r) PROVE g[i] = g[i-1] + Len(r[i])
  <2>1. i \in 0..(n - 1) /\ i - 1 \in 0..(n - 1) /\ i + 1 \in 1..n /\ i \in 0..n /\ i + 1 \in 0..n BY <1>2
  <2>2. g[i] = f[i + 1] - 1 /\ g[i - 1] = f[i] - 1 BY <2>1
  <2>3. f[i + 1] = f[i] + Len(q[i + 1]) BY <1>1, <2>1
  <2>4. f[i] \in Int /\ f[i + 1] \in Int BY <1>1, <2>1
  <2>5. q[i + 1] \in Buffer BY <2>1, ElementOfSeq DEF n
  <2>6. Len(q[i + 1]) \in Nat BY <2>5, LenProperties DEF Buffer
  <2>7. r[i] = q[i + 1] BY <1>2
  <2>8. f[i] \in Int /\ f[i + 1] \in Int /\ f[i + 1] - 1 = (f[i] - 1) + Len(q[i + 1]) BY <2>3, <2>4, <2>6
  <2> QED BY <2>2, <2>7, <2>8
<1> HIDE DEF g
<1>7. Counted(r, k - 1) BY <1>4, <1>5, <1>6 DEF Counted
<1> QED BY <1>7 DEF r

(* An SDU of the first buffer is read. *)
LEMMA CountedFirst ==
    ASSUME NEW q \in Seq(Buffer), q # <<>>, NEW k \in Int, Counted(q, k)
    PROVE  Counted([q EXCEPT ![1] = Tail(@)], k - 1)
<1> DEFINE n == Len(q)  b == Tail(q[1])  r == [q EXCEPT ![1] = b]
<1>1. PICK f \in [0..n -> Int] : f[0] = 0 /\ f[n] = k /\ \A i \in 1..n : f[i] = f[i-1] + Len(q[i])
  BY DEF Counted
<1>2. n \in Nat /\ 1 \in 1..n BY EmptySeq, LenProperties
<1>3. Len(b) = Len(q[1]) - 1 /\ Len(q[1]) \in Nat
  <2>1. q[1] \in Buffer BY <1>2, ElementOfSeq
  <2>2. q[1] \in Seq(Nat) /\ q[1] # <<>> BY <2>1 DEF Buffer
  <2> QED BY <2>2, HeadTailProperties, LenProperties
<1> HIDE DEF b
<1>4. Len(r) = n /\ r[1] = b /\ \A i \in 1..n : i # 1 => r[i] = q[i] BY <1>2
<1> HIDE DEF n, r
<1> DEFINE g == [i \in 0..n |-> IF i = 0 THEN 0 ELSE f[i] - 1]
<1>5. g \in [0..Len(r) -> Int] /\ g[0] = 0 /\ g[Len(r)] = k - 1 BY <1>1, <1>2, <1>4
<1>6. ASSUME NEW i \in 1..Len(r) PROVE g[i] = g[i-1] + Len(r[i])
  <2>1. i \in 1..n /\ i \in 0..n /\ i - 1 \in 0..n /\ i # 0 BY <1>2, <1>4
  <2>2. f[i] \in Int /\ f[i-1] \in Int /\ f[i] = f[i-1] + Len(q[i]) /\ g[i] = f[i] - 1 BY <1>1, <2>1
  <2>3. CASE i = 1
    <3>1. g[i-1] = 0 /\ f[i-1] = 0 BY <1>1, <1>2, <2>3
    <3>2. Len(r[i]) = Len(q[i]) - 1 /\ Len(q[i]) \in Nat BY <1>3, <1>4, <2>3
    <3> QED BY <2>2, <3>1, <3>2
  <2>4. CASE i # 1
    <3>1. g[i-1] = f[i-1] - 1 BY <2>1, <2>4
    <3>2. r[i] = q[i] BY <1>4, <2>1, <2>4
    <3>3. q[i] \in Buffer BY <2>1, ElementOfSeq DEF n
    <3>4. Len(q[i]) \in Nat BY <3>3, LenProperties DEF Buffer
    <3> QED BY <2>2, <3>1, <3>2, <3>4
  <2> QED BY <2>3, <2>4
<1> HIDE DEF g
<1>7. Counted(r, k - 1) BY <1>5, <1>6 DEF Counted
<1> QED BY <1>7 DEF r, b

(* Alike is reflexive and transitive. *)
LEMMA AlikeTrans ==
    ASSUME NEW s, NEW t, NEW u
    PROVE  Alike(s, s) /\ (Alike(s, t) /\ Alike(t, u) => Alike(s, u))
BY DEF Alike, Connected

(* What is announced stays so when nothing was received or read. *)
LEMMA AlikeAnnounces == ASSUME NEW s, NEW t, Announces(s), Alike(s, t) PROVE Announces(t)
BY DEF Alike, Announces, Connected

(* Fields that the announcement does not read. *)
LEMMA FieldAlike ==
    ASSUME NEW s \in ControlBlock
    PROVE  /\ \A f : Alike(s, SetFlag(s, f)) /\ Alike(s, ClearFlag(s, f))
           /\ \A p : Alike(s, Enqueue(s, p))
           /\ \A x : Alike(s, [s EXCEPT !.sent_ack_seq = x])
           /\ \A x : Alike(s, [s EXCEPT !.last_nr = x])
           /\ \A x : Alike(s, [s EXCEPT !.ncomplete = x])
           /\ \A x : Alike(s, [s EXCEPT !.sig_xmit_q = x])
           /\ \A x : Alike(s, [s EXCEPT !.overall_rx_congested = x])
           /\ \A x : Alike(s, [s EXCEPT !.is_rx_congested = x])
           /\ \A x, y : Alike(s, [s EXCEPT !.is_tx_congested = x, !.told = y])
           /\ \A x, y : Alike(s, [s EXCEPT !.i_xmit_q = x, !.nsent = y])
           /\ \A x, y, z : Alike(s, [s EXCEPT !.rcvd_ack_seq = x, !.remote_busy = y, !.told = z])
           /\ \A x, y, z, w : Alike(s, [s EXCEPT !.i_xmit_q = x, !.next_tx_seq = y, !.sent_ack_seq = z, !.last_nr = w])
           /\ \A x, y, z : Alike(s, [s EXCEPT !.next_rx_seq = x, !.rcvd_ack_seq = y, !.nrcvd = z])
           /\ \A x, y : Alike(s, [s EXCEPT !.symm_state = x, !.out = y])
           /\ \A x : Alike(s, [s EXCEPT !.told = x])
           /\ \A x : Alike(s, [s EXCEPT !.out = x])
           /\ \A x : Alike(s, [s EXCEPT !.symm_state = x])
           /\ \A x : Alike(s, [s EXCEPT !.overall_tx_congested = x])
           /\ \A x, y, z : Alike(s, [s EXCEPT !.overall_tx_congested = x, !.is_tx_congested = y, !.told = z])
<1>1. \A f : Alike(s, SetFlag(s, f)) /\ Alike(s, ClearFlag(s, f)) BY DEF Alike, SetFlag, ClearFlag, ControlBlock
<1>2. \A p : Alike(s, Enqueue(s, p)) BY DEF Alike, Enqueue, ControlBlock
<1>3. \A x : Alike(s, [s EXCEPT !.sent_ack_seq = x]) BY DEF Alike, ControlBlock
<1>4. \A x : Alike(s, [s EXCEPT !.last_nr = x]) BY DEF Alike, ControlBlock
<1>5. \A x : Alike(s, [s EXCEPT !.ncomplete = x]) BY DEF Alike, ControlBlock
<1>6. \A x : Alike(s, [s EXCEPT !.sig_xmit_q = x]) BY DEF Alike, ControlBlock
<1>7. \A x : Alike(s, [s EXCEPT !.overall_rx_congested = x]) BY DEF Alike, ControlBlock
<1>8. \A x : Alike(s, [s EXCEPT !.is_rx_congested = x]) BY DEF Alike, ControlBlock
<1>9. \A x, y : Alike(s, [s EXCEPT !.is_tx_congested = x, !.told = y]) BY DEF Alike, ControlBlock
<1>10. \A x, y : Alike(s, [s EXCEPT !.i_xmit_q = x, !.nsent = y]) BY DEF Alike, ControlBlock
<1>11. \A x, y, z : Alike(s, [s EXCEPT !.rcvd_ack_seq = x, !.remote_busy = y, !.told = z]) BY DEF Alike, ControlBlock
<1>12. \A x, y, z, w : Alike(s, [s EXCEPT !.i_xmit_q = x, !.next_tx_seq = y, !.sent_ack_seq = z, !.last_nr = w])
  BY DEF Alike, ControlBlock
<1>13. \A x, y, z : Alike(s, [s EXCEPT !.next_rx_seq = x, !.rcvd_ack_seq = y, !.nrcvd = z]) BY DEF Alike, ControlBlock
<1>14. \A x, y : Alike(s, [s EXCEPT !.symm_state = x, !.out = y]) BY DEF Alike, ControlBlock
<1>15. \A x : Alike(s, [s EXCEPT !.told = x]) BY DEF Alike, ControlBlock
<1>16. \A x : Alike(s, [s EXCEPT !.out = x]) BY DEF Alike, ControlBlock
<1>17. \A x : Alike(s, [s EXCEPT !.symm_state = x]) BY DEF Alike, ControlBlock
<1>18. \A x : Alike(s, [s EXCEPT !.overall_tx_congested = x]) BY DEF Alike, ControlBlock
<1>19. \A x, y, z : Alike(s, [s EXCEPT !.overall_tx_congested = x, !.is_tx_congested = y, !.told = z])
  BY DEF Alike, ControlBlock
<1> QED BY <1>1, <1>2, <1>3, <1>4, <1>5, <1>6, <1>7, <1>8, <1>9, <1>10, <1>11, <1>12, <1>13, <1>14, <1>15,
           <1>16, <1>17, <1>18, <1>19

(* Sending an RR or RNR. *)
LEMMA SendRrRnrAlike ==
    ASSUME NEW s \in ControlBlock, NEW ok \in BOOLEAN PROVE Alike(s, SendRrRnr(s, ok))
<1> DEFINE s1 == IF RxFlowOff(s) THEN s ELSE [s EXCEPT !.sent_ack_seq = s.next_rx_seq]
           p == [NewPdu(IF RxFlowOff(s) THEN "RNR" ELSE "RR", s.ep) EXCEPT !.nr = s1.sent_ack_seq]
           s2 == ClearFlag(s1, "PENDING_RR_RNR")
           s3 == Enqueue(s2, p)
<1>1. s1 \in ControlBlock /\ Alike(s, s1)
  <2>1. [s EXCEPT !.sent_ack_seq = s.next_rx_seq] \in ControlBlock BY DEF ControlBlock
  <2> QED BY <2>1, FieldAlike, AlikeTrans
<1>2. SendRrRnr(s, ok) \in {s, s1, [s3 EXCEPT !.last_nr = s1.sent_ack_seq]} BY DEF SendRrRnr
<1>3. p \in Pdu
  <2>1. s1.sent_ack_seq \in SeqNum /\ s.ep \in Nat BY <1>1 DEF ControlBlock
  <2> HIDE DEF s1
  <2>2. NewPdu(IF RxFlowOff(s) THEN "RNR" ELSE "RR", s.ep) \in Pdu BY <2>1, NewPduType DEF PTYPE
  <2> QED BY <2>1, <2>2 DEF Pdu
<1> HIDE DEF s1, p
<1>4. s2 \in ControlBlock /\ Alike(s1, s2) BY <1>1, FieldAlike, ClearFlagStays, StaysType
<1> HIDE DEF s2
<1>5. s3 \in ControlBlock /\ Alike(s2, s3) BY <1>3, <1>4, FieldAlike, EnqueueStays, StaysType
<1> HIDE DEF s3
<1>6. Alike(s3, [s3 EXCEPT !.last_nr = s1.sent_ack_seq]) BY <1>5, FieldAlike
<1>7. Alike(s, [s3 EXCEPT !.last_nr = s1.sent_ack_seq]) BY <1>1, <1>4, <1>5, <1>6, AlikeTrans
<1> QED BY <1>1, <1>2, <1>7, AlikeTrans

(* Leaving CONNECTED. *)
LEMMA EnterW4RemoteDmAlike ==
    ASSUME NEW s \in ControlBlock, Connected(s), NEW ok PROVE Alike(s, EnterW4RemoteDm(s, ok))
<1> DEFINE s1 == [s EXCEPT !.state = "W4_REMOTE_DM"]
           p == [NewPdu("DISC", s.ep) EXCEPT !.sdu = IF NothingPending(s) THEN s.nsent ELSE 0]
<1>1. s1 \in ControlBlock /\ Alike(s, s1) BY DEF ControlBlock, DLC_STATE, Alike
<1>2. EnterW4RemoteDm(s, ok) = IF ok THEN Enqueue(s1, p) ELSE s1 BY DEF EnterW4RemoteDm
<1> HIDE DEF s1, p
<1> QED BY <1>1, <1>2, FieldAlike, AlikeTrans

(* A disconnect that waited. *)
LEMMA PendingDiscAlike ==
    ASSUME NEW s \in ControlBlock, NEW ok PROVE Alike(s, PendingDisc(s, ok))
<1> DEFINE s1 == ClearFlag(s, "PENDING_DISC")
<1>1. s1 \in ControlBlock /\ Alike(s, s1) /\ s1.state = s.state
  <2>1. s1.state = s.state BY DEF ClearFlag, ControlBlock
  <2> QED BY <2>1, ClearFlagStays, FieldAlike, StaysType
<1>2. PendingDisc(s, ok) \in {s, s1} \/ (Connected(s) /\ PendingDisc(s, ok) = EnterW4RemoteDm(s1, ok)) BY DEF PendingDisc
<1> HIDE DEF s1
<1>3. Connected(s) => Alike(s1, EnterW4RemoteDm(s1, ok)) BY <1>1, EnterW4RemoteDmAlike DEF Connected
<1> QED BY <1>1, <1>2, <1>3, AlikeTrans

(* The tail of llcp_dlc_get_next_pdu. *)
LEMMA NotifyWhenDoneAlike ==
    ASSUME NEW s \in ControlBlock, NEW ok \in BOOLEAN PROVE Alike(s, NotifyWhenDone(s, ok))
<1> DEFINE s1 == PendingDisc(s, ok)  s2 == ClearFlag(s1, "NOTIFY_TX_DONE")
<1>1. s1 \in ControlBlock /\ Alike(s, s1) BY PendingDiscStays, PendingDiscAlike, StaysType
<1>2. NotifyWhenDone(s, ok) \in {s1, [s2 EXCEPT !.ncomplete = s.nsent]} BY DEF NotifyWhenDone
<1> HIDE DEF s1
<1>3. s2 \in ControlBlock /\ Alike(s1, s2) BY <1>1, FieldAlike, ClearFlagStays, StaysType
<1> HIDE DEF s2
<1>4. Alike(s2, [s2 EXCEPT !.ncomplete = s.nsent]) BY <1>3, FieldAlike
<1> QED BY <1>1, <1>2, <1>3, <1>4, AlikeTrans

(* llcp_dlc_check_to_send_rr_rnr. *)
LEMMA CheckToSendRrRnrAlike ==
    ASSUME NEW s \in ControlBlock, NEW c \in Choice PROVE Alike(s, CheckToSendRrRnr(s, c))
<1> DEFINE s1 == SendRrRnr(s, c.rr)
<1>1. s1 \in ControlBlock /\ Alike(s, s1) BY ChoiceType, SendRrRnrStays, SendRrRnrAlike, StaysType
<1>2. CheckToSendRrRnr(s, c) \in {s, PendingDisc(s1, c.disc)} BY DEF CheckToSendRrRnr
<1> HIDE DEF s1
<1>3. Alike(s1, PendingDisc(s1, c.disc)) BY <1>1, PendingDiscAlike
<1> QED BY <1>1, <1>2, <1>3, AlikeTrans

(* llcp_link_get_next_pdu. *)
LEMMA AddPdusAlike ==
    ASSUME NEW s \in ControlBlock, NEW pdus, NEW k \in Nat
    PROVE  Alike(s, AddPdus([pdus |-> pdus, s |-> s], k).s)
<1> DEFINE nsig == MinNat(k, Len(s.sig_xmit_q))
           rest == SubSeq(s.sig_xmit_q, nsig + 1, Len(s.sig_xmit_q))
           s1 == [s EXCEPT !.sig_xmit_q = rest]
           m == MinNat(k - nsig, SendableIPdus(s))
           info == BuildInfoPdus(s1, m)
<1>1. s1 \in ControlBlock
  <2>1. s.sig_xmit_q \in Seq(Pdu) /\ Len(s.sig_xmit_q) \in Nat BY LenProperties DEF ControlBlock
  <2>2. nsig \in Nat /\ nsig <= Len(s.sig_xmit_q) BY <2>1 DEF MinNat
  <2>3. rest \in Seq(Pdu) BY <2>1, <2>2, SubSeqType
  <2> HIDE DEF rest
  <2> QED BY <2>3 DEF ControlBlock
<1>2. Alike(s, s1)
  <2> HIDE DEF rest
  <2> QED BY FieldAlike
<1>3. AddPdus([pdus |-> pdus, s |-> s], k).s = info.s BY DEF AddPdus
<1> HIDE DEF s1, m
<1> DEFINE nr == IF RxFlowOff(s1) THEN s1.sent_ack_seq ELSE s1.next_rx_seq
           q == SubSeq(s1.i_xmit_q, m + 1, Len(s1.i_xmit_q))
           x == (s1.next_tx_seq + m) % LLCP_SEQ_MODULO
<1>4. info.s = IF m = 0 THEN s1
               ELSE [s1 EXCEPT !.i_xmit_q = q, !.next_tx_seq = x, !.sent_ack_seq = nr, !.last_nr = nr]
  BY DEF BuildInfoPdus
<1> HIDE DEF info, q, x, nr
<1>5. Alike(s1, [s1 EXCEPT !.i_xmit_q = q, !.next_tx_seq = x, !.sent_ack_seq = nr, !.last_nr = nr]) BY <1>1, FieldAlike
<1> QED BY <1>2, <1>3, <1>4, <1>5, AlikeTrans

(* llcp_link_build_next_pdu. *)
LEMMA BuildNextPduAlike ==
    ASSUME NEW s \in ControlBlock, NEW b, Built(s, b), Alike(s, b.s), NEW k \in Nat, NEW ok \in BOOLEAN
    PROVE  Alike(s, BuildNextPdu(b, k, ok).s)
<1>1. PICK pdus, t : pdus \in Seq(Pdu) /\ b = [pdus |-> pdus, s |-> t] /\ Stays(s, t) BY DEF Built
<1>2. t \in ControlBlock /\ b.s = t BY <1>1, StaysType
<1>3. \A j \in Nat : Alike(t, AddPdus(b, j).s) BY <1>1, <1>2, AddPdusAlike
<1>4. [b EXCEPT !.s = NotifyWhenDone(b.s, ok)].s = NotifyWhenDone(t, ok) BY <1>1
<1>5. Alike(t, NotifyWhenDone(t, ok)) BY <1>2, NotifyWhenDoneAlike
<1>6. (IF k = 0 THEN 1 ELSE k) \in Nat OBVIOUS
<1>7. \/ \E j \in Nat : BuildNextPdu(b, k, ok) = AddPdus(b, j)
      \/ BuildNextPdu(b, k, ok) = [b EXCEPT !.s = NotifyWhenDone(b.s, ok)]
  BY <1>6 DEF BuildNextPdu
<1>8. Alike(t, BuildNextPdu(b, k, ok).s) BY <1>3, <1>4, <1>5, <1>7
<1> QED BY <1>2, <1>8, AlikeTrans

(* llcp_link_check_congestion and llcp_link_check_uncongested. *)
LEMMA CongestionAlike ==
    ASSUME NEW s \in ControlBlock PROVE Alike(s, CheckCongestion(s)) /\ Alike(s, CheckUncongested(s))
<1> DEFINE t1 == [s EXCEPT !.overall_tx_congested = TRUE]
           t2 == [s EXCEPT !.overall_tx_congested = TRUE, !.is_tx_congested = TRUE, !.told = TRUE]
           u1 == [s EXCEPT !.overall_tx_congested = FALSE]
           told == u1.told /\ s.remote_busy
           u2 == [u1 EXCEPT !.is_tx_congested = FALSE, !.told = told]
<1>1. Alike(s, t1) /\ Alike(s, t2) BY FieldAlike
<1>2. CheckCongestion(s) \in {s, t1, t2} BY DEF CheckCongestion
<1>3. u1 \in ControlBlock /\ Alike(s, u1) BY FieldAlike DEF ControlBlock
<1>4. CheckUncongested(s) \in {s, u1, u2} BY DEF CheckUncongested
<1> HIDE DEF t1, t2, u1, told
<1>5. Alike(s, u2) BY <1>3, FieldAlike, AlikeTrans
<1> QED BY <1>1, <1>2, <1>3, <1>4, <1>5, AlikeTrans

(* llcp_link_check_send_data. *)
LEMMA CheckSendDataAlike ==
    ASSUME NEW s \in ControlBlock, NEW c \in Choice PROVE Alike(s, CheckSendData(s, c))
<1> DEFINE s0 == CheckCongestion(s)
           b0 == [pdus |-> <<>>, s |-> s0]
           b1 == BuildNextPdu(b0, c.k1, c.disc)
           b1a == [b1 EXCEPT !.s = CheckToSendRrRnr(b1.s, c)]
           b2 == BuildNextPdu(b1a, c.k2, c.disc)
           s3 == SendToLower(b2.s, b2.pdus)
<1>0. CheckSendData(s, c) \in {s0, b2.s} \/ (s.symm_state = "LOCAL_XMIT_NEXT" /\ CheckSendData(s, c) = CheckUncongested(s3))
  BY DEF CheckSendData
<1>1. Stays(s, s0) /\ Alike(s, s0) BY CheckCongestionStays, CongestionAlike
<1> HIDE DEF s0
<1>2. Built(s, b0) /\ Alike(s, b0.s)
  <2>1. <<>> \in Seq(Pdu) OBVIOUS
  <2> QED BY <1>1, <2>1 DEF Built
<1> HIDE DEF b0
<1>3. Built(s, b1) /\ Alike(s, b1.s) BY <1>2, BuildNextPduType, BuildNextPduAlike, ChoiceType
<1> HIDE DEF b1
<1>4. Built(s, b1a) /\ Alike(s, b1a.s)
  <2>1. PICK pdus, t : pdus \in Seq(Pdu) /\ b1 = [pdus |-> pdus, s |-> t] /\ Stays(s, t)
    BY <1>3 DEF Built
  <2>2. b1a = [pdus |-> pdus, s |-> CheckToSendRrRnr(t, c)] /\ b1.s = t BY <2>1
  <2>3. Stays(s, CheckToSendRrRnr(t, c)) BY <2>1, StaysType, StaysTrans, CheckToSendRrRnrStays
  <2>4. Alike(t, CheckToSendRrRnr(t, c)) BY <2>1, StaysType, CheckToSendRrRnrAlike
  <2>5. b1a.s = CheckToSendRrRnr(t, c) BY <2>2
  <2> HIDE DEF b1a
  <2> QED BY <1>3, <2>1, <2>2, <2>3, <2>4, <2>5, AlikeTrans DEF Built
<1> HIDE DEF b1a
<1>5. Built(s, b2) /\ Alike(s, b2.s) BY <1>4, BuildNextPduType, BuildNextPduAlike, ChoiceType
<1> HIDE DEF b2
<1>6. b2.pdus \in Seq(Pdu) /\ Stays(s, b2.s) BY <1>5 DEF Built
<1>7. ASSUME s.symm_state = "LOCAL_XMIT_NEXT" PROVE Alike(s, CheckUncongested(s3))
  <2>1. b2.s \in ControlBlock /\ b2.s.symm_state = "LOCAL_XMIT_NEXT" BY <1>6, <1>7 DEF Stays
  <2>2. s3 \in ControlBlock BY <1>6, <2>1, SendToLowerSent DEF Sent
  <2>3. Alike(b2.s, s3) BY <2>1, FieldAlike DEF SendToLower
  <2> HIDE DEF s3
  <2> QED BY <1>5, <2>2, <2>3, CongestionAlike, AlikeTrans
<1> QED BY <1>0, <1>1, <1>5, <1>7

(* Sending a signalling PDU. *)
LEMMA SendSigAlike ==
    ASSUME NEW s \in ControlBlock, NEW p \in Pdu, NEW c \in Choice PROVE Alike(s, SendSig(s, p, c))
<1>1. Enqueue(s, p) \in ControlBlock /\ Alike(s, Enqueue(s, p)) BY EnqueueStays, StaysType, FieldAlike
<1>2. SendSig(s, p, c) \in {s, CheckSendData(Enqueue(s, p), c)} BY DEF SendSig
<1> QED BY <1>1, <1>2, CheckSendDataAlike, AlikeTrans

(* llcp_util_send_dm. *)
LEMMA SendDmAlike ==
    ASSUME NEW s \in ControlBlock, NEW r \in REASON, NEW ep \in Nat, NEW c \in Choice
    PROVE  Alike(s, SendDm(s, r, ep, c))
<1>1. NewPdu("DM", ep) \in Pdu BY NewPduType DEF PTYPE
<1>2. [NewPdu("DM", ep) EXCEPT !.reason = r] \in Pdu BY <1>1 DEF Pdu
<1> QED BY <1>2, SendSigAlike DEF SendDm

(* llcp_util_check_rx_congested_status. *)
LEMMA CheckRxAlike ==
    ASSUME NEW s \in ControlBlock PROVE Alike(s, CheckRxCongestedStatus(s)) /\ CheckRxCongestedStatus(s) \in ControlBlock
<1> DEFINE b == ~s.overall_rx_congested
           s1 == [s EXCEPT !.overall_rx_congested = b]
<1>1. s1 \in ControlBlock BY DEF ControlBlock
<1>2. CheckRxCongestedStatus(s) \in {s, s1, SetFlag(s1, "PENDING_RR_RNR"), SetFlag(s, "PENDING_RR_RNR")}
  BY DEF CheckRxCongestedStatus
<1>3. Alike(s, s1)
  <2> HIDE DEF b
  <2> QED BY FieldAlike
<1> HIDE DEF s1
<1>4. Alike(s, SetFlag(s, "PENDING_RR_RNR")) /\ Alike(s, SetFlag(s1, "PENDING_RR_RNR"))
  <2>1. Alike(s1, SetFlag(s1, "PENDING_RR_RNR")) BY <1>1, FieldAlike
  <2> QED BY <1>3, <2>1, FieldAlike, AlikeTrans
<1>5. CheckRxCongestedStatus(s) \in ControlBlock BY CheckRxStays, StaysType
<1> QED BY <1>2, <1>3, <1>4, <1>5, AlikeTrans

(* A device with nothing to read. *)
LEMMA EmptyAnnounces ==
    ASSUME NEW s, s.i_rx_q = <<>>, s.num_rx_i_pdu = 0 PROVE Announces(s)
BY CountedEmpty DEF Announces

(* LLCP_FlushDataLinkRxData, and the ends of a connection. *)
LEMMA FlushAnnounces ==
    ASSUME NEW s \in ControlBlock
    PROVE  /\ Announces(FlushDataLinkRxData(s))
           /\ Announces(AllocateDataLink(s)) /\ AllocateDataLink(s).i_rx_q = <<>> /\ AllocateDataLink(s).num_rx_i_pdu = 0
           /\ Announces(s) => Announces(DeallocateDataLink(s))
<1>1. Announces(FlushDataLinkRxData(s))
  <2> DEFINE s1 == [s EXCEPT !.i_rx_q = <<>>, !.num_rx_i_pdu = 0, !.ind = FALSE]
             s2 == [s1 EXCEPT !.is_rx_congested = FALSE]
             s3 == SetFlag(s2, "PENDING_RR_RNR")
  <2>1. FlushDataLinkRxData(s) \in {CheckRxCongestedStatus(s1), CheckRxCongestedStatus(s3)} BY DEF FlushDataLinkRxData
  <2>2. s1 \in ControlBlock /\ s1.i_rx_q = <<>> /\ s1.num_rx_i_pdu = 0
    <3>1. ASSUME NEW z \in Seq(Buffer), NEW i \in Int
          PROVE  LET t == [s EXCEPT !.i_rx_q = z, !.num_rx_i_pdu = i, !.ind = FALSE]
                 IN  t \in ControlBlock /\ t.i_rx_q = z /\ t.num_rx_i_pdu = i
      BY DEF ControlBlock
    <3>2. <<>> \in Seq(Buffer) /\ 0 \in Int OBVIOUS
    <3> QED BY <3>1, <3>2
  <2> HIDE DEF s1
  <2>3. s2 \in ControlBlock /\ Alike(s1, s2) BY <2>2, FieldAlike DEF ControlBlock
  <2> HIDE DEF s2
  <2>4. s3 \in ControlBlock /\ Alike(s2, s3) BY <2>3, FieldAlike, SetFlagStays, StaysType DEF FLAG
  <2> HIDE DEF s3
  <2>5. Announces(s1) BY <2>2, EmptyAnnounces
  <2>6. Announces(s3) BY <2>3, <2>4, <2>5, AlikeAnnounces
  <2> QED BY <2>1, <2>2, <2>4, <2>5, <2>6, CheckRxAlike, AlikeAnnounces
<1>2. ASSUME NEW t PROVE ResetDlcb(t).i_rx_q = <<>> /\ ResetDlcb(t).num_rx_i_pdu = 0 BY DEF ResetDlcb, NewBlock
<1>3. ASSUME NEW t, NEW x
      PROVE  LET r == [ResetDlcb(t) EXCEPT !.num_data_link_connection = x] IN r.i_rx_q = <<>> /\ r.num_rx_i_pdu = 0
  BY DEF ResetDlcb, NewBlock
<1>4. AllocateDataLink(s).i_rx_q = <<>> /\ AllocateDataLink(s).num_rx_i_pdu = 0
  BY <1>3 DEF AllocateDataLink
<1>5. DeallocateDataLink(s) = s \/ (DeallocateDataLink(s).i_rx_q = <<>> /\ DeallocateDataLink(s).num_rx_i_pdu = 0)
  BY <1>3 DEF DeallocateDataLink
<1> QED BY <1>1, <1>4, <1>5, EmptyAnnounces

(* The upper layer is told of what is received. *)
LEMMA AcceptAnnounces ==
    ASSUME NEW s \in ControlBlock, Announces(s), Connected(s), NEW p \in Pdu, NEW agf, NEW c, c.pdu
    PROVE  Announces(AcceptIPdu(s, p, agf, c))
<1> DEFINE s1 == [s EXCEPT !.next_rx_seq = Inc(@), !.rcvd_ack_seq = p.nr, !.nrcvd = @ + 1]
           s2 == StoreSdu(s1, p, agf, c)
           new == ~s.local_busy /\ s.num_rx_i_pdu = 0
           k == s2.num_rx_i_pdu + 1
           ind == s2.ind \/ new
           s3 == [s2 EXCEPT !.num_rx_i_pdu = k, !.ind = ind]
           s4 == [s3 EXCEPT !.is_rx_congested = TRUE]
<1>1. s1 \in ControlBlock /\ Alike(s, s1)
  <2>1. s.next_rx_seq \in SeqNum /\ p.nr \in SeqNum /\ s.nrcvd \in Nat BY DEF ControlBlock, Pdu
  <2>2. Inc(s.next_rx_seq) \in SeqNum /\ s.nrcvd + 1 \in Nat BY <2>1, IncType
  <2>3. ASSUME NEW x \in SeqNum, NEW y \in SeqNum, NEW z \in Nat
        PROVE  LET t == [s EXCEPT !.next_rx_seq = x, !.rcvd_ack_seq = y, !.nrcvd = z]
               IN t \in ControlBlock /\ Alike(s, t)
    BY FieldAlike DEF ControlBlock
  <2> QED BY <2>1, <2>2, <2>3
<1>2. AcceptIPdu(s, p, agf, c) \in {s3, SetFlag(s4, "PENDING_RR_RNR")} BY DEF AcceptIPdu
<1> HIDE DEF s1
<1>3. Stays(s1, s2) /\ s2 \in ControlBlock BY <1>1, StoreSduStays, StaysType
<1>4. /\ s2.i_rx_q # <<>> /\ Counted(s2.i_rx_q, s1.num_rx_i_pdu + 1)
      /\ s2.ind = s1.ind /\ s2.local_busy = s1.local_busy /\ s2.state = s1.state /\ s2.num_rx_i_pdu = s1.num_rx_i_pdu
  <2> DEFINE q == s1.i_rx_q
             q1 == [q EXCEPT ![Len(q)] = Append(q[Len(q)], p.sdu)]
             q2 == Append(q, <<p.sdu>>)
             t1 == [s1 EXCEPT !.i_rx_q = q1]
             t2 == [s1 EXCEPT !.i_rx_q = q2]
  <2>1. \/ q # <<>> /\ s2 = t1
        \/ s2 = CheckRxCongestedStatus(t2)
    BY DEF StoreSdu
  <2>2. q \in Seq(Buffer) /\ p.sdu \in Nat /\ Counted(q, s1.num_rx_i_pdu) /\ s1.num_rx_i_pdu \in Int /\ s1.state = "CONNECTED"
    <3>1. Announces(s1) BY <1>1, AlikeAnnounces
    <3>2. s1.state = s.state \/ s1.state = "W4_REMOTE_DM" BY <1>1 DEF Alike
    <3>3. s1.state = "CONNECTED" BY DEF s1, ControlBlock, Connected
    <3> QED BY <1>1, <3>1, <3>3 DEF ControlBlock, Pdu, Announces
  <2>3. ASSUME NEW z
        PROVE  LET t == [s1 EXCEPT !.i_rx_q = z]
               IN  /\ t.i_rx_q = z /\ t.ind = s1.ind /\ t.local_busy = s1.local_busy /\ t.state = s1.state
                   /\ t.num_rx_i_pdu = s1.num_rx_i_pdu
    BY <1>1 DEF ControlBlock
  <2>4. CASE q # <<>> /\ s2 = t1
    <3>1. Counted(q1, s1.num_rx_i_pdu + 1) BY <2>2, <2>4, CountedLast
    <3>2. q1 # <<>>
      <4> HIDE DEF q
      <4>1. DOMAIN q1 = DOMAIN q /\ DOMAIN q = 1..Len(q) /\ Len(q) \in Nat \ {0} BY <2>2, <2>4, EmptySeq, LenProperties
      <4>2. 1 \in DOMAIN q1 BY <4>1
      <4> QED BY <4>2
    <3> HIDE DEF q1, s2
    <3> QED BY <2>3, <2>4, <3>1, <3>2
  <2>5. CASE s2 = CheckRxCongestedStatus(t2)
    <3>1. <<p.sdu>> \in Buffer /\ Len(<<p.sdu>>) = 1 BY <2>2 DEF Buffer
    <3>2. Counted(q2, s1.num_rx_i_pdu + 1) BY <2>2, <3>1, CountedAppend
    <3>3. q2 # <<>> /\ q2 \in Seq(Buffer)
      <4> HIDE DEF q
      <4> QED BY <2>2, <3>1
    <3> HIDE DEF q2
    <3>4. t2 \in ControlBlock BY <1>1, <3>3 DEF ControlBlock
    <3>5. /\ t2.i_rx_q = q2 /\ t2.ind = s1.ind /\ t2.local_busy = s1.local_busy /\ t2.state = s1.state
          /\ t2.num_rx_i_pdu = s1.num_rx_i_pdu
      BY <2>3
    <3> HIDE DEF t2, s2
    <3>6. Alike(t2, s2) BY <2>5, <3>4, CheckRxAlike
    <3>7. s2.state = t2.state
      <4>1. CheckRxCongestedStatus(t2).state = t2.state BY <3>4 DEF CheckRxCongestedStatus, SetFlag, ControlBlock
      <4> QED BY <2>5, <4>1
    <3> QED BY <3>2, <3>3, <3>5, <3>6, <3>7 DEF Alike
  <2> HIDE DEF q, s2, t1, t2
  <2> QED BY <2>1, <2>4, <2>5
<1> HIDE DEF s2
<1>5. s3 \in ControlBlock /\ Announces(s3)
  <2>1. s2.num_rx_i_pdu \in Int /\ s2.ind \in BOOLEAN BY <1>3 DEF ControlBlock
  <2>2. k \in Int /\ ind \in BOOLEAN BY <2>1
  <2>3. k = s1.num_rx_i_pdu + 1 BY <1>4
  <2>4. ind <=> s2.ind \/ new OBVIOUS
  <2> HIDE DEF k, ind, new
  <2>5. ASSUME NEW i \in Int, NEW b \in BOOLEAN
        PROVE  LET t == [s2 EXCEPT !.num_rx_i_pdu = i, !.ind = b]
               IN  /\ t \in ControlBlock
                   /\ t.i_rx_q = s2.i_rx_q /\ t.num_rx_i_pdu = i /\ t.ind = b /\ t.local_busy = s2.local_busy
                   /\ t.state = s2.state
    BY <1>3 DEF ControlBlock
  <2>6. /\ s3 \in ControlBlock
        /\ s3.i_rx_q = s2.i_rx_q /\ s3.num_rx_i_pdu = k /\ s3.ind = ind /\ s3.local_busy = s2.local_busy
        /\ s3.state = s2.state
    BY <2>2, <2>5
  <2>7. Counted(s3.i_rx_q, s3.num_rx_i_pdu) BY <1>4, <2>3, <2>6
  <2>8. s3.state = "CONNECTED" \/ s3.state = "W4_REMOTE_DM" BY <1>1, <1>4, <2>6 DEF Alike, Connected
  <2>9. ASSUME ~s3.local_busy PROVE s3.ind
    <3>1. ~s.local_busy BY <1>1, <1>4, <2>6, <2>9 DEF Alike
    <3>2. CASE s.i_rx_q = <<>>
      <4>1. s.num_rx_i_pdu = 0 BY <3>2, CountedEmpty DEF Announces
      <4> QED BY <2>4, <2>6, <3>1, <4>1 DEF new
    <3>3. CASE s.i_rx_q # <<>>
      <4>1. s.ind BY <3>1, <3>3 DEF Announces
      <4>2. s2.ind = s.ind BY <1>1, <1>4 DEF Alike
      <4>3. s2.ind BY <4>1, <4>2, Zenon
      <4> QED BY <2>4, <2>6, <4>3, Zenon
    <3> QED BY <3>2, <3>3
  <2> HIDE DEF s3
  <2> QED BY <2>6, <2>7, <2>8, <2>9 DEF Announces
<1> HIDE DEF s3
<1>6. s4 \in ControlBlock /\ Alike(s3, s4) BY <1>5, FieldAlike DEF ControlBlock
<1> HIDE DEF s4
<1>7. Alike(s4, SetFlag(s4, "PENDING_RR_RNR")) BY <1>6, FieldAlike
<1> QED BY <1>2, <1>5, <1>6, <1>7, AlikeAnnounces

(* A frame error ends the connection. *)
LEMMA FrameErrorAnnounces ==
    ASSUME NEW s \in ControlBlock, Announces(s), NEW c \in Choice PROVE Announces(FrameError(s, c))
<1> DEFINE t == SendSig(s, NewPdu("FRMR", s.ep), c)
<1>1. s.ep \in Nat BY DEF ControlBlock
<1>2. NewPdu("FRMR", s.ep) \in Pdu BY <1>1, NewPduType DEF PTYPE
<1>3. t \in ControlBlock BY <1>2, SendSigHandled DEF Handled, Stays, Sent
<1>4. Announces(t) BY <1>2, SendSigAlike, AlikeAnnounces
<1>5. FrameError(s, c) = DeallocateDataLink(t) BY DEF FrameError
<1> HIDE DEF t
<1> QED BY <1>3, <1>4, <1>5, FlushAnnounces

(* Every received PDU. *)
LEMMA ProcRxPduAnnounces ==
    ASSUME NEW s \in ControlBlock, Announces(s), NEW p \in Pdu, NEW agf, NEW c \in Choice, c.pdu
    PROVE  Announces(ProcRxPdu(s, p, agf, c))
<1>1. p.ptype \in PTYPE /\ p.ep \in Nat /\ s.ep \in Nat BY DEF Pdu, ControlBlock
<1>2. ProcRxPdu(s, p, agf, c) \in
        {ProcConnect(s, p, c), ProcCc(s, p), ProcDisc(s, c), ProcDm(s, p),
         DeallocateDataLink(s), ProcI(s, p, agf, c), ProcRrRnr(s, p, c)}
  BY <1>1 DEF ProcRxPdu, PTYPE
<1>3. \A r \in REASON, e \in Nat : Announces(SendDm(s, r, e, c)) /\ SendDm(s, r, e, c) \in ControlBlock
  BY SendDmAlike, AlikeAnnounces, SendDmHandled DEF Handled, Stays, Sent
<1>4. Announces(DeallocateDataLink(s)) BY FlushAnnounces
<1>5. Announces(ProcConnect(s, p, c))
  <2> DEFINE t == AllocateDataLink(s)
             t1 == [t EXCEPT !.state = "W4_LOCAL_RESP", !.remote_rw = p.rw, !.ep = p.ep]
  <2>1. t \in ControlBlock /\ t.i_rx_q = <<>> /\ t.num_rx_i_pdu = 0 BY AllocateStays, StaysType, FlushAnnounces
  <2>2. ProcConnect(s, p, c) \in {SendDm(s, "REJECT", p.ep, c), t1} BY DEF ProcConnect
  <2> HIDE DEF t
  <2>3. t1.i_rx_q = <<>> /\ t1.num_rx_i_pdu = 0 BY <2>1 DEF ControlBlock
  <2>4. Announces(t1) BY <2>3, EmptyAnnounces
  <2> HIDE DEF t1
  <2>5. "REJECT" \in REASON BY DEF REASON
  <2> QED BY <1>1, <1>3, <2>2, <2>4, <2>5
<1>6. Announces(ProcCc(s, p))
  <2> DEFINE s1 == [s EXCEPT !.state = "CONNECTED", !.remote_rw = p.rw, !.ep = p.ep]
  <2>1. ProcCc(s, p) = s \/ (s.state = "W4_REMOTE_RESP" /\ ProcCc(s, p) \in {s1, SetFlag(s1, "PENDING_RR_RNR")})
    BY DEF ProcCc
  <2>2. ASSUME s.state = "W4_REMOTE_RESP" PROVE Announces(s1) /\ Announces(SetFlag(s1, "PENDING_RR_RNR"))
    <3>1. s1 \in ControlBlock
      <4>1. p.ep \in Nat /\ p.rw \in SeqNum BY DEF Pdu
      <4> QED BY <4>1 DEF ControlBlock, DLC_STATE
    <3>2. s1.i_rx_q = s.i_rx_q /\ s1.num_rx_i_pdu = s.num_rx_i_pdu BY DEF ControlBlock
    <3>3. s.i_rx_q = <<>> /\ s.num_rx_i_pdu = 0 BY <2>2, CountedEmpty DEF Announces
    <3> HIDE DEF s1
    <3>4. Announces(s1) BY <3>2, <3>3, EmptyAnnounces
    <3> QED BY <3>1, <3>4, FieldAlike, AlikeAnnounces
  <2> QED BY <2>1, <2>2
<1>7. Announces(ProcDisc(s, c))
  <2>1. "RESP_DISC" \in REASON BY DEF REASON
  <2>2. ProcDisc(s, c) \in {s, SendDm(s, "RESP_DISC", s.ep, c), DeallocateDataLink(SendDm(s, "RESP_DISC", s.ep, c))}
    BY DEF ProcDisc
  <2> QED BY <1>1, <1>3, <2>1, <2>2, FlushAnnounces
<1>8. Announces(ProcDm(s, p)) BY <1>4 DEF ProcDm
<1>9. Announces(ProcI(s, p, agf, c))
  <2>1. "NO_ACTIVE_CONNECTION" \in REASON BY DEF REASON
  <2> QED BY <1>1, <1>3, <2>1, AcceptAnnounces, FrameErrorAnnounces DEF ProcI
<1>10. Announces(ProcRrRnr(s, p, c))
  <2> DEFINE busy == p.ptype = "RNR"
             b == IF s.remote_busy # busy /\ ~s.is_tx_congested THEN busy ELSE s.told
             t == AcceptRrRnr(s, p)
  <2>1. t \in ControlBlock
    <3>1. p.nr \in SeqNum BY DEF Pdu
    <3>2. s.told \in BOOLEAN BY DEF ControlBlock
    <3>3. busy \in BOOLEAN /\ b \in BOOLEAN BY <3>2
    <3>4. t = [s EXCEPT !.rcvd_ack_seq = p.nr, !.remote_busy = busy, !.told = b] BY Zenon DEF AcceptRrRnr
    <3> HIDE DEF busy, b, t
    <3>5. [s EXCEPT !.rcvd_ack_seq = p.nr, !.remote_busy = busy, !.told = b] \in ControlBlock
      BY <3>1, <3>3, ZenonT(60) DEF ControlBlock
    <3> QED BY <3>4, <3>5, Zenon
  <2>2. Alike(s, t)
    <3>1. t = [s EXCEPT !.rcvd_ack_seq = p.nr, !.remote_busy = busy, !.told = b] BY Zenon DEF AcceptRrRnr
    <3> HIDE DEF busy, b, t
    <3> QED BY <3>1, FieldAlike, Zenon
  <2>3. ProcRrRnr(s, p, c) \in {s, PendingDisc(t, c.disc), FrameError(s, c)} BY DEF ProcRrRnr
  <2> HIDE DEF t
  <2>4. Announces(PendingDisc(t, c.disc)) BY <2>1, <2>2, PendingDiscAlike, AlikeAnnounces
  <2> QED BY <2>3, <2>4, FrameErrorAnnounces
<1> QED BY <1>2, <1>4, <1>5, <1>6, <1>7, <1>8, <1>9, <1>10

(* No buffer is ever missing. *)
Buffered == PoolOutcomes \subseteq {TRUE}
(* The inductive invariant of the announcement. *)
AInv == IInv /\ (Buffered => \A n \in Node : Announces(node[n]))

(* With buffers there is one for every PDU. *)
LEMMA BufferedIs == ASSUME Buffered, NEW c \in Choice PROVE c.pdu
BY ZenonT(60) DEF Buffered, Choice

(* A step of one device that announces what it received. *)
LEMMA UpdateAnnounces ==
    ASSUME AInv, IInv', NEW n \in Node, NEW t, Update(n, t), Buffered => Announces(t) PROVE AInv'
<1>1. node \in [Node -> ControlBlock] BY DEF AInv, IInv, TypeOK
<1>2. node' = [node EXCEPT ![n] = t] BY DEF Update
<1>3. \A m \in Node : node'[m] = IF m = n THEN t ELSE node[m] BY <1>1, <1>2
<1>4. ASSUME Buffered, NEW m \in Node PROVE Announces(node'[m]) BY <1>3, <1>4 DEF AInv
<1>5. Buffered' <=> Buffered BY DEF Buffered
<1>6. (\A m \in Node : Announces(node[m]))' <=> \A m \in Node : Announces(node'[m])
  BY DEF Announces, Counted, Connected
<1> QED BY <1>4, <1>5, <1>6 DEF AInv

(* A step that receives and reads nothing. *)
LEMMA UpdateAlike ==
    ASSUME AInv, IInv', NEW n \in Node, NEW t, Update(n, t), Alike(node[n], t) PROVE AInv'
<1>1. Buffered => Announces(t) BY AlikeAnnounces DEF AInv
<1> QED BY <1>1, UpdateAnnounces

(* Steps of both devices. *)
LEMMA BothAnnounce ==
    ASSUME AInv, IInv', NEW n \in Node, Buffered => Announces(node'[n]) /\ Announces(node'[Peer(n)]) PROVE AInv'
<1>1. ASSUME Buffered, NEW m \in Node PROVE Announces(node'[m])
  <2>1. m = n \/ m = Peer(n) BY PeerFacts
  <2> QED BY <1>1, <2>1
<1>2. Buffered' <=> Buffered BY DEF Buffered
<1>3. (\A m \in Node : Announces(node[m]))' <=> \A m \in Node : Announces(node'[m])
  BY DEF Announces, Counted, Connected
<1> QED BY <1>1, <1>2, <1>3 DEF AInv

(* A PDU is received. *)
LEMMA RxPduAnnounces == ASSUME AInv, NEW n \in Node, RxPdu(n) PROVE AInv'
<1> DEFINE s == node[n]  u == node[Peer(n)]  f == u.out[1]
           u1 == [u EXCEPT !.out = <<[f EXCEPT !.pdus = Tail(@)]>>]
<1>1. node \in [Node -> ControlBlock] /\ s \in ControlBlock /\ u \in ControlBlock /\ Peer(n) \in Node /\ Peer(n) # n
  BY PeerFacts DEF AInv, IInv, TypeOK
<1>2. IInv' BY RxPduKeeps DEF AInv
<1>3. u.out # <<>> /\ f.pdus # <<>> BY DEF RxPdu, InFlight
<1>4. PICK c \in Choice :
        node' = [node EXCEPT ![Peer(n)].out = <<[f EXCEPT !.pdus = Tail(@)]>>,
                             ![n] = ProcRxPdu(@, Head(f.pdus), f.agf, c)]
  BY DEF RxPdu
<1>5. node'[n] = ProcRxPdu(s, Head(f.pdus), f.agf, c) /\ node'[Peer(n)] = u1 BY <1>1, <1>4
<1>6. Head(f.pdus) \in Pdu
  <2>1. u.out \in Seq(Frame) /\ 1 \in 1..Len(u.out)
    <3>1. u.out \in Seq(Frame) BY <1>1 DEF ControlBlock
    <3> QED BY <1>3, <3>1, EmptySeq
  <2>2. f \in Frame BY <2>1, ElementOfSeq
  <2>3. f.pdus \in Seq(Pdu) BY <2>2 DEF Frame
  <2> QED BY <1>3, <2>3, HeadTailProperties
<1>7. Alike(u, u1)
  <2> DEFINE o == <<[f EXCEPT !.pdus = Tail(@)]>>
  <2>1. u1 = [u EXCEPT !.out = o] OBVIOUS
  <2> HIDE DEF o, u1, u
  <2> QED BY <1>1, <2>1, FieldAlike
<1> HIDE DEF u1
<1>8. ASSUME Buffered PROVE Announces(node'[n]) /\ Announces(node'[Peer(n)])
  <2>1. Announces(s) /\ Announces(u) BY <1>1, <1>8 DEF AInv
  <2>2. Announces(u1) BY <1>7, <2>1, AlikeAnnounces
  <2>3. c.pdu BY <1>8, BufferedIs
  <2> HIDE DEF s, u, f
  <2> QED BY <1>1, <1>5, <1>6, <2>1, <2>2, <2>3, ProcRxPduAnnounces
<1> QED BY <1>2, <1>8, BothAnnounce

(* A frame ends. *)
LEMMA RxEndAnnounces == ASSUME AInv, NEW n \in Node, RxEnd(n) PROVE AInv'
<1> DEFINE s == node[n]  u == node[Peer(n)]
           s1 == [s EXCEPT !.symm_state = "LOCAL_XMIT_NEXT"]
           u1 == [u EXCEPT !.out = <<>>]
<1>1. node \in [Node -> ControlBlock] /\ s \in ControlBlock /\ u \in ControlBlock /\ Peer(n) \in Node /\ Peer(n) # n
  BY PeerFacts DEF AInv, IInv, TypeOK
<1>2. IInv' BY RxEndKeeps DEF AInv
<1>3. PICK c \in Choice :
        node' = [node EXCEPT ![Peer(n)].out = <<>>,
                             ![n] = CheckSendData([@ EXCEPT !.symm_state = "LOCAL_XMIT_NEXT"], c)]
  BY DEF RxEnd
<1>4. node'[n] = CheckSendData(s1, c) /\ node'[Peer(n)] = u1 BY <1>1, <1>3
<1>5. s1 \in ControlBlock /\ Alike(s, s1) BY <1>1, FieldAlike DEF ControlBlock, SYMM_STATE
<1>6. Alike(u, u1) BY <1>1, FieldAlike
<1> HIDE DEF s1, u1
<1>7. Alike(s, CheckSendData(s1, c)) BY <1>5, CheckSendDataAlike, AlikeTrans
<1>8. ASSUME Buffered PROVE Announces(node'[n]) /\ Announces(node'[Peer(n)])
  <2>1. Announces(s) /\ Announces(u) BY <1>1, <1>8 DEF AInv
  <2> QED BY <1>4, <1>6, <1>7, <2>1, AlikeAnnounces
<1> QED BY <1>2, <1>8, BothAnnounce

(* A SYMM. *)
LEMMA SymmTimeoutAnnounces == ASSUME AInv, NEW n \in Node, SymmTimeout(n) PROVE AInv'
<1>1. PICK ok \in PoolOutcomes : Update(n, IF ok THEN SendToLower(node[n], <<>>) ELSE node[n]) BY DEF SymmTimeout
<1>2. node[n] \in ControlBlock BY NodeType DEF AInv
<1>3. Alike(node[n], SendToLower(node[n], <<>>)) BY <1>2, FieldAlike DEF SendToLower
<1>4. Alike(node[n], IF ok THEN SendToLower(node[n], <<>>) ELSE node[n]) BY <1>3, AlikeTrans
<1>5. IInv' BY SymmTimeoutKeeps DEF AInv
<1> QED BY <1>1, <1>4, <1>5, UpdateAlike

(* A connection attempt is rejected. *)
LEMMA RejectAnnounces ==
    ASSUME NEW s \in ControlBlock, Announces(s), NEW c \in Choice
    PROVE  Announces(DeallocateDataLink(SendDm(s, "REJECT", s.ep, c)))
<1>1. s.ep \in Nat /\ "REJECT" \in REASON BY DEF ControlBlock, REASON
<1>2. Announces(SendDm(s, "REJECT", s.ep, c)) /\ SendDm(s, "REJECT", s.ep, c) \in ControlBlock
  BY <1>1, SendDmAlike, AlikeAnnounces, SendDmHandled DEF Handled, Stays, Sent
<1> QED BY <1>2, FlushAnnounces

(* A data link timer expires. *)
LEMMA DataLinkTimeoutAnnounces == ASSUME AInv, NEW n \in Node, DataLinkTimeout(n) PROVE AInv'
<1> DEFINE s == node[n]
           r(c) == DeallocateDataLink(IF s.state = "W4_LOCAL_RESP" THEN SendDm(s, "REJECT", s.ep, c) ELSE s)
<1>1. s \in ControlBlock BY NodeType DEF AInv
<1>2. PICK c \in Choice : Update(n, r(c)) BY DEF DataLinkTimeout
<1>3. IInv' BY DataLinkTimeoutKeeps DEF AInv
<1>4. Buffered => Announces(s) BY DEF AInv
<1> HIDE DEF s
<1>5. Buffered => Announces(r(c)) BY <1>1, <1>4, RejectAnnounces, FlushAnnounces
<1> HIDE DEF r
<1> QED BY <1>2, <1>3, <1>5, UpdateAnnounces

(* The link is lost. *)
LEMMA LinkDeactivateAnnounces == ASSUME AInv, LinkDeactivate PROVE AInv'
<1> DEFINE d(n) == DeallocateDataLink(node[n])
<1>1. PICK init \in Node :
        node' = [n \in Node |->
                   [d(n) EXCEPT
                      !.sig_xmit_q = <<>>, !.out = <<>>,
                      !.overall_tx_congested = FALSE, !.overall_rx_congested = FALSE,
                      !.symm_state = IF n = init THEN "LOCAL_XMIT_NEXT" ELSE "REMOTE_XMIT_NEXT"]]
  BY DEF LinkDeactivate
<1>2. IInv' BY LinkDeactivateKeeps DEF AInv
<1>3. ASSUME Buffered, NEW n \in Node PROVE Announces(node'[n])
  <2> DEFINE y == IF n = init THEN "LOCAL_XMIT_NEXT" ELSE "REMOTE_XMIT_NEXT"
  <2>1. node[n] \in ControlBlock /\ Announces(node[n]) BY <1>3, NodeType DEF AInv
  <2>2. d(n) \in ControlBlock /\ Announces(d(n)) BY <2>1, DeallocateStays, StaysType, FlushAnnounces
  <2>3. node'[n] = [d(n) EXCEPT !.sig_xmit_q = <<>>, !.out = <<>>,
                      !.overall_tx_congested = FALSE, !.overall_rx_congested = FALSE, !.symm_state = y]
    BY <1>1
  <2> HIDE DEF d, y
  <2>4. Alike(d(n), node'[n]) BY <2>2, <2>3 DEF Alike, ControlBlock
  <2> QED BY <2>2, <2>4, AlikeAnnounces
<1>4. Client \in Node /\ Peer(Client) \in Node BY PeerFacts DEF Node
<1> QED BY <1>2, <1>3, <1>4, BothAnnounce

(* The client asks for a connection. *)
LEMMA ConnectReqAnnounces == ASSUME AInv, ConnectReq PROVE AInv'
<1> DEFINE z == node[Client]  s == AllocateDataLink(z)
           p == [NewPdu("CONNECT", nep + 1) EXCEPT !.rw = RW[Client]]
<1>1. node \in [Node -> ControlBlock] /\ Client \in Node /\ z \in ControlBlock /\ Peer(Client) \in Node /\ Peer(Client) # Client
  BY PeerFacts DEF AInv, IInv, TypeOK, Node
<1>2. IInv' BY ConnectReqKeeps DEF AInv
<1>3. PICK k \in Choice :
        node' = [node EXCEPT ![Client] =
          IF k.pdu THEN [CheckSendData(Enqueue(s, p), k)
                           EXCEPT !.local_rw = RW[Client], !.ep = nep + 1, !.state = "W4_REMOTE_RESP"]
                   ELSE s]
  BY DEF ConnectReq
<1> DEFINE e == Enqueue(s, p)
           a == CheckSendData(e, k)
           a1 == [a EXCEPT !.local_rw = RW[Client], !.ep = nep + 1, !.state = "W4_REMOTE_RESP"]
<1>4. s \in ControlBlock /\ s.i_rx_q = <<>> /\ s.num_rx_i_pdu = 0 BY <1>1, AllocateStays, StaysType, FlushAnnounces
<1>5. p \in Pdu
  <2>1. RW[Client] \in SeqNum /\ nep + 1 \in Nat
    <3>1. RW \in [Node -> SeqNum] /\ nep \in 0..MaxEp /\ MaxEp \in Nat BY EnvType DEF AInv, IInv, TypeOK
    <3> QED BY <1>1, <3>1
  <2>2. NewPdu("CONNECT", nep + 1) \in Pdu BY <2>1, NewPduType DEF PTYPE
  <2> QED BY <2>1, <2>2 DEF Pdu
<1>6. node'[Client] \in {a1, s} /\ node'[Peer(Client)] = node[Peer(Client)]
  <2> HIDE DEF s, a1
  <2>1. node' = [node EXCEPT ![Client] = IF k.pdu THEN a1 ELSE s] BY <1>3 DEF a1
  <2> QED BY <1>1, <2>1
<1> HIDE DEF s, p
<1>7. e \in ControlBlock /\ Alike(s, e) BY <1>4, <1>5, EnqueueStays, StaysType, FieldAlike
<1> HIDE DEF e
<1>8. a \in ControlBlock /\ Alike(e, a) BY <1>7, CheckSendDataAlike, CheckSendDataHandled, HandledType
<1> HIDE DEF a
<1>9. a1.i_rx_q = a.i_rx_q /\ a1.num_rx_i_pdu = a.num_rx_i_pdu BY <1>8 DEF ControlBlock
<1> HIDE DEF a1
<1>10. Announces(a1) /\ Announces(s)
  <2>1. a1.i_rx_q = <<>> /\ a1.num_rx_i_pdu = 0 BY <1>4, <1>7, <1>8, <1>9 DEF Alike
  <2> QED BY <1>4, <2>1, EmptyAnnounces
<1>11. ASSUME Buffered PROVE Announces(node'[Client]) /\ Announces(node'[Peer(Client)])
  BY <1>1, <1>6, <1>10, <1>11 DEF AInv
<1> QED BY <1>1, <1>2, <1>11, BothAnnounce

(* The server accepts the connection. *)
LEMMA ConnectCfmAnnounces == ASSUME AInv, NEW n \in Node, ConnectCfm(n) PROVE AInv'
<1> DEFINE s == node[n]
           s1 == [s EXCEPT !.local_rw = RW[n], !.state = "CONNECTED"]
           s2 == IF s1.overall_rx_congested THEN SetFlag(s1, "PENDING_RR_RNR") ELSE s1
           p == [NewPdu("CC", s1.ep) EXCEPT !.rw = RW[n]]
           e == Enqueue(s2, p)
           r(c) == IF c.pdu THEN CheckSendData(e, c) ELSE DeallocateDataLink(s2)
<1>1. s \in ControlBlock /\ RW[n] \in SeqNum /\ s.state = "W4_LOCAL_RESP"
  <2>1. RW \in [Node -> SeqNum] BY EnvType DEF AInv, IInv
  <2> QED BY <2>1, NodeType DEF AInv, ConnectCfm
<1>2. IInv' BY ConnectCfmKeeps DEF AInv
<1>3. PICK c \in Choice : Update(n, r(c)) BY DEF ConnectCfm
<1>4. Buffered => s.i_rx_q = <<>> /\ s.num_rx_i_pdu = 0 BY <1>1, CountedEmpty DEF AInv, Announces
<1>5. s1 \in ControlBlock /\ s1.i_rx_q = s.i_rx_q /\ s1.num_rx_i_pdu = s.num_rx_i_pdu /\ s1.ep \in Nat
  BY <1>1, ZenonT(60) DEF ControlBlock, DLC_STATE
<1>6. p \in Pdu
  <2>1. NewPdu("CC", s1.ep) \in Pdu BY <1>5, NewPduType DEF PTYPE
  <2> QED BY <1>1, <2>1 DEF Pdu
<1> HIDE DEF s, s1, p
<1>7. s2 \in ControlBlock /\ Alike(s1, s2) BY <1>5, SetFlagStays, StaysType, FieldAlike, AlikeTrans DEF FLAG
<1> HIDE DEF s2
<1>8. e \in ControlBlock /\ Alike(s2, e) BY <1>6, <1>7, EnqueueStays, StaysType, FieldAlike
<1> HIDE DEF e
<1>9. Alike(e, CheckSendData(e, c)) BY <1>8, CheckSendDataAlike
<1>10. Buffered => Announces(r(c))
  <2>1. Buffered => Announces(s1) BY <1>4, <1>5, EmptyAnnounces
  <2>2. Buffered => Announces(s2) BY <1>7, <2>1, AlikeAnnounces
  <2>3. Buffered => Announces(CheckSendData(e, c)) BY <1>8, <1>9, <2>2, AlikeAnnounces
  <2> QED BY <1>7, <2>2, <2>3, FlushAnnounces
<1> HIDE DEF r
<1> QED BY <1>2, <1>3, <1>10, UpdateAnnounces

(* The server rejects it. *)
LEMMA ConnectRejectAnnounces == ASSUME AInv, NEW n \in Node, ConnectReject(n) PROVE AInv'
<1>1. node[n] \in ControlBlock BY NodeType DEF AInv
<1>2. IInv' BY ConnectRejectKeeps DEF AInv
<1>3. PICK c \in Choice : Update(n, DeallocateDataLink(SendDm(node[n], "REJECT", node[n].ep, c))) BY DEF ConnectReject
<1>4. Buffered => Announces(DeallocateDataLink(SendDm(node[n], "REJECT", node[n].ep, c)))
  BY <1>1, RejectAnnounces DEF AInv
<1> QED BY <1>2, <1>3, <1>4, UpdateAnnounces

(* An SDU is sent. *)
LEMMA SendDataAnnounces == ASSUME AInv, NEW n \in Node, SendData(n) PROVE AInv'
<1> DEFINE s == node[n]  z == Append(s.i_xmit_q, s.nsent + 1)  k == s.nsent + 1
           s1 == [s EXCEPT !.i_xmit_q = z, !.nsent = k]
           s2(c) == CheckSendData(s1, c)
           b(c) == \/ s2(c).is_tx_congested \/ s2(c).overall_tx_congested \/ s2(c).remote_busy
                   \/ Len(s2(c).i_xmit_q) >= s2(c).remote_rw
           told(c) == s2(c).told \/ b(c)
           r(c) == [s2(c) EXCEPT !.is_tx_congested = b(c), !.told = told(c)]
<1>1. s \in ControlBlock BY NodeType DEF AInv
<1>2. IInv' BY SendDataKeeps DEF AInv
<1>3. PICK c \in Choice : Update(n, r(c)) BY DEF SendData
<1> HIDE DEF s
<1>4. s1 \in ControlBlock /\ Alike(s, s1)
  <2>1. s.i_xmit_q \in Seq(Nat) /\ s.nsent \in Nat BY <1>1 DEF ControlBlock
  <2>2. z \in Seq(Nat) /\ k \in Nat BY <2>1
  <2> HIDE DEF z, k
  <2> QED BY <1>1, <2>2, FieldAlike DEF ControlBlock
<1> HIDE DEF s1
<1>5. s2(c) \in ControlBlock /\ Alike(s1, s2(c)) BY <1>4, CheckSendDataAlike, CheckSendDataHandled, HandledType
<1> HIDE DEF s2, told, b
<1>6. Alike(s2(c), r(c)) BY <1>5, FieldAlike
<1> HIDE DEF r
<1>7. Alike(s, r(c)) BY <1>4, <1>5, <1>6, AlikeTrans
<1> QED BY <1>2, <1>3, <1>7, UpdateAlike DEF s

(* The upper layer asks whether it may send. *)
LEMMA IsDataLinkCongestedAnnounces ==
    ASSUME AInv, NEW n \in Node, NEW pending, IsDataLinkCongested(n, pending) PROVE AInv'
<1> DEFINE s == node[n]
           full == \/ pending + Len(s.i_xmit_q) >= s.remote_rw
                   \/ pending + Len(s.i_xmit_q) >= MaxTxBuff
           r == IF s.is_tx_congested \/ s.remote_busy
                      THEN [s EXCEPT !.told = TRUE]
                      ELSE [s EXCEPT !.is_tx_congested = full, !.told = full]
<1>1. s \in ControlBlock BY NodeType DEF AInv
<1>2. IInv' BY IsDataLinkCongestedKeeps DEF AInv
<1>3. Update(n, r) BY DEF IsDataLinkCongested
<1> HIDE DEF full, s
<1>4. Alike(s, [s EXCEPT !.told = TRUE]) BY <1>1, FieldAlike
<1>5. Alike(s, [s EXCEPT !.is_tx_congested = full, !.told = full]) BY <1>1, FieldAlike
<1>6. Alike(s, r) BY <1>4, <1>5
<1> HIDE DEF r
<1> QED BY <1>2, <1>3, <1>6, UpdateAlike DEF s

(* Received data is read. *)
LEMMA ReadDataLinkDataAnnounces == ASSUME AInv, NEW n \in Node, ReadDataLinkData(n) PROVE AInv'
<1> DEFINE s == node[n]
           q == s.i_rx_q
           k == s.num_rx_i_pdu - 1
           s1 == IF q = <<>> THEN s ELSE [s EXCEPT !.num_rx_i_pdu = k]
           t1 == [s1 EXCEPT !.i_rx_q = Tail(q)]
           t2 == [s1 EXCEPT !.i_rx_q[1] = Tail(@)]
           s2 == CASE q = <<>> -> s1
                   [] q # <<>> /\ Len(q[1]) = 1 -> CheckRxCongestedStatus(t1)
                   [] q # <<>> /\ Len(q[1]) # 1 -> t2
           s2f == [s2 EXCEPT !.is_rx_congested = FALSE]
           s3 == IF /\ ~s.local_busy /\ s.is_rx_congested
                    /\ s1.num_rx_i_pdu <= RxCongestThreshold \div 2
                   THEN SetFlag(s2f, "PENDING_RR_RNR") ELSE s2
           b == s3.ind /\ s3.i_rx_q # <<>>
           r == [s3 EXCEPT !.ind = b]
           (* What is announced but for the flag itself. *)
           Read(t) == /\ t \in ControlBlock
                      /\ t.local_busy = s.local_busy /\ t.ind = s.ind /\ t.state = s.state
                      /\ Counted(t.i_rx_q, t.num_rx_i_pdu)
                      /\ t.i_rx_q # <<>> => s.i_rx_q # <<>>
<1>1. s \in ControlBlock BY NodeType DEF AInv
<1>2. IInv' BY ReadDataLinkDataKeeps DEF AInv
<1>3. Update(n, r) BY DEF ReadDataLinkData
<1>4. Buffered => Announces(s) BY DEF AInv
<1> HIDE DEF s
<1>5. ASSUME Announces(s) PROVE Announces(r)
  <2>1. q \in Seq(Buffer) /\ s.num_rx_i_pdu \in Int /\ k \in Int /\ Counted(q, s.num_rx_i_pdu)
    BY <1>1, <1>5 DEF ControlBlock, Announces
  <2>2. ASSUME NEW t, t \in ControlBlock, Read(t)
        PROVE  Read(CheckRxCongestedStatus(t)) /\ Read(SetFlag(t, "PENDING_RR_RNR")) /\ Read([t EXCEPT !.is_rx_congested = FALSE])
    <3>1. /\ Alike(t, CheckRxCongestedStatus(t)) /\ Alike(t, SetFlag(t, "PENDING_RR_RNR"))
          /\ Alike(t, [t EXCEPT !.is_rx_congested = FALSE])
      BY <2>2, CheckRxAlike, FieldAlike
    <3>2. /\ CheckRxCongestedStatus(t).state = t.state /\ SetFlag(t, "PENDING_RR_RNR").state = t.state
          /\ [t EXCEPT !.is_rx_congested = FALSE].state = t.state
      BY <2>2 DEF CheckRxCongestedStatus, SetFlag, ControlBlock
    <3>3. /\ CheckRxCongestedStatus(t) \in ControlBlock /\ SetFlag(t, "PENDING_RR_RNR") \in ControlBlock
          /\ [t EXCEPT !.is_rx_congested = FALSE] \in ControlBlock
      BY <2>2, CheckRxAlike, SetFlagStays, FieldStays, StaysType DEF FLAG
    <3>4. ASSUME NEW u \in ControlBlock, Alike(t, u), u.state = t.state PROVE Read(u)
      BY <2>2, <3>4 DEF Alike
    <3> HIDE DEF Read
    <3> QED BY <3>1, <3>2, <3>3, <3>4
  <2>3. ASSUME NEW i \in Int, NEW z \in Seq(Buffer), Counted(z, i), q # <<>>
        PROVE  Read([[s EXCEPT !.num_rx_i_pdu = i] EXCEPT !.i_rx_q = z])
    BY <1>1, <2>3 DEF ControlBlock
  <2>4. ASSUME q # <<>>, Len(q[1]) = 1 PROVE Read(t1)
    <3>1. Counted(Tail(q), k) BY <2>1, <2>4, CountedTail
    <3>2. Tail(q) \in Seq(Buffer) BY <2>1, <2>4, HeadTailProperties
    <3>3. t1 = [[s EXCEPT !.num_rx_i_pdu = k] EXCEPT !.i_rx_q = Tail(q)] BY <2>4
    <3> HIDE DEF q, k, Read, t1
    <3> QED BY <2>1, <2>3, <2>4, <3>1, <3>2, <3>3
  <2>5. ASSUME q # <<>>, Len(q[1]) # 1 PROVE Read(t2)
    <3> DEFINE z == [q EXCEPT ![1] = Tail(@)]
    <3>1. Counted(z, k) BY <2>1, <2>5, CountedFirst
    <3>2. z \in Seq(Buffer)
      <4>1. 1 \in 1..Len(q) BY <2>1, <2>5, EmptySeq
      <4>2. q[1] \in Buffer BY <2>1, <4>1, ElementOfSeq
      <4>3. q[1] \in Seq(Nat) /\ q[1] # <<>> BY <4>2 DEF Buffer
      <4>4. Len(q[1]) \in Nat \ {0} BY <4>3, EmptySeq
      <4>5. Tail(q[1]) \in Seq(Nat) /\ Len(Tail(q[1])) = Len(q[1]) - 1 BY <4>3, HeadTailProperties
      <4>6. Len(Tail(q[1])) # 0 BY <2>5, <4>4, <4>5
      <4>7. Tail(q[1]) # <<>> BY <4>6, EmptySeq
      <4>8. Tail(q[1]) \in Buffer BY <4>5, <4>7 DEF Buffer
      <4> QED BY <2>1, <4>1, <4>8, ExceptSeq
    <3>3. t2 = [[s EXCEPT !.num_rx_i_pdu = k] EXCEPT !.i_rx_q = z]
      <4>1. s1 = [s EXCEPT !.num_rx_i_pdu = k] BY <2>5
      <4>2. s1.i_rx_q = q
        <5> HIDE DEF k, s1, q
        <5>1. s1.i_rx_q = s.i_rx_q BY <1>1, <4>1 DEF ControlBlock
        <5> QED BY <5>1 DEF q
      <4> HIDE DEF s1
      <4> QED BY <4>1, <4>2
    <3> HIDE DEF q, k, Read, t2, z
    <3> QED BY <2>1, <2>3, <2>5, <3>1, <3>2, <3>3
  <2> HIDE DEF t1, t2
  <2>6. Read(s2)
    <3>1. q = <<>> => s2 = s BY DEF s2
    <3>2. \/ q = <<>> /\ s2 = s
          \/ q # <<>> /\ Len(q[1]) = 1 /\ s2 = CheckRxCongestedStatus(t1)
          \/ q # <<>> /\ Len(q[1]) # 1 /\ s2 = t2
      <4> HIDE DEF q
      <4> QED OBVIOUS
    <3>3. Read(s) BY <1>1, <2>1
    <3>4. ASSUME Read(t1) PROVE Read(CheckRxCongestedStatus(t1)) BY <2>2, <3>4
    <3> HIDE DEF q, s2, Read
    <3> QED BY <2>4, <2>5, <3>2, <3>3, <3>4
  <2> HIDE DEF s2
  <2>7. Read(s2f) BY <2>2, <2>6
  <2> HIDE DEF s2f
  <2>8. Read(s3)
    <3>1. Read(SetFlag(s2f, "PENDING_RR_RNR")) BY <2>2, <2>7
    <3> HIDE DEF Read
    <3> QED BY <2>6, <3>1
  <2> HIDE DEF s3, s1
  <2>9. /\ r.i_rx_q = s3.i_rx_q /\ r.num_rx_i_pdu = s3.num_rx_i_pdu /\ r.local_busy = s3.local_busy
        /\ r.state = s3.state /\ r.ind = b
    <3> HIDE DEF b
    <3> QED BY <2>8 DEF ControlBlock
  <2> HIDE DEF r
  <2>10. Counted(r.i_rx_q, r.num_rx_i_pdu) BY <2>8, <2>9
  <2>11. r.state \notin {"CONNECTED", "W4_REMOTE_DM"} => r.i_rx_q = <<>> BY <1>5, <2>8, <2>9 DEF Announces
  <2>12. ASSUME Connected(r), ~r.local_busy, r.i_rx_q # <<>> PROVE r.ind
    <3>1. Connected(s) /\ ~s.local_busy /\ s.i_rx_q # <<>>
      <4>1. r.state = s.state /\ r.local_busy = s.local_busy /\ (r.i_rx_q # <<>> => s.i_rx_q # <<>>) BY <2>8, <2>9
      <4> QED BY <2>12, <4>1 DEF Connected
    <3>2. s.ind BY <1>5, <3>1 DEF Announces
    <3>3. s3.ind = s.ind BY <2>8
    <3>4. s3.ind BY <3>2, <3>3, Zenon
    <3>5. b BY <2>9, <2>12, <3>4
    <3> QED BY <2>9, <3>5, Zenon
  <2> QED BY <2>10, <2>11, <2>12 DEF Announces
<1> HIDE DEF r
<1> QED BY <1>2, <1>3, <1>4, <1>5, UpdateAnnounces

(* LLCP_FlushDataLinkRxData: the queue is emptied. *)
LEMMA FlushRxDataAnnounces == ASSUME AInv, NEW n \in Node, FlushRxData(n) PROVE AInv'
<1>1. node[n] \in ControlBlock BY NodeType DEF AInv
<1>2. IInv' BY FlushRxDataKeeps DEF AInv
<1>3. Update(n, FlushDataLinkRxData(node[n])) BY DEF FlushRxData
<1>4. Announces(FlushDataLinkRxData(node[n])) BY <1>1, FlushAnnounces
<1> QED BY <1>2, <1>3, <1>4, UpdateAnnounces

(* LLCP_SetTxCompleteNtf receives and reads nothing. *)
LEMMA SetTxCompleteNtfAnnounces == ASSUME AInv, NEW n \in Node, SetTxCompleteNtf(n) PROVE AInv'
<1>1. node[n] \in ControlBlock BY NodeType DEF AInv
<1>2. IInv' BY SetTxCompleteNtfKeeps DEF AInv
<1>3. Update(n, SetFlag(node[n], "NOTIFY_TX_DONE")) BY DEF SetTxCompleteNtf
<1>4. Alike(node[n], SetFlag(node[n], "NOTIFY_TX_DONE")) BY <1>1, FieldAlike
<1> QED BY <1>2, <1>3, <1>4, UpdateAlike

(* LLCP_DisconnectReq receives and reads nothing. *)
LEMMA DisconnectReqAnnounces ==
    ASSUME AInv, NEW n \in Node, NEW flush \in BOOLEAN, DisconnectReq(n, flush) PROVE AInv'
<1> DEFINE s == node[n]
           r0 == EnterW4RemoteDm(s, TRUE)
           r1(c) == CheckSendData(r0, c)
           r2 == EnterW4RemoteDm(s, FALSE)
           r3 == SetFlag(s, "PENDING_DISC")
<1>1. s \in ControlBlock BY NodeType DEF AInv
<1>2. IInv' BY DisconnectReqKeeps DEF AInv
<1>3. Connected(s) BY DEF DisconnectReq
<1>4. PICK c \in Choice : \/ Update(n, r1(c)) \/ Update(n, r2) \/ Update(n, r3)
  BY DEF DisconnectReq
<1> HIDE DEF s
<1>5. Alike(s, r0) /\ Alike(s, r2) BY <1>1, <1>3, EnterW4RemoteDmAlike
<1>6. r0 \in ControlBlock BY <1>1, EnterW4RemoteDmStays, StaysType
<1>7. Alike(s, r3) BY <1>1, FieldAlike
<1> HIDE DEF r0, r2, r3
<1>8. Alike(s, r1(c)) BY <1>5, <1>6, CheckSendDataAlike, AlikeTrans
<1> HIDE DEF r1
<1> QED BY <1>2, <1>4, <1>5, <1>7, <1>8, UpdateAlike DEF s

(* The upper layer that is no longer busy is told of what waits. *)
LEMMA SetLocalBusyStatusAnnounces ==
    ASSUME AInv, NEW n \in Node, NEW busy \in BOOLEAN, SetLocalBusyStatus(n, busy) PROVE AInv'
<1> DEFINE s == node[n]
           s0 == [s EXCEPT !.local_busy = busy]
           s1 == SetFlag(s0, "PENDING_RR_RNR")
           t1 == [s1 EXCEPT !.ind = TRUE]
           waits == ~busy /\ s.i_rx_q # <<>> /\ Connected(s)
           r == IF waits THEN t1 ELSE s1
<1>1. s \in ControlBlock BY NodeType DEF AInv
<1>2. IInv' BY SetLocalBusyStatusKeeps DEF AInv
<1>3. Update(n, r) BY DEF SetLocalBusyStatus
<1>4. Buffered => Announces(s) BY DEF AInv
<1> HIDE DEF s
<1>5. /\ s0 \in ControlBlock /\ s0.i_rx_q = s.i_rx_q /\ s0.num_rx_i_pdu = s.num_rx_i_pdu
      /\ s0.state = s.state
  BY <1>1 DEF ControlBlock
<1>6. s0.local_busy = busy BY <1>1, ZenonT(60) DEF ControlBlock
<1> HIDE DEF s0
<1>7. /\ s1 \in ControlBlock /\ s1.i_rx_q = s.i_rx_q /\ s1.num_rx_i_pdu = s.num_rx_i_pdu
      /\ s1.state = s.state
  BY <1>5 DEF SetFlag, ControlBlock, FLAG
<1>8. s1.local_busy = busy BY <1>5, <1>6, Zenon DEF SetFlag, ControlBlock
<1> HIDE DEF s1
<1>9. /\ t1.i_rx_q = s.i_rx_q /\ t1.num_rx_i_pdu = s.num_rx_i_pdu /\ t1.state = s.state
  BY <1>7 DEF ControlBlock
<1>10. t1.ind BY <1>7, ZenonT(60) DEF ControlBlock
<1> HIDE DEF t1
<1>11. ASSUME Announces(s) PROVE Announces(r)
  <2>1. r.i_rx_q = s.i_rx_q /\ r.num_rx_i_pdu = s.num_rx_i_pdu /\ r.state = s.state BY <1>7, <1>9
  <2>2. ASSUME Connected(r), ~r.local_busy, r.i_rx_q # <<>> PROVE r.ind
    <3>1. Connected(s) /\ s.i_rx_q # <<>> BY <2>1, <2>2 DEF Connected
    <3>2. ASSUME busy PROVE FALSE
      <4>1. r = s1 BY <3>2
      <4>2. s1.local_busy BY <1>8, <3>2, Zenon
      <4> HIDE DEF r
      <4> QED BY <2>2, <4>1, <4>2, Zenon
    <3>3. waits BY <3>1, <3>2
    <3>4. r = t1 BY <3>3
    <3> HIDE DEF r
    <3> QED BY <1>10, <3>4, Zenon
  <2> HIDE DEF r
  <2> QED BY <1>11, <2>1, <2>2 DEF Announces
<1> HIDE DEF r
<1> QED BY <1>2, <1>3, <1>4, <1>11, UpdateAnnounces

(* Received data is announced when the link has been activated. *)
LEMMA InitAInv == ASSUME Init PROVE AInv
<1>1. IInv BY InitIInv
<1>2. ASSUME NEW n \in Node PROVE Announces(node[n])
  <2>1. node[n] = InitNode(n) BY DEF Init
  <2>2. node[n].i_rx_q = <<>> /\ node[n].num_rx_i_pdu = 0 BY <2>1 DEF InitNode, NewBlock
  <2> QED BY <2>2, EmptyAnnounces
<1> QED BY <1>1, <1>2 DEF AInv

(* Every step keeps received data announced. *)
LEMMA NextAInv == ASSUME AInv, [Next]_vars PROVE AInv'
<1>1. CASE ConnectReq BY <1>1, ConnectReqAnnounces
<1>2. CASE LinkDeactivate BY <1>2, LinkDeactivateAnnounces
<1>3. ASSUME NEW n \in Node, Link(n) PROVE AInv'
  BY <1>3, RxPduAnnounces, RxEndAnnounces, SymmTimeoutAnnounces DEF Link
<1>4. ASSUME NEW n \in Node, Api(n) PROVE AInv'
  <2>1. CASE ConnectCfm(n) \/ ConnectReject(n) \/ SendData(n)
    BY <2>1, ConnectCfmAnnounces, ConnectRejectAnnounces, SendDataAnnounces
  <2>2. ASSUME NEW pending \in 0..1, IsDataLinkCongested(n, pending) PROVE AInv'
    BY <2>2, IsDataLinkCongestedAnnounces
  <2>3. CASE ReadDataLinkData(n) \/ FlushRxData(n) \/ SetTxCompleteNtf(n)
    BY <2>3, ReadDataLinkDataAnnounces, FlushRxDataAnnounces, SetTxCompleteNtfAnnounces
  <2>4. ASSUME NEW flush \in BOOLEAN, DisconnectReq(n, flush) PROVE AInv'
    BY <2>4, DisconnectReqAnnounces
  <2>5. ASSUME NEW busy \in BOOLEAN, SetLocalBusyStatus(n, busy) PROVE AInv'
    BY <2>5, SetLocalBusyStatusAnnounces
  <2> QED BY <1>4, <2>1, <2>2, <2>3, <2>4, <2>5 DEF Api
<1>5. ASSUME NEW n \in Node, DataLinkTimeout(n) PROVE AInv'
  BY <1>5, DataLinkTimeoutAnnounces
<1>6. CASE UNCHANGED vars
  <2>1. IInv' BY NextIInv DEF AInv
  <2>2. node' = node BY <1>6 DEF vars
  <2>3. Client \in Node BY DEF Node
  <2>4. Peer(Client) \in Node BY <2>3, PeerFacts
  <2> QED BY <2>1, <2>2, <2>3, <2>4, BothAnnounce DEF AInv
<1> QED BY <1>1, <1>2, <1>3, <1>4, <1>5, <1>6 DEF Next

(* What is announced of received data is an invariant. *)
LEMMA AInvInvariant == Spec => []AInv
BY InitAInv, NextAInv, PTL DEF Spec

(* When no buffer is ever missing, data that waits to be read by an upper  *)
(* layer that is not busy has been announced to it (llcp_dlc_proc_i_pdu,   *)
(* LLCP_ReadDataLinkData, LLCP_SetLocalBusyStatus).                        *)
THEOREM DataAnnounced == Spec => [](Buffered => DataIndicated)
<1>1. AInv => (Buffered => DataIndicated) BY DEF AInv, Announces, DataIndicated
<1> QED BY <1>1, AInvInvariant, PTL
=============================================================================
