------------------------ MODULE LlcpDlcOrderProofs ------------------------
(***************************************************************************)
(* Proofs about LlcpDlc, continued: the receive window, the order of the   *)
(* data, and what the upper layers are told of it, for every modulus,      *)
(* every environment, and every number of connections, SDUs and losses of  *)
(* the link.                                                               *)
(*                                                                         *)
(* Of a device the argument reads its View, the fields of the control      *)
(* block that number and count the data, and its Stream, the PDUs that are *)
(* on their way to the peer, or wait to be, in the order in which the peer *)
(* will read them.  A step takes a PDU off the head of one stream, appends *)
(* PDUs to the other, or changes a view.                                   *)
(*                                                                         *)
(* What holds of one device in every environment is Local.  What holds of  *)
(* both is Joint: a connection is in one of seven phases, from Nobody over *)
(* Invited, Lone (the server is alone, the CC unread or unwanted),         *)
(* Confirmed and Joined to ServerCloses and ClientCloses, each of which    *)
(* says what the streams may hold and after what.  In a phase with data    *)
(* Order says that the I PDUs of a stream are the SDUs the peer has not    *)
(* received, one by one, Numbers that along V(SA), the N(R) on their way,  *)
(* V(RA), V(R) and V(S) the sequence numbers follow each other, and        *)
(* Complete that no end was told too early.  The order of the PDUs in a    *)
(* stream is stated with After and Rising, over pairs of positions, and    *)
(* not by a recursion over the stream, so no induction over data is        *)
(* needed.                                                                 *)
(*                                                                         *)
(* Joint holds as long as the environment is Reliable: no buffer is        *)
(* missing and no data link timer expires.  Without the first an I PDU     *)
(* that was acknowledged can be lost (llcp_dlc_proc_i_pdu); without the    *)
(* second a device forgets a connection whose CONNECT or CC is still on    *)
(* its way.  The link may be lost at any time, which empties both streams. *)
(***************************************************************************)
EXTENDS LlcpDlcProofs, WellFoundedInduction

-----------------------------------------------------------------------------
(* What is said of one device, in every environment.                       *)

(* What the invariant reads of a control block. *)
Views ==
    [state : DLC_STATE, ep : Nat, local_rw : SeqNum, remote_rw : SeqNum,
     next_tx_seq : SeqNum, rcvd_ack_seq : SeqNum, next_rx_seq : SeqNum, sent_ack_seq : SeqNum,
     i_xmit_q : Seq(Nat), nsent : Nat, nrcvd : Nat, ncomplete : Nat, last_nr : SeqNum]
View(s) ==
    [state |-> s.state, ep |-> s.ep, local_rw |-> s.local_rw, remote_rw |-> s.remote_rw,
     next_tx_seq |-> s.next_tx_seq, rcvd_ack_seq |-> s.rcvd_ack_seq,
     next_rx_seq |-> s.next_rx_seq, sent_ack_seq |-> s.sent_ack_seq,
     i_xmit_q |-> s.i_xmit_q, nsent |-> s.nsent, nrcvd |-> s.nrcvd, ncomplete |-> s.ncomplete,
     last_nr |-> s.last_nr]
NewView == View(NewBlock)

(* The device has data to send or to receive. *)
Open(s) == s.state \in {"CONNECTED", "W4_REMOTE_DM"}
(* The number of SDUs that were sent: the next I PDU carries Vs(s) + 1. *)
Vs(s) == s.nsent - Len(s.i_xmit_q)
(* Nothing was sent or received yet. *)
Blank(s) ==
    /\ s.next_tx_seq = 0 /\ s.rcvd_ack_seq = 0 /\ s.next_rx_seq = 0 /\ s.sent_ack_seq = 0
    /\ s.i_xmit_q = <<>> /\ s.nsent = 0 /\ s.nrcvd = 0 /\ s.ncomplete = 0
Local(s) ==
    /\ ~Open(s) => Blank(s)
    /\ Dist(s.next_tx_seq, s.rcvd_ack_seq) <= s.remote_rw
    /\ Len(s.i_xmit_q) <= s.nsent
    /\ \A i \in DOMAIN s.i_xmit_q : s.i_xmit_q[i] = Vs(s) + i

-----------------------------------------------------------------------------
(* The stream of PDUs from a device: those of the frame that the peer has  *)
(* not read, then the signalling PDUs that wait.                           *)
Wire(s) == IF s.out = <<>> THEN <<>> ELSE s.out[1].pdus
Stream(s) == Wire(s) \o s.sig_xmit_q

Connects == {p \in Pdu : p.ptype = "CONNECT"}
Confirms == {p \in Pdu : p.ptype = "CC"}
Discs == {p \in Pdu : p.ptype = "DISC"}
Infos == {p \in Pdu : p.ptype = "I"}
(* PDUs with an N(R). *)
Acks == {p \in Pdu : p.ptype \in {"I", "RR", "RNR"}}
(* A DM that confirms a DISC, and the others. *)
Resps == {p \in Pdu : p.ptype = "DM" /\ p.reason = "RESP_DISC"}
Dms == {p \in Pdu : p.ptype = "DM" /\ p.reason # "RESP_DISC"}
(* PDUs that do not belong to a connection that exists, and those that a   *)
(* device may still send after it asked for the end of the connection.     *)
Plain == Connects \cup Dms
Late == Infos \cup Dms
(* PDUs of connection e. *)
Of(e) == {p \in Acks \cup Discs : p.ep = e}

All(q, S) == \A i \in DOMAIN q : q[i] \in S
Some(q, S) == \E i \in DOMAIN q : q[i] \in S
(* What comes after a PDU of A is in B. *)
After(q, A, B) == \A i, j \in DOMAIN q : i < j /\ q[i] \in A => q[j] \in B

-----------------------------------------------------------------------------
(* Data from x to y and acknowledgements from y to x; qx and qy are the    *)
(* streams of x and y.                                                     *)

(* The I PDUs carry the SDUs that y has not received, one by one. *)
Order(x, qx, y) ==
    /\ \A i \in DOMAIN qx : qx[i] \in Infos =>
          /\ qx[i].sdu > y.nrcvd /\ qx[i].sdu <= Vs(x)
          /\ Dist(qx[i].ns, y.next_rx_seq) = qx[i].sdu - y.nrcvd - 1
    /\ \A i, j \in DOMAIN qx : i < j /\ qx[i] \in Infos /\ qx[j] \in Infos => qx[i].sdu < qx[j].sdu
    /\ \A k \in Nat : k > y.nrcvd /\ k <= Vs(x) => \E i \in DOMAIN qx : qx[i] \in Infos /\ qx[i].sdu = k

(* The acknowledgements do not go back and not beyond what x has sent. *)
Rising(x, qy) ==
    /\ \A i \in DOMAIN qy : qy[i] \in Acks =>
          Dist(qy[i].nr, x.rcvd_ack_seq) <= Dist(x.next_tx_seq, x.rcvd_ack_seq)
    /\ \A i, j \in DOMAIN qy : i < j /\ qy[i] \in Acks /\ qy[j] \in Acks =>
          Dist(qy[i].nr, x.rcvd_ack_seq) <= Dist(qy[j].nr, x.rcvd_ack_seq)

(* From the last acknowledgement x has read, the numbers follow: those on  *)
(* their way, V(RA) and V(R) of y, V(S) of x.                              *)
Numbers(x, y, qy) ==
    /\ Dist(x.next_tx_seq, y.next_rx_seq) = Vs(x) - y.nrcvd
    /\ Rising(x, qy)
    /\ \A i \in DOMAIN qy : qy[i] \in Acks =>
          Dist(qy[i].nr, x.rcvd_ack_seq) <= Dist(y.sent_ack_seq, x.rcvd_ack_seq)
    /\ Dist(y.sent_ack_seq, x.rcvd_ack_seq) <= Dist(y.next_rx_seq, x.rcvd_ack_seq)
    /\ Dist(y.next_rx_seq, x.rcvd_ack_seq) <= Dist(x.next_tx_seq, x.rcvd_ack_seq)
(* What the upper layers hear of the end of the data. *)
Complete(x, qx, y) ==
    /\ x.ncomplete <= y.nrcvd
    /\ \A i \in DOMAIN qx : qx[i] \in Discs /\ qx[i].sdu > 0 =>
          qx[i].sdu = x.nsent /\ y.nrcvd = x.nsent /\ x.i_xmit_q = <<>>
Flow(x, qx, y, qy) == Numbers(x, y, qy) /\ Complete(x, qx, y)

-----------------------------------------------------------------------------
(* m between pre and q. *)
Mid(pre, m, q) == (pre \o <<m>>) \o q

(* The phases of a connection, c and s the two devices, qc and qs their    *)
(* streams, w the windows they announce.                                   *)

(* There is none. *)
Nobody(c, qc, s, qs) ==
    /\ ~Open(c) /\ s.state = "IDLE"
    /\ All(qc, Infos \cup Plain) /\ After(qc, Connects, Plain) /\ All(qs, Late)

(* The server was asked. *)
Invited(w, c, qc, s, qs) ==
    /\ ~Open(c) /\ s.state = "W4_LOCAL_RESP" /\ s.remote_rw = w[Client]
    /\ All(qc, Plain) /\ All(qs, Late)

(* The server has confirmed, which the client has not read or, an orphan,  *)
(* did not want any more.  q is what the server sent since.                *)
Lone(w, c, qc, s, q) ==
    /\ ~Open(c) /\ Open(s) /\ s.remote_rw = w[Client] /\ s.local_rw = w[Server]
    /\ All(qc, Plain) /\ All(q, Of(s.ep) \cup Dms)
    /\ Flow(c, qc, s, q) /\ Flow(s, q, c, qc)
    /\ Some(q, Discs) => s.state = "W4_REMOTE_DM"
Confirmed(w, c, qc, s, qs, pre, m, q) ==
    /\ pre \in Seq(Late) /\ m \in Confirms /\ q \in Seq(Pdu) /\ qs = Mid(pre, m, q)
    /\ m.rw = w[Server] /\ m.ep = s.ep
    /\ Lone(w, c, qc, s, q)
    /\ Order(s, q, c)
    /\ After(q, Discs, Late)
    /\ s.state = "W4_REMOTE_DM" => Some(q, Discs)

(* What x still has to do, in a connection of both. *)
Ending(x, qx, y, qy) ==
    /\ Open(x)
    /\ Flow(x, qx, y, qy)
    /\ y.state = "CONNECTED" => Order(x, qx, y)
    /\ x.remote_rw = y.local_rw
    /\ All(qx, Of(x.ep) \cup Connects \cup Dms \cup Resps)
    /\ After(qx, Of(x.ep) \cup Resps, Pdu \ Connects)
    /\ After(qx, Discs, Late \cup Resps) /\ After(qx, Resps, Late)
    /\ Some(qx, Discs) => x.state = "W4_REMOTE_DM"
    /\ Some(qx, Resps) => x.state = "W4_REMOTE_DM" /\ y.state = "W4_REMOTE_DM" /\ ~Some(qy, Discs)
    /\ x.state = "W4_REMOTE_DM" => Some(qx, Discs) \/ Some(qy, Resps)
Pair(x, qx, y, qy) == x.ep = y.ep /\ Ending(x, qx, y, qy) /\ Ending(y, qy, x, qx)
Joined(c, qc, s, qs) == Pair(c, qc, s, qs) /\ All(qs, Pdu \ Connects)

(* y has closed, and confirms it to x. *)
Closing(x, qx, y, qy, pre, m, q) ==
    /\ x.state = "W4_REMOTE_DM" /\ ~Open(y) /\ y.ep # x.ep
    /\ All(qx, Late)
    /\ pre \in Seq(Acks \cup Plain) /\ m \in Resps /\ q \in Seq(Infos \cup Plain)
    /\ qy = Mid(pre, m, q)
    /\ Rising(x, pre) /\ After(q, Connects, Plain)
ServerCloses(c, qc, s, qs) ==
    /\ s.state = "IDLE" /\ All(qs, Pdu \ Connects)
    /\ \E pre, m, q : Closing(c, qc, s, qs, pre, m, q)
ClientCloses(c, qc, s, qs) == \E pre, m, q : Closing(s, qs, c, qc, pre, m, q)

(* The client's side and the server's; e attempts were made. *)
Sides(e, w, c, qc, s) ==
    /\ c.last_nr = c.sent_ack_seq /\ s.last_nr = s.sent_ack_seq
    /\ c.state # "W4_LOCAL_RESP" /\ s.state # "W4_REMOTE_RESP"
    /\ IF c.state = "IDLE" THEN c.ep = 0 ELSE c.ep \in 1..e /\ c.local_rw = w[Client]
    /\ IF s.state = "IDLE" THEN s.ep = 0 ELSE s.ep \in 1..e
    /\ \A i \in DOMAIN qc : qc[i] \in Connects => qc[i].rw = w[Client] /\ qc[i].ep \in 1..e
Joint(e, w, c, qc, s, qs) ==
    /\ Sides(e, w, c, qc, s)
    /\ \/ Nobody(c, qc, s, qs) \/ Invited(w, c, qc, s, qs) \/ Lone(w, c, qc, s, qs)
       \/ \E pre, m, q : Confirmed(w, c, qc, s, qs, pre, m, q)
       \/ Joined(c, qc, s, qs) \/ ServerCloses(c, qc, s, qs) \/ ClientCloses(c, qc, s, qs)

(* No buffer is ever missing and no data link timer expires early. *)
Reliable == PoolOutcomes \subseteq {TRUE} /\ \A n \in Node : "timeout" \notin Uses[n]
(* Joint, as node n sees it; e attempts were made.                         *)
Jointly(e, n, v, q, o, qo) ==
    IF n = Client THEN Joint(e, RW, v, q, o, qo) ELSE Joint(e, RW, o, qo, v, q)
(* What is true of the view v and the stream q of n, and those of its peer *)
(* o and qo.                                                               *)
Holds(e, n, v, q, o, qo) ==
    /\ v \in Views /\ q \in Seq(Pdu) /\ Local(v)
    /\ Reliable => Jointly(e, n, v, q, o, qo)
OInv ==
    /\ IInv
    /\ \A n \in Node :
         Holds(nep, n, View(node[n]), Stream(node[n]), View(node[Peer(n)]), Stream(node[Peer(n)]))

-----------------------------------------------------------------------------
(* A set that has 0 and the successors up to n has all of 0..n. *)
LEMMA UpTo ==
  ASSUME NEW n \in Nat, NEW P, 0 \in P, \A k \in 1..n : k - 1 \in P => k \in P
  PROVE  0..n \subseteq P
<1> SUFFICES ASSUME NEW x \in 0..n, x \notin P PROVE FALSE OBVIOUS
<1> DEFINE B == {k \in Nat : k \in 0..n /\ k \notin P}
<1>1. B # {} /\ B \subseteq Nat OBVIOUS
<1> HIDE DEF B
<1>2. PICK m \in B : \A y \in B : ~(<<y, m>> \in OpToRel(<, Nat))
  BY <1>1, WFMin, NatLessThanWellFounded
<1>3. m \in Nat /\ m \in 0..n /\ m \notin P BY <1>2 DEF B
<1>4. m \in 1..n /\ m - 1 \in Nat /\ m - 1 \in 0..n BY <1>3
<1>5. m - 1 \notin B
  <2>1. ~(m - 1 < m) \/ m - 1 \notin B BY <1>2, <1>3, <1>4 DEF OpToRel
  <2> QED BY <1>4, <2>1
<1>6. m - 1 \in P BY <1>4, <1>5 DEF B
<1> QED BY <1>3, <1>4, <1>6

-----------------------------------------------------------------------------
(* Sequence numbers.                                                       *)

(* Dist without the modulo operator. *)
LEMMA DistIs ==
    ASSUME NEW a \in SeqNum, NEW b \in SeqNum
    PROVE  Dist(a, b) = IF a >= b THEN a - b ELSE a - b + LLCP_SEQ_MODULO
<1> DEFINE M == LLCP_SEQ_MODULO  x == a - b
<1>1. M \in Nat /\ M > 1 /\ x \in Int /\ -M < x /\ x < M /\ (a >= b <=> x >= 0) BY SeqAssumption DEF SeqNum
<1>2. Dist(a, b) = x % M BY DEF Dist
<1> HIDE DEF M, x
<1>3. x >= 0 => x % M = x BY <1>1
<1>4. x < 0 => x % M = x + M BY <1>1
<1>5. (IF a >= b THEN a - b ELSE a - b + LLCP_SEQ_MODULO) = IF x >= 0 THEN x ELSE x + M BY <1>1 DEF x, M
<1> QED BY <1>1, <1>2, <1>3, <1>4, <1>5

(* The distance is 0 between equal numbers only. *)
LEMMA DistZero ==
    ASSUME NEW a \in SeqNum, NEW b \in SeqNum PROVE Dist(a, b) = 0 <=> a = b
BY DistIs, SeqAssumption DEF SeqNum

(* Distances are naturals below the modulus. *)
LEMMA DistNat ==
    ASSUME NEW a \in SeqNum, NEW b \in SeqNum
    PROVE  Dist(a, b) \in Nat /\ Dist(a, b) < LLCP_SEQ_MODULO
BY DistType, SeqAssumption DEF SeqNum

(* From a over b to c. *)
LEMMA DistSplit ==
    ASSUME NEW a \in SeqNum, NEW b \in SeqNum, NEW c \in SeqNum, Dist(b, a) <= Dist(c, a)
    PROVE  Dist(c, b) = Dist(c, a) - Dist(b, a)
<1>1. /\ Dist(b, a) = IF b >= a THEN b - a ELSE b - a + LLCP_SEQ_MODULO
      /\ Dist(c, a) = IF c >= a THEN c - a ELSE c - a + LLCP_SEQ_MODULO
      /\ Dist(c, b) = IF c >= b THEN c - b ELSE c - b + LLCP_SEQ_MODULO
  BY DistIs
<1>2. /\ a \in Nat /\ b \in Nat /\ c \in Nat
      /\ a < LLCP_SEQ_MODULO /\ b < LLCP_SEQ_MODULO /\ c < LLCP_SEQ_MODULO /\ LLCP_SEQ_MODULO \in Nat
  BY SeqAssumption DEF SeqNum
<1> QED BY <1>1, <1>2

(* The successor is one farther, unless it comes round. *)
LEMMA DistInc ==
    ASSUME NEW a \in SeqNum, NEW b \in SeqNum, Dist(a, b) + 1 < LLCP_SEQ_MODULO
    PROVE  Dist(Inc(a), b) = Dist(a, b) + 1
<1>1. a \in Nat /\ b \in Nat /\ a < LLCP_SEQ_MODULO /\ b < LLCP_SEQ_MODULO /\ LLCP_SEQ_MODULO \in Nat
  BY SeqAssumption DEF SeqNum
<1>2. Inc(a) = IF a + 1 = LLCP_SEQ_MODULO THEN 0 ELSE a + 1 BY <1>1 DEF Inc
<1>3. Inc(a) \in SeqNum BY IncType
<1>4. /\ Dist(a, b) = IF a >= b THEN a - b ELSE a - b + LLCP_SEQ_MODULO
      /\ Dist(Inc(a), b) = IF Inc(a) >= b THEN Inc(a) - b ELSE Inc(a) - b + LLCP_SEQ_MODULO
  BY <1>3, DistIs
<1> QED BY <1>1, <1>2, <1>4

(* Seen from the successor everything else is one nearer. *)
LEMMA DistFromInc ==
    ASSUME NEW a \in SeqNum, NEW b \in SeqNum, Dist(a, b) >= 1
    PROVE  Dist(a, Inc(b)) = Dist(a, b) - 1
<1>1. a \in Nat /\ b \in Nat /\ a < LLCP_SEQ_MODULO /\ b < LLCP_SEQ_MODULO /\ LLCP_SEQ_MODULO \in Nat
  BY SeqAssumption DEF SeqNum
<1>2. Inc(b) = IF b + 1 = LLCP_SEQ_MODULO THEN 0 ELSE b + 1 BY <1>1 DEF Inc
<1>3. Inc(b) \in SeqNum BY IncType
<1>4. /\ Dist(a, b) = IF a >= b THEN a - b ELSE a - b + LLCP_SEQ_MODULO
      /\ Dist(a, Inc(b)) = IF a >= Inc(b) THEN a - Inc(b) ELSE a - Inc(b) + LLCP_SEQ_MODULO
  BY <1>3, DistIs
<1> QED BY <1>1, <1>2, <1>4

(* The check of N(R) in terms of distances. *)
LEMMA NrInRangeIs ==
    ASSUME NEW s \in Views, NEW nr \in SeqNum
    PROVE  NrInRange(s, nr) <=> Dist(nr, s.rcvd_ack_seq) <= Dist(s.next_tx_seq, s.rcvd_ack_seq)
<1>1. s.rcvd_ack_seq \in SeqNum /\ s.next_tx_seq \in SeqNum BY DEF Views
<1>2. /\ Dist(nr, s.rcvd_ack_seq) \in Nat /\ Dist(s.next_tx_seq, nr) \in Nat
      /\ Dist(s.next_tx_seq, s.rcvd_ack_seq) \in Nat
  BY <1>1, DistNat
<1>3. Dist(nr, s.rcvd_ack_seq) <= Dist(s.next_tx_seq, s.rcvd_ack_seq) =>
        Dist(s.next_tx_seq, nr) = Dist(s.next_tx_seq, s.rcvd_ack_seq) - Dist(nr, s.rcvd_ack_seq)
  BY <1>1, DistSplit
<1> QED BY <1>2, <1>3 DEF NrInRange

-----------------------------------------------------------------------------
(* Streams.                                                                *)

(* What is true of an appended PDU and those before it. *)
LEMMA AppendIs ==
    ASSUME NEW T, NEW q \in Seq(T), NEW p
    PROVE  /\ Len(Append(q, p)) = Len(q) + 1 /\ Len(q) \in Nat
           /\ DOMAIN q = 1..Len(q) /\ DOMAIN Append(q, p) = 1..(Len(q) + 1)
           /\ \A i \in DOMAIN q : Append(q, p)[i] = q[i]
           /\ Append(q, p)[Len(q) + 1] = p
OBVIOUS

(* What is true of the rest of a stream. *)
LEMMA TailIs ==
    ASSUME NEW T, NEW q \in Seq(T), q # <<>>
    PROVE  /\ Tail(q) \in Seq(T) /\ Head(q) \in T /\ Head(q) = q[1]
           /\ DOMAIN q = 1..Len(q) /\ DOMAIN Tail(q) = 1..(Len(q) - 1) /\ Len(q) \in Nat /\ Len(q) >= 1
           /\ \A i \in DOMAIN Tail(q) : Tail(q)[i] = q[i + 1]
OBVIOUS

(* Statements about all, or some, PDUs of a longer stream. *)
LEMMA Appended ==
    ASSUME NEW T, NEW q \in Seq(T), NEW p, NEW S, NEW A, NEW B
    PROVE  /\ All(Append(q, p), S) <=> All(q, S) /\ p \in S
           /\ Some(Append(q, p), S) <=> Some(q, S) \/ p \in S
           /\ After(Append(q, p), A, B) <=> After(q, A, B) /\ (Some(q, A) => p \in B)
<1> DEFINE r == Append(q, p)  n == Len(q)
<1>1. /\ n \in Nat /\ DOMAIN q = 1..n /\ DOMAIN r = 1..(n + 1)
      /\ \A i \in 1..n : r[i] = q[i]
      /\ r[n + 1] = p
  BY AppendIs
<1> HIDE DEF r, n
<1>2. All(r, S) <=> All(q, S) /\ p \in S BY <1>1 DEF All
<1>3. Some(r, S) <=> Some(q, S) \/ p \in S BY <1>1 DEF Some
<1>4. After(r, A, B) => After(q, A, B) BY <1>1 DEF After
<1>5. ASSUME After(r, A, B), Some(q, A) PROVE p \in B
  <2>1. PICK i \in 1..n : q[i] \in A BY <1>1, <1>5 DEF Some
  <2>2. i \in DOMAIN r /\ n + 1 \in DOMAIN r /\ i < n + 1 /\ r[i] \in A BY <1>1, <2>1
  <2> QED BY <1>1, <1>5, <2>2 DEF After
<1>6. ASSUME After(q, A, B), Some(q, A) => p \in B PROVE After(r, A, B)
  <2> SUFFICES ASSUME NEW i \in DOMAIN r, NEW j \in DOMAIN r, i < j, r[i] \in A PROVE r[j] \in B BY DEF After
  <2>1. i \in 1..n /\ r[i] = q[i] BY <1>1
  <2>2. CASE j \in 1..n BY <1>1, <1>6, <2>1, <2>2 DEF After
  <2>3. CASE j = n + 1 BY <1>1, <1>6, <2>1, <2>3 DEF Some
  <2> QED BY <1>1, <2>2, <2>3
<1> QED BY <1>2, <1>3, <1>4, <1>5, <1>6 DEF r

(* The same for a stream whose first PDU was read. *)
LEMMA Popped ==
    ASSUME NEW T, NEW q \in Seq(T), q # <<>>, NEW S, NEW A, NEW B
    PROVE  /\ All(q, S) <=> Head(q) \in S /\ All(Tail(q), S)
           /\ Some(q, S) <=> Head(q) \in S \/ Some(Tail(q), S)
           /\ After(q, A, B) <=> After(Tail(q), A, B) /\ (Head(q) \in A => All(Tail(q), B))
<1> DEFINE r == Tail(q)  n == Len(q)  h == Head(q)
<1>1. /\ n \in Nat /\ n >= 1 /\ DOMAIN q = 1..n /\ DOMAIN r = 1..(n - 1) /\ h = q[1]
      /\ \A i \in DOMAIN r : r[i] = q[i + 1]
  BY TailIs
<1>2. \A i \in 1..n : i = 1 \/ (i - 1 \in DOMAIN r /\ r[i - 1] = q[i])
  <2> SUFFICES ASSUME NEW i \in 1..n, i # 1 PROVE i - 1 \in DOMAIN r /\ r[i - 1] = q[i] OBVIOUS
  <2>1. i - 1 \in 1..(n - 1) /\ (i - 1) + 1 = i BY <1>1
  <2> QED BY <1>1, <2>1
<1>3. \A i \in DOMAIN r : i + 1 \in 1..n /\ i + 1 > 1 BY <1>1
<1> HIDE DEF r, n, h
<1>4. All(q, S) <=> h \in S /\ All(r, S)
  <2>1. All(q, S) => h \in S /\ All(r, S) BY <1>1, <1>3 DEF All
  <2>2. h \in S /\ All(r, S) => All(q, S) BY <1>1, <1>2 DEF All
  <2> QED BY <2>1, <2>2
<1>5. Some(q, S) <=> h \in S \/ Some(r, S)
  <2>1. Some(q, S) => h \in S \/ Some(r, S) BY <1>1, <1>2 DEF Some
  <2>2. Some(r, S) => Some(q, S) BY <1>1, <1>3 DEF Some
  <2>3. h \in S => Some(q, S) BY <1>1 DEF Some
  <2> QED BY <2>1, <2>2, <2>3
<1>6. After(q, A, B) => After(r, A, B)
  <2> SUFFICES ASSUME After(q, A, B), NEW i \in DOMAIN r, NEW j \in DOMAIN r, i < j, r[i] \in A PROVE r[j] \in B
    BY DEF After
  <2>1. i + 1 \in DOMAIN q /\ j + 1 \in DOMAIN q /\ i + 1 < j + 1 BY <1>1, <1>3
  <2> QED BY <1>1, <2>1 DEF After
<1>7. After(q, A, B) /\ h \in A => All(r, B) BY <1>1, <1>3 DEF After, All
<1>8. ASSUME After(r, A, B), h \in A => All(r, B) PROVE After(q, A, B)
  <2> SUFFICES ASSUME NEW i \in 1..n, NEW j \in 1..n, i < j, q[i] \in A PROVE q[j] \in B BY <1>1 DEF After
  <2>1. j - 1 \in DOMAIN r /\ r[j - 1] = q[j] BY <1>1, <1>2
  <2>2. CASE i = 1 BY <1>1, <1>8, <2>1, <2>2 DEF All
  <2>3. CASE i # 1
    <3>1. i - 1 \in DOMAIN r /\ r[i - 1] = q[i] /\ i - 1 < j - 1 BY <1>1, <1>2, <2>3
    <3> QED BY <1>8, <2>1, <3>1 DEF After
  <2> QED BY <2>2, <2>3
<1> QED BY <1>4, <1>5, <1>6, <1>7, <1>8 DEF r, h

-----------------------------------------------------------------------------
(* Data and acknowledgements.                                              *)

(* What the statements about data need of the two devices. *)
LEMMA ViewNumbers ==
    ASSUME NEW s \in Views
    PROVE  /\ s.next_tx_seq \in SeqNum /\ s.rcvd_ack_seq \in SeqNum
           /\ s.next_rx_seq \in SeqNum /\ s.sent_ack_seq \in SeqNum
           /\ s.local_rw \in SeqNum /\ s.remote_rw \in SeqNum
           /\ s.nsent \in Nat /\ s.nrcvd \in Nat /\ s.ncomplete \in Nat /\ s.ep \in Nat
           /\ s.i_xmit_q \in Seq(Nat) /\ Len(s.i_xmit_q) \in Nat /\ Vs(s) \in Int
<1>1. s.i_xmit_q \in Seq(Nat) /\ s.nsent \in Nat BY DEF Views
<1>2. Len(s.i_xmit_q) \in Nat BY <1>1, LenProperties
<1>3. Vs(s) \in Int BY <1>1, <1>2 DEF Vs
<1> QED BY <1>1, <1>2, <1>3 DEF Views

(* What they need of a PDU. *)
LEMMA PduNumbers == ASSUME NEW p \in Pdu PROVE p.ns \in SeqNum /\ p.nr \in SeqNum /\ p.sdu \in Nat /\ p.ep \in Nat
BY DEF Pdu

(* The kinds of PDUs are kinds of PDUs. *)
LEMMA KindsArePdus ==
    /\ Connects \subseteq Pdu /\ Confirms \subseteq Pdu /\ Discs \subseteq Pdu /\ Infos \subseteq Pdu
    /\ Acks \subseteq Pdu /\ Resps \subseteq Pdu /\ Dms \subseteq Pdu /\ Plain \subseteq Pdu /\ Late \subseteq Pdu
    /\ Infos \subseteq Acks /\ \A e : Of(e) \subseteq Pdu
BY DEF Connects, Confirms, Discs, Infos, Acks, Resps, Dms, Plain, Late, Of

(* A PDU without data does not touch the order of the data. *)
LEMMA OrderSkip ==
    ASSUME NEW x, NEW y, NEW q \in Seq(Pdu), NEW p, p \notin Infos, Order(x, q, y)
    PROVE  Order(x, Append(q, p), y)
<1> DEFINE r == Append(q, p)  n == Len(q)
<1>1. /\ n \in Nat /\ DOMAIN q = 1..n /\ DOMAIN r = 1..(n + 1)
      /\ \A i \in 1..n : r[i] = q[i]
      /\ r[n + 1] = p
  BY AppendIs
<1> HIDE DEF r, n
<1>2. \A i \in DOMAIN r : r[i] \in Infos => i \in 1..n /\ r[i] = q[i] BY <1>1
<1>3. \A i \in DOMAIN q : i \in DOMAIN r /\ r[i] = q[i] BY <1>1
<1> QED BY <1>1, <1>2, <1>3 DEF Order, r

(* x sends the next SDU. *)
LEMMA OrderInfo ==
    ASSUME NEW x \in Views, NEW x2 \in Views, NEW y \in Views, NEW q \in Seq(Pdu), NEW p \in Infos,
           Order(x, q, y), Vs(x2) = Vs(x) + 1, p.sdu = Vs(x) + 1, Vs(x) >= y.nrcvd,
           Dist(p.ns, y.next_rx_seq) = Vs(x) - y.nrcvd
    PROVE  Order(x2, Append(q, p), y)
<1> DEFINE r == Append(q, p)  n == Len(q)  v == Vs(x)  d == y.nrcvd
<1>1. /\ n \in Nat /\ DOMAIN q = 1..n /\ DOMAIN r = 1..(n + 1)
      /\ \A i \in 1..n : r[i] = q[i]
      /\ r[n + 1] = p
  BY AppendIs
<1>2. v \in Int /\ d \in Nat BY ViewNumbers
<1>3. \A i \in 1..n : q[i] \in Infos =>
         /\ q[i].sdu > d /\ q[i].sdu <= v
         /\ Dist(q[i].ns, y.next_rx_seq) = q[i].sdu - d - 1
  BY <1>1 DEF Order
<1>4. \A i, j \in 1..n : i < j /\ q[i] \in Infos /\ q[j] \in Infos => q[i].sdu < q[j].sdu
  BY <1>1 DEF Order
<1>5. \A k \in Nat : k > d /\ k <= v => \E i \in 1..n : q[i] \in Infos /\ q[i].sdu = k BY <1>1 DEF Order
<1>6. \A i \in 1..n : q[i] \in Infos => q[i].sdu \in Nat BY <1>1, KindsArePdus, PduNumbers
<1>7. Vs(x2) = v + 1 /\ p.sdu = v + 1 /\ v >= d /\ Dist(p.ns, y.next_rx_seq) = v - d OBVIOUS
<1> HIDE DEF r, n, v, d
<1>8. ASSUME NEW i \in 1..(n + 1), r[i] \in Infos
      PROVE  /\ r[i].sdu > d /\ r[i].sdu <= v + 1
             /\ Dist(r[i].ns, y.next_rx_seq) = r[i].sdu - d - 1
  <2>1. CASE i = n + 1 BY <2>1, <1>1, <1>2, <1>7
  <2>2. CASE i \in 1..n BY <2>2, <1>1, <1>2, <1>3, <1>6, <1>8
  <2> QED BY <2>1, <2>2, <1>1
<1>9. ASSUME NEW i \in 1..(n + 1), NEW j \in 1..(n + 1), i < j, r[i] \in Infos, r[j] \in Infos
      PROVE  r[i].sdu < r[j].sdu
  <2>1. i \in 1..n BY <1>1, <1>9
  <2>2. CASE j = n + 1 BY <2>1, <2>2, <1>1, <1>2, <1>3, <1>6, <1>7, <1>9
  <2>3. CASE j \in 1..n BY <2>1, <2>3, <1>1, <1>4, <1>9
  <2> QED BY <2>2, <2>3, <1>1
<1>10. ASSUME NEW k \in Nat, k > d, k <= v + 1 PROVE \E i \in 1..(n + 1) : r[i] \in Infos /\ r[i].sdu = k
  <2>1. CASE k = v + 1
    <3>1. n + 1 \in 1..(n + 1) BY <1>1
    <3> QED BY <2>1, <3>1, <1>1, <1>7
  <2>2. CASE k <= v
    <3>1. PICK i \in 1..n : q[i] \in Infos /\ q[i].sdu = k BY <2>2, <1>5, <1>10
    <3>2. i \in 1..(n + 1) BY <1>1
    <3> QED BY <3>1, <3>2, <1>1
  <2> QED BY <2>1, <2>2, <1>2, <1>10
<1> QED BY <1>1, <1>7, <1>8, <1>9, <1>10 DEF Order, r, d

(* y reads a PDU without data. *)
LEMMA OrderPop ==
    ASSUME NEW x, NEW y, NEW q \in Seq(Pdu), q # <<>>, Head(q) \notin Infos, Order(x, q, y)
    PROVE  Order(x, Tail(q), y)
<1> DEFINE r == Tail(q)  n == Len(q)
<1>1. /\ n \in Nat /\ n >= 1 /\ DOMAIN q = 1..n /\ DOMAIN r = 1..(n - 1) /\ Head(q) = q[1]
      /\ \A i \in DOMAIN r : r[i] = q[i + 1]
  BY TailIs
<1>2. \A i \in DOMAIN r : i + 1 \in DOMAIN q BY <1>1
<1>3. \A i, j \in DOMAIN r : i < j => i + 1 < j + 1 BY <1>1
<1>4. \A i \in DOMAIN q : q[i] \in Infos => i - 1 \in DOMAIN r /\ r[i - 1] = q[i]
  <2> SUFFICES ASSUME NEW i \in DOMAIN q, q[i] \in Infos PROVE i - 1 \in DOMAIN r /\ r[i - 1] = q[i] OBVIOUS
  <2>1. i # 1 BY <1>1
  <2>2. i - 1 \in 1..(n - 1) /\ (i - 1) + 1 = i BY <1>1, <2>1
  <2> QED BY <1>1, <2>2
<1> HIDE DEF r, n
<1>5. \A i \in DOMAIN r : r[i] \in Infos =>
         /\ r[i].sdu > y.nrcvd /\ r[i].sdu <= Vs(x)
         /\ Dist(r[i].ns, y.next_rx_seq) = r[i].sdu - y.nrcvd - 1
  BY <1>1, <1>2 DEF Order
<1>6. \A i, j \in DOMAIN r : i < j /\ r[i] \in Infos /\ r[j] \in Infos => r[i].sdu < r[j].sdu
  BY <1>1, <1>2, <1>3 DEF Order
<1>7. \A k \in Nat : k > y.nrcvd /\ k <= Vs(x) => \E i \in DOMAIN r : r[i] \in Infos /\ r[i].sdu = k
  <2> SUFFICES ASSUME NEW k \in Nat, k > y.nrcvd, k <= Vs(x) PROVE \E i \in DOMAIN r : r[i] \in Infos /\ r[i].sdu = k
    OBVIOUS
  <2>1. PICK i \in DOMAIN q : q[i] \in Infos /\ q[i].sdu = k BY DEF Order
  <2>2. i - 1 \in DOMAIN r /\ r[i - 1] = q[i] BY <2>1, <1>4
  <2> QED BY <2>1, <2>2
<1> QED BY <1>5, <1>6, <1>7 DEF Order, r

(* The next I PDU has the next SDU and the number y expects. *)
LEMMA OrderHead ==
    ASSUME NEW x \in Views, NEW y \in Views, NEW q \in Seq(Pdu), q # <<>>, Head(q) \in Infos, Order(x, q, y)
    PROVE  /\ Head(q).sdu = y.nrcvd + 1 /\ y.nrcvd + 1 <= Vs(x)
           /\ Head(q).ns = y.next_rx_seq
<1> DEFINE h == Head(q)  d == y.nrcvd
<1>1. h = q[1] /\ 1 \in DOMAIN q /\ \A i \in DOMAIN q : i = 1 \/ 1 < i BY TailIs
<1>2. h \in Pdu /\ d \in Nat /\ Vs(x) \in Int /\ y.next_rx_seq \in SeqNum BY KindsArePdus, ViewNumbers
<1>3. h.sdu \in Nat /\ h.ns \in SeqNum BY <1>2, PduNumbers
<1>4. h.sdu > d /\ h.sdu <= Vs(x) /\ Dist(h.ns, y.next_rx_seq) = h.sdu - d - 1 BY <1>1 DEF Order
<1>5. d + 1 \in Nat /\ d + 1 > d /\ d + 1 <= Vs(x) BY <1>2, <1>3, <1>4
<1>6. PICK i \in DOMAIN q : q[i] \in Infos /\ q[i].sdu = d + 1 BY <1>5 DEF Order
<1>7. 1 < i => h.sdu < d + 1
  <2> HAVE 1 < i
  <2> QED BY <1>1, <1>6 DEF Order
<1>8. h.sdu = d + 1 BY <1>1, <1>2, <1>3, <1>4, <1>6, <1>7
<1>9. Dist(h.ns, y.next_rx_seq) = 0 BY <1>2, <1>4, <1>8
<1> QED BY <1>2, <1>3, <1>5, <1>8, <1>9, DistZero

(* y accepts it. *)
LEMMA OrderTaken ==
    ASSUME NEW x \in Views, NEW y \in Views, NEW y2, NEW q \in Seq(Pdu), q # <<>>, Head(q) \in Infos,
           Order(x, q, y), y2.nrcvd = y.nrcvd + 1, y2.next_rx_seq = Inc(y.next_rx_seq)
    PROVE  Order(x, Tail(q), y2)
<1> DEFINE r == Tail(q)  n == Len(q)  d == y.nrcvd
<1>1. /\ n \in Nat /\ n >= 1 /\ DOMAIN q = 1..n /\ DOMAIN r = 1..(n - 1) /\ Head(q) = q[1]
      /\ \A i \in DOMAIN r : r[i] = q[i + 1]
  BY TailIs
<1>2. \A i \in DOMAIN r : i + 1 \in DOMAIN q /\ 1 < i + 1 BY <1>1
<1>3. \A i, j \in DOMAIN r : i < j => i + 1 < j + 1 BY <1>1
<1>4. \A i \in DOMAIN q : i = 1 \/ (i - 1 \in DOMAIN r /\ r[i - 1] = q[i])
  <2> SUFFICES ASSUME NEW i \in DOMAIN q, i # 1 PROVE i - 1 \in DOMAIN r /\ r[i - 1] = q[i] OBVIOUS
  <2>1. i - 1 \in 1..(n - 1) /\ (i - 1) + 1 = i BY <1>1
  <2> QED BY <1>1, <2>1
<1>5. 1 \in DOMAIN q /\ q[1] \in Infos /\ q[1].sdu = d + 1 /\ d \in Nat /\ Vs(x) \in Int /\ y.next_rx_seq \in SeqNum
  BY <1>1, OrderHead, ViewNumbers
<1>6. \A i \in DOMAIN r : r[i] \in Infos => r[i].sdu \in Nat /\ r[i].ns \in SeqNum BY KindsArePdus, PduNumbers
<1> HIDE DEF r, n, d
<1>7. ASSUME NEW i \in DOMAIN r, r[i] \in Infos
      PROVE  /\ r[i].sdu > d + 1 /\ r[i].sdu <= Vs(x)
             /\ Dist(r[i].ns, Inc(y.next_rx_seq)) = r[i].sdu - (d + 1) - 1
  <2>1. i + 1 \in DOMAIN q /\ q[i + 1] = r[i] /\ 1 < i + 1 BY <1>1, <1>2
  <2>2. q[1].sdu < r[i].sdu /\ r[i].sdu <= Vs(x) /\ Dist(r[i].ns, y.next_rx_seq) = r[i].sdu - d - 1
    BY <1>5, <1>7, <2>1 DEF Order, d
  <2>3. r[i].sdu \in Nat /\ r[i].ns \in SeqNum BY <1>6, <1>7
  <2>4. r[i].sdu > d + 1 /\ r[i].sdu - d - 1 >= 1 BY <1>5, <2>2, <2>3
  <2>5. Dist(r[i].ns, Inc(y.next_rx_seq)) = r[i].sdu - d - 1 - 1 BY <1>5, <2>2, <2>3, <2>4, DistFromInc
  <2>6. \A a, b \in Int : a - b - 1 - 1 = a - (b + 1) - 1 OBVIOUS
  <2>7. r[i].sdu \in Int /\ d \in Int BY <1>5, <2>3
  <2>8. r[i].sdu - d - 1 - 1 = r[i].sdu - (d + 1) - 1 BY <2>6, <2>7
  <2> QED BY <2>2, <2>4, <2>5, <2>8
<1>8. \A i, j \in DOMAIN r : i < j /\ r[i] \in Infos /\ r[j] \in Infos => r[i].sdu < r[j].sdu
  BY <1>1, <1>2, <1>3 DEF Order
<1>9. ASSUME NEW k \in Nat, k > d + 1, k <= Vs(x) PROVE \E i \in DOMAIN r : r[i] \in Infos /\ r[i].sdu = k
  <2>1. k > d BY <1>5, <1>9
  <2>2. PICK i \in DOMAIN q : q[i] \in Infos /\ q[i].sdu = k BY <1>9, <2>1 DEF Order, d
  <2>3. i # 1 BY <1>5, <1>9, <2>2
  <2>4. i - 1 \in DOMAIN r /\ r[i - 1] = q[i] BY <2>3, <1>4
  <2> QED BY <2>2, <2>4
<1>10. y2.nrcvd = d + 1 BY DEF d
<1> QED BY <1>7, <1>8, <1>9, <1>10 DEF Order, r

(* The order depends on V(S) of x and on V(R) of y. *)
LEMMA OrderSame ==
    ASSUME NEW x, NEW y, NEW x2, NEW y2, NEW q, Order(x, q, y), Vs(x2) = Vs(x),
           y2.nrcvd = y.nrcvd, y2.next_rx_seq = y.next_rx_seq
    PROVE  Order(x2, q, y2)
BY DEF Order

(* The acknowledgements in the rest of a stream. *)
LEMMA RisingPop ==
    ASSUME NEW x, NEW q \in Seq(Pdu), q # <<>>, Rising(x, q) PROVE Rising(x, Tail(q))
<1> DEFINE r == Tail(q)  n == Len(q)
<1>1. /\ n \in Nat /\ n >= 1 /\ DOMAIN q = 1..n /\ DOMAIN r = 1..(n - 1)
      /\ \A i \in DOMAIN r : r[i] = q[i + 1]
  BY TailIs
<1>2. \A i \in DOMAIN r : i + 1 \in DOMAIN q BY <1>1
<1>3. \A i, j \in DOMAIN r : i < j => i + 1 < j + 1 BY <1>1
<1> HIDE DEF r, n
<1> QED BY <1>1, <1>2, <1>3 DEF Rising, r

(* A PDU without N(R) does not matter to them. *)
LEMMA RisingSkip ==
    ASSUME NEW x, NEW q \in Seq(Pdu), NEW p, p \notin Acks, Rising(x, q) PROVE Rising(x, Append(q, p))
<1> DEFINE r == Append(q, p)  n == Len(q)
<1>1. /\ n \in Nat /\ DOMAIN q = 1..n /\ DOMAIN r = 1..(n + 1)
      /\ \A i \in 1..n : r[i] = q[i]
      /\ r[n + 1] = p
  BY AppendIs
<1> HIDE DEF r, n
<1>2. \A i \in DOMAIN r : r[i] \in Acks => i \in DOMAIN q /\ r[i] = q[i] BY <1>1
<1> QED BY <1>1, <1>2 DEF Rising, r

(* x reads the first of them. *)
LEMMA RisingAcked ==
    ASSUME NEW x \in Views, NEW x2, NEW q \in Seq(Pdu), q # <<>>, Head(q) \in Acks, Rising(x, q),
           x2.rcvd_ack_seq = Head(q).nr, x2.next_tx_seq = x.next_tx_seq
    PROVE  /\ Rising(x2, Tail(q))
           /\ Dist(Head(q).nr, x.rcvd_ack_seq) <= Dist(x.next_tx_seq, x.rcvd_ack_seq)
           /\ \A z \in SeqNum : Dist(Head(q).nr, x.rcvd_ack_seq) <= Dist(z, x.rcvd_ack_seq) =>
                Dist(z, Head(q).nr) = Dist(z, x.rcvd_ack_seq) - Dist(Head(q).nr, x.rcvd_ack_seq)
           /\ \A i \in DOMAIN Tail(q) : Tail(q)[i] \in Acks =>
                Dist(Head(q).nr, x.rcvd_ack_seq) <= Dist(Tail(q)[i].nr, x.rcvd_ack_seq)
<1> DEFINE r == Tail(q)  n == Len(q)  h == Head(q)  D(z) == Dist(z, x.rcvd_ack_seq)
<1>1. /\ n \in Nat /\ n >= 1 /\ DOMAIN q = 1..n /\ DOMAIN r = 1..(n - 1) /\ h = q[1]
      /\ \A i \in DOMAIN r : r[i] = q[i + 1]
  BY TailIs
<1>2. \A i \in DOMAIN r : i + 1 \in DOMAIN q /\ 1 < i + 1 BY <1>1
<1>3. \A i, j \in DOMAIN r : i < j => i + 1 < j + 1 BY <1>1
<1>4. 1 \in DOMAIN q BY <1>1
<1>5. h.nr \in SeqNum /\ x.rcvd_ack_seq \in SeqNum /\ x.next_tx_seq \in SeqNum BY KindsArePdus, PduNumbers, ViewNumbers
<1>6. \A i \in DOMAIN r : r[i] \in Acks => r[i].nr \in SeqNum BY KindsArePdus, PduNumbers
<1> HIDE DEF r, n, h
<1>7. D(h.nr) <= D(x.next_tx_seq) BY <1>1, <1>4 DEF Rising, h
<1>8. \A z \in SeqNum : D(h.nr) <= D(z) => Dist(z, h.nr) = D(z) - D(h.nr) BY <1>5, DistSplit
<1>9. \A i \in DOMAIN r : r[i] \in Acks => D(h.nr) <= D(r[i].nr) /\ D(r[i].nr) <= D(x.next_tx_seq)
  BY <1>1, <1>2, <1>4 DEF Rising, h
<1>10. \A z \in SeqNum : D(z) \in Nat BY <1>5, DistNat
<1>11. \A i, j \in DOMAIN r : i < j /\ r[i] \in Acks /\ r[j] \in Acks => D(r[i].nr) <= D(r[j].nr)
  BY <1>1, <1>2, <1>3 DEF Rising
<1>12. x2.rcvd_ack_seq = h.nr /\ x2.next_tx_seq = x.next_tx_seq BY DEF h
<1>13. ASSUME NEW i \in DOMAIN r, r[i] \in Acks PROVE Dist(r[i].nr, h.nr) <= Dist(x.next_tx_seq, h.nr)
  <2>1. D(r[i].nr) \in Nat /\ D(x.next_tx_seq) \in Nat /\ D(h.nr) \in Nat BY <1>5, <1>6, <1>10, <1>13
  <2>2. /\ Dist(r[i].nr, h.nr) = D(r[i].nr) - D(h.nr)
        /\ Dist(x.next_tx_seq, h.nr) = D(x.next_tx_seq) - D(h.nr)
        /\ D(r[i].nr) <= D(x.next_tx_seq)
    BY <1>5, <1>6, <1>7, <1>8, <1>9, <1>13
  <2> HIDE DEF D
  <2> QED BY <2>1, <2>2
<1>14. ASSUME NEW i \in DOMAIN r, NEW j \in DOMAIN r, i < j, r[i] \in Acks, r[j] \in Acks
       PROVE  Dist(r[i].nr, h.nr) <= Dist(r[j].nr, h.nr)
  <2>1. D(r[i].nr) \in Nat /\ D(r[j].nr) \in Nat /\ D(h.nr) \in Nat BY <1>5, <1>6, <1>10, <1>14
  <2>2. /\ Dist(r[i].nr, h.nr) = D(r[i].nr) - D(h.nr)
        /\ Dist(r[j].nr, h.nr) = D(r[j].nr) - D(h.nr)
        /\ D(r[i].nr) <= D(r[j].nr)
    BY <1>6, <1>8, <1>9, <1>11, <1>14
  <2> HIDE DEF D
  <2> QED BY <2>1, <2>2
<1>15. Rising(x2, r) BY <1>12, <1>13, <1>14 DEF Rising
<1> QED BY <1>7, <1>8, <1>9, <1>15 DEF r, h

(* x sends more. *)
LEMMA RisingSent ==
    ASSUME NEW x \in Views, NEW x2, NEW q \in Seq(Pdu), Rising(x, q), x2.rcvd_ack_seq = x.rcvd_ack_seq,
           x2.next_tx_seq \in SeqNum, Dist(x.next_tx_seq, x.rcvd_ack_seq) <= Dist(x2.next_tx_seq, x.rcvd_ack_seq)
    PROVE  Rising(x2, q)
<1>1. \A i \in DOMAIN q : q[i] \in Acks => Dist(q[i].nr, x.rcvd_ack_seq) \in Nat
  BY KindsArePdus, PduNumbers, ViewNumbers, DistNat
<1>2. Dist(x.next_tx_seq, x.rcvd_ack_seq) \in Nat /\ Dist(x2.next_tx_seq, x.rcvd_ack_seq) \in Nat BY ViewNumbers, DistNat
<1>3. ASSUME NEW i \in DOMAIN q, q[i] \in Acks
      PROVE  Dist(q[i].nr, x.rcvd_ack_seq) <= Dist(x2.next_tx_seq, x.rcvd_ack_seq)
  <2>1. Dist(q[i].nr, x.rcvd_ack_seq) <= Dist(x.next_tx_seq, x.rcvd_ack_seq) BY <1>3 DEF Rising
  <2>2. Dist(q[i].nr, x.rcvd_ack_seq) \in Nat BY <1>1, <1>3
  <2> QED BY <2>1, <2>2, <1>2
<1> QED BY <1>3 DEF Rising

(* Only V(S) and V(SA) of x matter. *)
LEMMA RisingSame ==
    ASSUME NEW x, NEW x2, NEW q, Rising(x, q), x2.rcvd_ack_seq = x.rcvd_ack_seq, x2.next_tx_seq = x.next_tx_seq
    PROVE  Rising(x2, q)
BY DEF Rising

(* The numbers depend on what they name. *)
LEMMA NumbersSame ==
    ASSUME NEW x, NEW y, NEW x2, NEW y2, NEW q, Numbers(x, y, q),
           x2.rcvd_ack_seq = x.rcvd_ack_seq, x2.next_tx_seq = x.next_tx_seq, Vs(x2) = Vs(x),
           y2.nrcvd = y.nrcvd, y2.next_rx_seq = y.next_rx_seq, y2.sent_ack_seq = y.sent_ack_seq
    PROVE  Numbers(x2, y2, q)
BY RisingSame DEF Numbers

(* y sends a PDU without N(R). *)
LEMMA NumbersSkip ==
    ASSUME NEW x, NEW y, NEW q \in Seq(Pdu), NEW p, p \notin Acks, Numbers(x, y, q)
    PROVE  Numbers(x, y, Append(q, p))
<1> DEFINE r == Append(q, p)  n == Len(q)
<1>1. /\ n \in Nat /\ DOMAIN q = 1..n /\ DOMAIN r = 1..(n + 1)
      /\ \A i \in 1..n : r[i] = q[i]
      /\ r[n + 1] = p
  BY AppendIs
<1>2. Rising(x, r) BY RisingSkip DEF Numbers
<1> HIDE DEF r, n
<1>3. \A i \in DOMAIN r : r[i] \in Acks => i \in DOMAIN q /\ r[i] = q[i] BY <1>1
<1>4. \A i \in DOMAIN r : r[i] \in Acks => Dist(r[i].nr, x.rcvd_ack_seq) <= Dist(y.sent_ack_seq, x.rcvd_ack_seq)
  BY <1>3 DEF Numbers
<1> QED BY <1>2, <1>4 DEF Numbers, r

(* y acknowledges. *)
LEMMA NumbersAck ==
    ASSUME NEW x \in Views, NEW y \in Views, NEW y2, NEW q \in Seq(Pdu), NEW p \in Acks, Numbers(x, y, q),
           p.nr \in {y.sent_ack_seq, y.next_rx_seq}, y2.sent_ack_seq = p.nr,
           y2.nrcvd = y.nrcvd, y2.next_rx_seq = y.next_rx_seq
    PROVE  Numbers(x, y2, Append(q, p))
<1> DEFINE r == Append(q, p)  n == Len(q)  D(z) == Dist(z, x.rcvd_ack_seq)
<1>1. /\ n \in Nat /\ DOMAIN q = 1..n /\ DOMAIN r = 1..(n + 1)
      /\ \A i \in 1..n : r[i] = q[i]
      /\ r[n + 1] = p
  BY AppendIs
<1>2. /\ D(p.nr) \in Nat /\ D(y.sent_ack_seq) \in Nat /\ D(y.next_rx_seq) \in Nat /\ D(x.next_tx_seq) \in Nat
      /\ \A i \in DOMAIN q : q[i] \in Acks => D(q[i].nr) \in Nat
  BY KindsArePdus, PduNumbers, ViewNumbers, DistNat
<1>3. D(y.sent_ack_seq) <= D(y.next_rx_seq) /\ D(y.next_rx_seq) <= D(x.next_tx_seq) BY DEF Numbers
<1>4. /\ \A i \in DOMAIN q : q[i] \in Acks => D(q[i].nr) <= D(x.next_tx_seq) /\ D(q[i].nr) <= D(y.sent_ack_seq)
      /\ \A i, j \in DOMAIN q : i < j /\ q[i] \in Acks /\ q[j] \in Acks => D(q[i].nr) <= D(q[j].nr)
  BY DEF Numbers, Rising
<1>5. D(y.sent_ack_seq) <= D(p.nr) /\ D(p.nr) <= D(y.next_rx_seq)
  <2>1. CASE p.nr = y.sent_ack_seq BY <2>1, <1>2, <1>3
  <2>2. CASE p.nr = y.next_rx_seq BY <2>2, <1>2, <1>3
  <2> QED BY <2>1, <2>2
<1> HIDE DEF r, n, D
<1>6. \A i \in DOMAIN q : q[i] \in Acks => D(q[i].nr) <= D(p.nr) BY <1>2, <1>4, <1>5
<1>7. D(p.nr) <= D(x.next_tx_seq) /\ D(p.nr) <= D(p.nr) BY <1>2, <1>3, <1>5
<1>8. ASSUME NEW i \in DOMAIN r, r[i] \in Acks PROVE D(r[i].nr) <= D(x.next_tx_seq) /\ D(r[i].nr) <= D(p.nr)
  <2>1. CASE i = n + 1 BY <2>1, <1>1, <1>7
  <2>2. CASE i \in 1..n BY <2>2, <1>1, <1>4, <1>6, <1>8
  <2> QED BY <2>1, <2>2, <1>1
<1>9. ASSUME NEW i \in DOMAIN r, NEW j \in DOMAIN r, i < j, r[i] \in Acks, r[j] \in Acks PROVE D(r[i].nr) <= D(r[j].nr)
  <2>1. i \in 1..n BY <1>1, <1>9
  <2>2. CASE j = n + 1 BY <2>1, <2>2, <1>1, <1>6, <1>9
  <2>3. CASE j \in 1..n BY <2>1, <2>3, <1>1, <1>4, <1>9
  <2> QED BY <2>2, <2>3, <1>1
<1>10. Rising(x, r) BY <1>8, <1>9 DEF Rising, D
<1>11. Dist(x.next_tx_seq, y.next_rx_seq) = Vs(x) - y.nrcvd BY DEF Numbers
<1> QED BY <1>3, <1>5, <1>8, <1>10, <1>11 DEF Numbers, D, r

(* x sends an I PDU. *)
LEMMA NumbersSent ==
    ASSUME NEW x \in Views, NEW x2, NEW y \in Views, NEW q \in Seq(Pdu), Numbers(x, y, q),
           Dist(x.next_tx_seq, x.rcvd_ack_seq) + 1 < LLCP_SEQ_MODULO,
           x2.rcvd_ack_seq = x.rcvd_ack_seq, x2.next_tx_seq = Inc(x.next_tx_seq), Vs(x2) = Vs(x) + 1
    PROVE  Numbers(x2, y, q) /\ Vs(x) >= y.nrcvd
<1> DEFINE D(z) == Dist(z, x.rcvd_ack_seq)
<1>1. /\ x.next_tx_seq \in SeqNum /\ x.rcvd_ack_seq \in SeqNum /\ y.next_rx_seq \in SeqNum /\ y.sent_ack_seq \in SeqNum
      /\ Inc(x.next_tx_seq) \in SeqNum /\ Vs(x) \in Int /\ y.nrcvd \in Nat
  BY ViewNumbers, IncType
<1>2. D(x.next_tx_seq) \in Nat /\ D(y.next_rx_seq) \in Nat /\ Dist(x.next_tx_seq, y.next_rx_seq) \in Nat
  BY <1>1, DistNat
<1>3. D(Inc(x.next_tx_seq)) = D(x.next_tx_seq) + 1 BY <1>1, DistInc
<1>4. D(y.next_rx_seq) <= D(x.next_tx_seq) /\ Dist(x.next_tx_seq, y.next_rx_seq) = Vs(x) - y.nrcvd BY DEF Numbers
<1>5. D(y.next_rx_seq) <= D(Inc(x.next_tx_seq)) /\ D(x.next_tx_seq) <= D(Inc(x.next_tx_seq)) BY <1>2, <1>3, <1>4
<1>6. /\ Dist(x.next_tx_seq, y.next_rx_seq) = D(x.next_tx_seq) - D(y.next_rx_seq)
      /\ Dist(Inc(x.next_tx_seq), y.next_rx_seq) = D(Inc(x.next_tx_seq)) - D(y.next_rx_seq)
  BY <1>1, <1>4, <1>5, DistSplit
<1>7. Rising(x2, q) BY <1>1, <1>5, RisingSent DEF Numbers
<1>8. /\ \A i \in DOMAIN q : q[i] \in Acks => D(q[i].nr) <= D(y.sent_ack_seq)
      /\ D(y.sent_ack_seq) <= D(y.next_rx_seq)
  BY DEF Numbers
<1> HIDE DEF D
<1>9. Dist(Inc(x.next_tx_seq), y.next_rx_seq) = (Vs(x) + 1) - y.nrcvd BY <1>1, <1>2, <1>3, <1>4, <1>6
<1>10. Vs(x) >= y.nrcvd BY <1>1, <1>2, <1>4
<1> QED BY <1>5, <1>7, <1>8, <1>9, <1>10 DEF Numbers, D

(* x reads a PDU. *)
LEMMA NumbersPop ==
    ASSUME NEW x, NEW y, NEW q \in Seq(Pdu), q # <<>>, Numbers(x, y, q) PROVE Numbers(x, y, Tail(q))
<1> DEFINE r == Tail(q)
<1>1. \A i \in DOMAIN r : i + 1 \in DOMAIN q /\ r[i] = q[i + 1] BY TailIs
<1>2. Rising(x, r) BY RisingPop DEF Numbers
<1> HIDE DEF r
<1>3. \A i \in DOMAIN r : r[i] \in Acks => Dist(r[i].nr, x.rcvd_ack_seq) <= Dist(y.sent_ack_seq, x.rcvd_ack_seq)
  BY <1>1 DEF Numbers
<1> QED BY <1>2, <1>3 DEF Numbers, r

(* x reads an acknowledgement. *)
LEMMA NumbersAcked ==
    ASSUME NEW x \in Views, NEW x2, NEW y \in Views, NEW q \in Seq(Pdu), q # <<>>, Head(q) \in Acks,
           Numbers(x, y, q), x2.rcvd_ack_seq = Head(q).nr, x2.next_tx_seq = x.next_tx_seq, Vs(x2) = Vs(x)
    PROVE  Numbers(x2, y, Tail(q))
<1> DEFINE D(z) == Dist(z, x.rcvd_ack_seq)  h == Head(q)  r == Tail(q)
<1>1. /\ Rising(x2, r) /\ D(h.nr) <= D(x.next_tx_seq)
      /\ \A z \in SeqNum : D(h.nr) <= D(z) => Dist(z, h.nr) = D(z) - D(h.nr)
      /\ \A i \in DOMAIN r : r[i] \in Acks => D(h.nr) <= D(r[i].nr)
  BY RisingAcked DEF Numbers
<1>2. 1 \in DOMAIN q /\ h = q[1] /\ (\A i \in DOMAIN r : i + 1 \in DOMAIN q /\ r[i] = q[i + 1]) BY TailIs
<1>3. /\ h.nr \in SeqNum /\ x.next_tx_seq \in SeqNum /\ x.rcvd_ack_seq \in SeqNum
      /\ y.next_rx_seq \in SeqNum /\ y.sent_ack_seq \in SeqNum
      /\ \A i \in DOMAIN r : r[i] \in Acks => r[i].nr \in SeqNum
  BY KindsArePdus, PduNumbers, ViewNumbers, TailIs
<1>4. /\ D(h.nr) <= D(y.sent_ack_seq) /\ D(y.sent_ack_seq) <= D(y.next_rx_seq) /\ D(y.next_rx_seq) <= D(x.next_tx_seq)
      /\ \A i \in DOMAIN r : r[i] \in Acks => D(r[i].nr) <= D(y.sent_ack_seq)
      /\ Dist(x.next_tx_seq, y.next_rx_seq) = Vs(x) - y.nrcvd
  BY <1>2 DEF Numbers
<1>5. \A z \in SeqNum : D(z) \in Nat BY <1>3, DistNat
<1>6. x2.rcvd_ack_seq = h.nr /\ x2.next_tx_seq = x.next_tx_seq /\ Vs(x2) = Vs(x) OBVIOUS
<1> HIDE DEF D, h, r
<1>7. /\ Dist(y.sent_ack_seq, h.nr) = D(y.sent_ack_seq) - D(h.nr)
      /\ Dist(y.next_rx_seq, h.nr) = D(y.next_rx_seq) - D(h.nr)
      /\ Dist(x.next_tx_seq, h.nr) = D(x.next_tx_seq) - D(h.nr)
  <2>1. D(h.nr) <= D(y.next_rx_seq) BY <1>3, <1>4, <1>5
  <2> QED BY <2>1, <1>1, <1>3, <1>4
<1>8. Dist(y.sent_ack_seq, h.nr) <= Dist(y.next_rx_seq, h.nr) /\ Dist(y.next_rx_seq, h.nr) <= Dist(x.next_tx_seq, h.nr)
  BY <1>3, <1>4, <1>5, <1>7
<1>9. ASSUME NEW i \in DOMAIN r, r[i] \in Acks PROVE Dist(r[i].nr, h.nr) <= Dist(y.sent_ack_seq, h.nr)
  <2>1. r[i].nr \in SeqNum /\ D(h.nr) <= D(r[i].nr) /\ D(r[i].nr) <= D(y.sent_ack_seq) BY <1>1, <1>3, <1>4, <1>9
  <2>2. Dist(r[i].nr, h.nr) = D(r[i].nr) - D(h.nr) BY <2>1, <1>1
  <2>3. D(r[i].nr) \in Nat /\ D(h.nr) \in Nat /\ D(y.sent_ack_seq) \in Nat BY <2>1, <1>3, <1>5
  <2> QED BY <2>1, <2>2, <2>3, <1>7
<1>10. Rising(x2, r) BY <1>1
<1> QED BY <1>4, <1>6, <1>8, <1>9, <1>10 DEF Numbers, r

(* y accepts an I PDU. *)
LEMMA NumbersTaken ==
    ASSUME NEW x \in Views, NEW y \in Views, NEW y2, NEW q \in Seq(Pdu), Numbers(x, y, q),
           y.nrcvd + 1 <= Vs(x),
           y2.nrcvd = y.nrcvd + 1, y2.next_rx_seq = Inc(y.next_rx_seq), y2.sent_ack_seq = y.sent_ack_seq
    PROVE  /\ Numbers(x, y2, q)
           /\ Dist(y.next_rx_seq, y.sent_ack_seq) < Dist(x.next_tx_seq, x.rcvd_ack_seq)
<1> DEFINE D(z) == Dist(z, x.rcvd_ack_seq)
<1>1. /\ x.next_tx_seq \in SeqNum /\ x.rcvd_ack_seq \in SeqNum /\ y.next_rx_seq \in SeqNum /\ y.sent_ack_seq \in SeqNum
      /\ Inc(y.next_rx_seq) \in SeqNum /\ Vs(x) \in Int /\ y.nrcvd \in Nat
  BY ViewNumbers, IncType
<1>2. /\ D(x.next_tx_seq) \in Nat /\ D(y.next_rx_seq) \in Nat /\ D(y.sent_ack_seq) \in Nat /\ Dist(x.next_tx_seq, y.next_rx_seq) \in Nat
      /\ D(x.next_tx_seq) < LLCP_SEQ_MODULO
  BY <1>1, DistNat
<1>3. /\ Rising(x, q) /\ D(y.sent_ack_seq) <= D(y.next_rx_seq) /\ D(y.next_rx_seq) <= D(x.next_tx_seq)
      /\ Dist(x.next_tx_seq, y.next_rx_seq) = Vs(x) - y.nrcvd
      /\ \A i \in DOMAIN q : q[i] \in Acks => D(q[i].nr) <= D(y.sent_ack_seq)
  BY DEF Numbers
<1>4. /\ Dist(x.next_tx_seq, y.next_rx_seq) = D(x.next_tx_seq) - D(y.next_rx_seq)
      /\ Dist(y.next_rx_seq, y.sent_ack_seq) = D(y.next_rx_seq) - D(y.sent_ack_seq)
  BY <1>1, <1>3, DistSplit
<1>5. Dist(x.next_tx_seq, y.next_rx_seq) >= 1
  <2> HIDE DEF D
  <2> QED BY <1>1, <1>3
<1>6. D(y.next_rx_seq) + 1 <= D(x.next_tx_seq)
  <2> HIDE DEF D
  <2> QED BY <1>2, <1>4, <1>5
<1>7. D(Inc(y.next_rx_seq)) = D(y.next_rx_seq) + 1
  <2>1. D(y.next_rx_seq) + 1 < LLCP_SEQ_MODULO
    <3> HIDE DEF D
    <3> QED BY <1>2, <1>6, SeqAssumption
  <2> QED BY <2>1, <1>1, DistInc
<1>8. Dist(x.next_tx_seq, Inc(y.next_rx_seq)) = Dist(x.next_tx_seq, y.next_rx_seq) - 1 BY <1>1, <1>5, DistFromInc
<1> HIDE DEF D
<1>9. Dist(x.next_tx_seq, Inc(y.next_rx_seq)) = Vs(x) - (y.nrcvd + 1) BY <1>1, <1>3, <1>8
<1>10. D(y.sent_ack_seq) <= D(Inc(y.next_rx_seq)) /\ D(Inc(y.next_rx_seq)) <= D(x.next_tx_seq) BY <1>2, <1>3, <1>6, <1>7
<1>11. Dist(y.next_rx_seq, y.sent_ack_seq) < D(x.next_tx_seq) BY <1>2, <1>3, <1>4, <1>6
<1> QED BY <1>3, <1>9, <1>10, <1>11 DEF Numbers, D

(* When x has nothing pending everything it sent has arrived. *)
LEMMA AllArrived ==
    ASSUME NEW x \in Views, NEW y \in Views, NEW q, Numbers(x, y, q), NothingPending(x)
    PROVE  y.nrcvd = x.nsent /\ x.i_xmit_q = <<>> /\ Vs(x) = x.nsent
<1>1. /\ x.next_tx_seq \in SeqNum /\ x.rcvd_ack_seq \in SeqNum /\ y.next_rx_seq \in SeqNum
      /\ y.nrcvd \in Nat /\ x.nsent \in Nat /\ Vs(x) \in Int
  BY ViewNumbers
<1>2. x.i_xmit_q = <<>> /\ x.next_tx_seq = x.rcvd_ack_seq BY DEF NothingPending
<1>3. Dist(x.next_tx_seq, x.rcvd_ack_seq) = 0 BY <1>1, <1>2, DistZero
<1>4. Dist(y.next_rx_seq, x.rcvd_ack_seq) \in Nat /\ Dist(y.next_rx_seq, x.rcvd_ack_seq) <= Dist(x.next_tx_seq, x.rcvd_ack_seq)
  BY <1>1, DistNat DEF Numbers
<1>5. Dist(y.next_rx_seq, x.rcvd_ack_seq) = 0 BY <1>3, <1>4
<1>6. y.next_rx_seq = x.next_tx_seq BY <1>1, <1>2, <1>5, DistZero
<1>7. Dist(x.next_tx_seq, y.next_rx_seq) = 0 BY <1>1, <1>6, DistZero
<1>8. Vs(x) - y.nrcvd = 0 BY <1>7 DEF Numbers
<1>9. Vs(x) = x.nsent BY <1>1, <1>2 DEF Vs
<1> QED BY <1>1, <1>2, <1>8, <1>9

(* The end of the data does not depend on the rest. *)
LEMMA CompleteSame ==
    ASSUME NEW x, NEW y, NEW x2, NEW y2, NEW q, Complete(x, q, y),
           x2.ncomplete = x.ncomplete, x2.nsent = x.nsent, x2.i_xmit_q = x.i_xmit_q, y2.nrcvd = y.nrcvd
    PROVE  Complete(x2, q, y2)
BY DEF Complete

(* x sends a PDU that says nothing of it. *)
LEMMA CompleteSkip ==
    ASSUME NEW x, NEW y, NEW q \in Seq(Pdu), NEW p, Complete(x, q, y),
           p \in Discs /\ p.sdu > 0 => p.sdu = x.nsent /\ y.nrcvd = x.nsent /\ x.i_xmit_q = <<>>
    PROVE  Complete(x, Append(q, p), y)
<1> DEFINE r == Append(q, p)  n == Len(q)
<1>1. /\ n \in Nat /\ DOMAIN q = 1..n /\ DOMAIN r = 1..(n + 1)
      /\ \A i \in 1..n : r[i] = q[i]
      /\ r[n + 1] = p
  BY AppendIs
<1> HIDE DEF r, n
<1>2. ASSUME NEW i \in DOMAIN r, r[i] \in Discs, r[i].sdu > 0
      PROVE  r[i].sdu = x.nsent /\ y.nrcvd = x.nsent /\ x.i_xmit_q = <<>>
  <2>1. CASE i = n + 1 BY <2>1, <1>1, <1>2
  <2>2. CASE i \in 1..n BY <2>2, <1>1, <1>2 DEF Complete
  <2> QED BY <2>1, <2>2, <1>1
<1>3. x.ncomplete <= y.nrcvd BY DEF Complete
<1> QED BY <1>2, <1>3 DEF Complete, r

(* y reads a PDU. *)
LEMMA CompletePop ==
    ASSUME NEW x, NEW y, NEW q \in Seq(Pdu), q # <<>>, Complete(x, q, y)
    PROVE  /\ Complete(x, Tail(q), y)
           /\ Head(q) \in Discs /\ Head(q).sdu > 0 => Head(q).sdu = y.nrcvd
<1> DEFINE r == Tail(q)
<1>1. /\ \A i \in DOMAIN r : i + 1 \in DOMAIN q /\ r[i] = q[i + 1]
      /\ 1 \in DOMAIN q /\ Head(q) = q[1]
  BY TailIs
<1> HIDE DEF r
<1>2. Complete(x, r, y) BY <1>1 DEF Complete
<1> QED BY <1>1, <1>2 DEF Complete, r

(* x sends an SDU that it had, or has a new one, before any DISC. *)
LEMMA CompleteMore ==
    ASSUME NEW x, NEW x2, NEW y, NEW q, Complete(x, q, y), x.i_xmit_q # <<>> \/ ~Some(q, Discs), x2.ncomplete = x.ncomplete
    PROVE  Complete(x2, q, y)
<1>1. \A i \in DOMAIN q : ~(q[i] \in Discs /\ q[i].sdu > 0) BY DEF Complete, Some
<1> QED BY <1>1 DEF Complete

(* y accepts an SDU. *)
LEMMA CompleteTaken ==
    ASSUME NEW x \in Views, NEW y \in Views, NEW y2, NEW q, Complete(x, q, y), y.nrcvd + 1 <= Vs(x), y2.nrcvd = y.nrcvd + 1
    PROVE  Complete(x, q, y2)
<1>1. x.ncomplete \in Nat /\ y.nrcvd \in Nat /\ x.nsent \in Nat /\ Len(x.i_xmit_q) \in Nat BY ViewNumbers
<1>2. y.nrcvd # x.nsent
  <2>1. y.nrcvd + 1 <= x.nsent - Len(x.i_xmit_q) BY DEF Vs
  <2> QED BY <1>1, <2>1
<1>3. \A i \in DOMAIN q : ~(q[i] \in Discs /\ q[i].sdu > 0) BY <1>2 DEF Complete
<1>4. x.ncomplete <= y2.nrcvd BY <1>1 DEF Complete
<1> QED BY <1>3, <1>4 DEF Complete

(* The upper layer of x is told that everything has arrived. *)
LEMMA CompleteDone ==
    ASSUME NEW x \in Views, NEW x2, NEW y \in Views, NEW q, NEW qy, Complete(x, q, y), Numbers(x, y, qy), NothingPending(x),
           x2.ncomplete = x.nsent, x2.nsent = x.nsent, x2.i_xmit_q = x.i_xmit_q
    PROVE  Complete(x2, q, y)
<1>1. y.nrcvd = x.nsent BY AllArrived
<1>2. x.nsent \in Nat BY ViewNumbers
<1> QED BY <1>1, <1>2 DEF Complete

-----------------------------------------------------------------------------
(* The steps of a device towards its stream, as its view sees them.        *)

(* It acknowledges with p, an RR or RNR. *)
Acked(v, p, v2) ==
    /\ v.state = "CONNECTED"
    /\ p \in Acks /\ p \notin Infos /\ p.ep = v.ep /\ p.nr \in {v.sent_ack_seq, v.next_rx_seq}
    /\ v2 = [v EXCEPT !.sent_ack_seq = p.nr, !.last_nr = p.nr]
(* It sends p, the I PDU of its next SDU. *)
Informed(v, p, v2) ==
    /\ v.i_xmit_q # <<>> /\ Dist(v.next_tx_seq, v.rcvd_ack_seq) < v.remote_rw
    /\ p \in Infos /\ p.ep = v.ep /\ p.nr \in {v.sent_ack_seq, v.next_rx_seq}
    /\ p.ns = v.next_tx_seq /\ p.sdu = Head(v.i_xmit_q)
    /\ v2 = [v EXCEPT !.i_xmit_q = Tail(@), !.next_tx_seq = Inc(@), !.sent_ack_seq = p.nr, !.last_nr = p.nr]
(* It asks for the end of the connection with p, a DISC. *)
Disconnects(v, p, v2) ==
    /\ v.state = "CONNECTED"
    /\ p \in Discs /\ p.ep = v.ep /\ p.sdu = IF NothingPending(v) THEN v.nsent ELSE 0
    /\ v2 = [v EXCEPT !.state = "W4_REMOTE_DM"]
(* Its upper layer hears that everything has arrived, or has a new SDU. *)
Completed(v, v2) == NothingPending(v) /\ v2 = [v EXCEPT !.ncomplete = v.nsent]
Queued(v, v2) == v.state = "CONNECTED" /\ v2 = [v EXCEPT !.i_xmit_q = Append(@, v.nsent + 1), !.nsent = @ + 1]

(* The parts of a view that an acknowledgement leaves. *)
LEMMA AckedIs ==
    ASSUME NEW v \in Views, NEW p, NEW v2, Acked(v, p, v2)
    PROVE  /\ v2 \in Views /\ v2.state = v.state /\ v2.ep = v.ep /\ v2.local_rw = v.local_rw /\ v2.remote_rw = v.remote_rw
           /\ v2.next_tx_seq = v.next_tx_seq /\ v2.rcvd_ack_seq = v.rcvd_ack_seq /\ v2.next_rx_seq = v.next_rx_seq
           /\ v2.i_xmit_q = v.i_xmit_q /\ v2.nsent = v.nsent /\ v2.nrcvd = v.nrcvd /\ v2.ncomplete = v.ncomplete
           /\ v2.sent_ack_seq = p.nr /\ v2.last_nr = p.nr /\ Vs(v2) = Vs(v)
<1>1. p.nr \in SeqNum BY KindsArePdus, PduNumbers DEF Acked
<1>2. v2 = [v EXCEPT !.sent_ack_seq = p.nr, !.last_nr = p.nr] BY DEF Acked
<1>3. v2 \in Views BY <1>1, <1>2 DEF Views
<1> QED BY <1>2, <1>3 DEF Views, Vs

(* The parts that an I PDU leaves. *)
LEMMA InformedIs ==
    ASSUME NEW v \in Views, Local(v), NEW p, NEW v2, Informed(v, p, v2)
    PROVE  /\ v2 \in Views /\ v2.state = v.state /\ v2.ep = v.ep /\ v2.local_rw = v.local_rw /\ v2.remote_rw = v.remote_rw
           /\ v2.next_tx_seq = Inc(v.next_tx_seq) /\ v2.rcvd_ack_seq = v.rcvd_ack_seq /\ v2.next_rx_seq = v.next_rx_seq
           /\ v2.nsent = v.nsent /\ v2.nrcvd = v.nrcvd /\ v2.ncomplete = v.ncomplete
           /\ v2.sent_ack_seq = p.nr /\ v2.last_nr = p.nr
           /\ Vs(v2) = Vs(v) + 1 /\ p.sdu = Vs(v) + 1 /\ Open(v) /\ Open(v2)
           /\ Dist(v.next_tx_seq, v.rcvd_ack_seq) + 1 < LLCP_SEQ_MODULO
           /\ Dist(v2.next_tx_seq, v2.rcvd_ack_seq) = Dist(v.next_tx_seq, v.rcvd_ack_seq) + 1
           /\ Local(v2)
<1> DEFINE q == v.i_xmit_q
<1>1. p.nr \in SeqNum BY KindsArePdus, PduNumbers DEF Informed
<1>2. v2 = [v EXCEPT !.i_xmit_q = Tail(q), !.next_tx_seq = Inc(v.next_tx_seq), !.sent_ack_seq = p.nr, !.last_nr = p.nr]
  BY DEF Informed
<1>3. /\ q \in Seq(Nat) /\ q # <<>> /\ v.next_tx_seq \in SeqNum /\ v.rcvd_ack_seq \in SeqNum /\ v.remote_rw \in SeqNum
      /\ v.nsent \in Nat
  BY ViewNumbers DEF Informed
<1>4. Tail(q) \in Seq(Nat) /\ Inc(v.next_tx_seq) \in SeqNum BY <1>3, IncType
<1>5. v2 \in Views
  <2> HIDE DEF q
  <2> QED BY <1>1, <1>2, <1>4 DEF Views
<1>6. /\ v2.state = v.state /\ v2.ep = v.ep /\ v2.local_rw = v.local_rw /\ v2.remote_rw = v.remote_rw
      /\ v2.next_tx_seq = Inc(v.next_tx_seq) /\ v2.rcvd_ack_seq = v.rcvd_ack_seq /\ v2.next_rx_seq = v.next_rx_seq
      /\ v2.nsent = v.nsent /\ v2.nrcvd = v.nrcvd /\ v2.ncomplete = v.ncomplete
      /\ v2.sent_ack_seq = p.nr /\ v2.last_nr = p.nr /\ v2.i_xmit_q = Tail(q)
  BY <1>2 DEF Views
<1>7. /\ DOMAIN q = 1..Len(q) /\ Len(q) \in Nat /\ Len(q) >= 1 /\ Len(Tail(q)) = Len(q) - 1
      /\ DOMAIN Tail(q) = 1..(Len(q) - 1) /\ (\A i \in DOMAIN Tail(q) : Tail(q)[i] = q[i + 1])
      /\ Head(q) = q[1]
  BY <1>3
<1>8. Vs(v2) = Vs(v) + 1 BY <1>3, <1>6, <1>7 DEF Vs
<1>9. q[1] = Vs(v) + 1 BY <1>7 DEF Local
<1>10. p.sdu = Vs(v) + 1 BY <1>7, <1>9 DEF Informed
<1>11. Open(v) BY <1>3 DEF Local, Blank
<1>12. Open(v2) BY <1>6, <1>11 DEF Open
<1>13. Dist(v.next_tx_seq, v.rcvd_ack_seq) < v.remote_rw BY DEF Informed
<1>14. Dist(v.next_tx_seq, v.rcvd_ack_seq) \in Nat BY <1>3, DistNat
<1>15. Dist(v.next_tx_seq, v.rcvd_ack_seq) + 1 < LLCP_SEQ_MODULO BY <1>3, <1>13, <1>14, SeqAssumption DEF SeqNum
<1>16. Dist(Inc(v.next_tx_seq), v.rcvd_ack_seq) = Dist(v.next_tx_seq, v.rcvd_ack_seq) + 1 BY <1>3, <1>15, DistInc
<1>17. Dist(v2.next_tx_seq, v2.rcvd_ack_seq) <= v2.remote_rw BY <1>3, <1>6, <1>13, <1>14, <1>16 DEF SeqNum
<1>18. \A i \in DOMAIN v2.i_xmit_q : v2.i_xmit_q[i] = Vs(v2) + i
  <2> SUFFICES ASSUME NEW i \in 1..(Len(q) - 1) PROVE Tail(q)[i] = Vs(v2) + i BY <1>6, <1>7
  <2>1. i + 1 \in DOMAIN q BY <1>7
  <2>2. q[i + 1] = Vs(v) + (i + 1) BY <2>1 DEF Local
  <2>3. Vs(v) \in Int BY ViewNumbers
  <2> QED BY <2>2, <2>3, <1>7, <1>8
<1>19. Len(v2.i_xmit_q) <= v2.nsent BY <1>3, <1>6, <1>7 DEF Local
<1>20. Local(v2) BY <1>12, <1>17, <1>18, <1>19 DEF Local
<1> QED BY <1>5, <1>6, <1>8, <1>10, <1>11, <1>12, <1>15, <1>16, <1>20

(* The parts that a DISC leaves. *)
LEMMA DisconnectsIs ==
    ASSUME NEW v \in Views, NEW p, NEW v2, Disconnects(v, p, v2)
    PROVE  /\ v2 \in Views /\ v2.state = "W4_REMOTE_DM" /\ v2.ep = v.ep /\ v2.local_rw = v.local_rw /\ v2.remote_rw = v.remote_rw
           /\ v2.next_tx_seq = v.next_tx_seq /\ v2.rcvd_ack_seq = v.rcvd_ack_seq /\ v2.next_rx_seq = v.next_rx_seq
           /\ v2.i_xmit_q = v.i_xmit_q /\ v2.nsent = v.nsent /\ v2.nrcvd = v.nrcvd /\ v2.ncomplete = v.ncomplete
           /\ v2.sent_ack_seq = v.sent_ack_seq /\ v2.last_nr = v.last_nr /\ Vs(v2) = Vs(v)
<1>1. v2 = [v EXCEPT !.state = "W4_REMOTE_DM"] BY DEF Disconnects
<1>2. v2 \in Views BY <1>1 DEF Views, DLC_STATE
<1> QED BY <1>1, <1>2 DEF Views, Vs

(* The parts that TX_COMPLETE leaves. *)
LEMMA CompletedIs ==
    ASSUME NEW v \in Views, NEW v2, Completed(v, v2)
    PROVE  /\ v2 \in Views /\ v2.state = v.state /\ v2.ep = v.ep /\ v2.local_rw = v.local_rw /\ v2.remote_rw = v.remote_rw
           /\ v2.next_tx_seq = v.next_tx_seq /\ v2.rcvd_ack_seq = v.rcvd_ack_seq /\ v2.next_rx_seq = v.next_rx_seq
           /\ v2.i_xmit_q = v.i_xmit_q /\ v2.nsent = v.nsent /\ v2.nrcvd = v.nrcvd /\ v2.ncomplete = v.nsent
           /\ v2.sent_ack_seq = v.sent_ack_seq /\ v2.last_nr = v.last_nr /\ Vs(v2) = Vs(v)
<1>1. v2 = [v EXCEPT !.ncomplete = v.nsent] BY DEF Completed
<1>2. v2 \in Views BY <1>1, ViewNumbers DEF Views
<1> QED BY <1>1, <1>2 DEF Views, Vs

(* The parts that a new SDU leaves. *)
LEMMA QueuedIs ==
    ASSUME NEW v \in Views, Local(v), NEW v2, Queued(v, v2)
    PROVE  /\ v2 \in Views /\ v2.state = v.state /\ v2.ep = v.ep /\ v2.local_rw = v.local_rw /\ v2.remote_rw = v.remote_rw
           /\ v2.next_tx_seq = v.next_tx_seq /\ v2.rcvd_ack_seq = v.rcvd_ack_seq /\ v2.next_rx_seq = v.next_rx_seq
           /\ v2.nsent = v.nsent + 1 /\ v2.nrcvd = v.nrcvd /\ v2.ncomplete = v.ncomplete
           /\ v2.sent_ack_seq = v.sent_ack_seq /\ v2.last_nr = v.last_nr /\ Vs(v2) = Vs(v)
           /\ Local(v2)
<1> DEFINE q == v.i_xmit_q  r == Append(q, v.nsent + 1)
<1>1. v2 = [v EXCEPT !.i_xmit_q = r, !.nsent = v.nsent + 1] /\ v.state = "CONNECTED" BY DEF Queued
<1>2. q \in Seq(Nat) /\ v.nsent \in Nat BY ViewNumbers
<1>3. r \in Seq(Nat) /\ v.nsent + 1 \in Nat BY <1>2
<1>4. v2 \in Views
  <2> HIDE DEF r
  <2> QED BY <1>1, <1>3 DEF Views
<1>5. /\ v2.state = v.state /\ v2.ep = v.ep /\ v2.local_rw = v.local_rw /\ v2.remote_rw = v.remote_rw
      /\ v2.next_tx_seq = v.next_tx_seq /\ v2.rcvd_ack_seq = v.rcvd_ack_seq /\ v2.next_rx_seq = v.next_rx_seq
      /\ v2.nsent = v.nsent + 1 /\ v2.nrcvd = v.nrcvd /\ v2.ncomplete = v.ncomplete
      /\ v2.sent_ack_seq = v.sent_ack_seq /\ v2.last_nr = v.last_nr /\ v2.i_xmit_q = r
  BY <1>1 DEF Views
<1>6. /\ DOMAIN q = 1..Len(q) /\ Len(q) \in Nat /\ Len(r) = Len(q) + 1 /\ DOMAIN r = 1..(Len(q) + 1)
      /\ (\A i \in DOMAIN q : r[i] = q[i]) /\ r[Len(q) + 1] = v.nsent + 1
  BY <1>2
<1>7. Vs(v2) = Vs(v) BY <1>2, <1>5, <1>6 DEF Vs
<1>8. ASSUME NEW i \in 1..(Len(q) + 1) PROVE r[i] = Vs(v) + i
  <2>1. CASE i = Len(q) + 1 BY <2>1, <1>2, <1>6 DEF Vs
  <2>2. CASE i \in 1..Len(q) BY <2>2, <1>6 DEF Local
  <2> QED BY <2>1, <2>2, <1>6
<1>9. Len(v2.i_xmit_q) <= v2.nsent BY <1>2, <1>5, <1>6 DEF Local
<1>10. Open(v2) BY <1>1, <1>5 DEF Open
<1>11. \A i \in DOMAIN v2.i_xmit_q : v2.i_xmit_q[i] = Vs(v2) + i BY <1>5, <1>6, <1>7, <1>8
<1>12. Dist(v2.next_tx_seq, v2.rcvd_ack_seq) <= v2.remote_rw BY <1>5 DEF Local
<1>13. Local(v2) BY <1>9, <1>10, <1>11, <1>12 DEF Local
<1> QED BY <1>4, <1>5, <1>7, <1>13

-----------------------------------------------------------------------------
(* The kinds of PDUs exclude each other. *)
LEMMA DmIs ==
    ASSUME NEW p \in Dms
    PROVE  /\ p \in Pdu /\ p \in Plain /\ p \in Late
           /\ p \notin Connects /\ p \notin Confirms /\ p \notin Discs /\ p \notin Infos /\ p \notin Acks /\ p \notin Resps
BY DEF Connects, Confirms, Discs, Infos, Acks, Resps, Dms, Plain, Late

(* A DM that confirms a DISC is of no other kind. *)
LEMMA RespIs ==
    ASSUME NEW p \in Resps
    PROVE  /\ p \in Pdu /\ p \notin Plain /\ p \notin Late /\ p \notin Dms
           /\ p \notin Connects /\ p \notin Confirms /\ p \notin Discs /\ p \notin Infos /\ p \notin Acks
BY DEF Connects, Confirms, Discs, Infos, Acks, Resps, Dms, Plain, Late

(* An I PDU is one with an N(R), and may be late. *)
LEMMA InfoIs ==
    ASSUME NEW p \in Infos
    PROVE  /\ p \in Pdu /\ p \in Acks /\ p \in Late /\ p \notin Plain /\ p \notin Dms
           /\ p \notin Connects /\ p \notin Confirms /\ p \notin Discs /\ p \notin Resps
BY DEF Connects, Confirms, Discs, Infos, Acks, Resps, Dms, Plain, Late

(* A PDU with an N(R) is none of a connection that opens or ends. *)
LEMMA AckIs ==
    ASSUME NEW p \in Acks
    PROVE  /\ p \in Pdu /\ p \notin Plain /\ p \notin Dms
           /\ p \notin Connects /\ p \notin Confirms /\ p \notin Discs /\ p \notin Resps
           /\ p \notin Infos => p \notin Late
BY DEF Connects, Confirms, Discs, Infos, Acks, Resps, Dms, Plain, Late

(* A DISC is of no other kind. *)
LEMMA DiscIs ==
    ASSUME NEW p \in Discs
    PROVE  /\ p \in Pdu /\ p \notin Plain /\ p \notin Dms /\ p \notin Late
           /\ p \notin Connects /\ p \notin Confirms /\ p \notin Infos /\ p \notin Acks /\ p \notin Resps
BY DEF Connects, Confirms, Discs, Infos, Acks, Resps, Dms, Plain, Late

(* A CONNECT is of no other kind, and plain. *)
LEMMA ConnectIs ==
    ASSUME NEW p \in Connects
    PROVE  /\ p \in Pdu /\ p \in Plain /\ p \notin Dms /\ p \notin Late
           /\ p \notin Discs /\ p \notin Confirms /\ p \notin Infos /\ p \notin Acks /\ p \notin Resps
BY DEF Connects, Confirms, Discs, Infos, Acks, Resps, Dms, Plain, Late

(* A CC is of no other kind. *)
LEMMA ConfirmIs ==
    ASSUME NEW p \in Confirms
    PROVE  /\ p \in Pdu /\ p \notin Plain /\ p \notin Dms /\ p \notin Late
           /\ p \notin Discs /\ p \notin Connects /\ p \notin Infos /\ p \notin Acks /\ p \notin Resps
BY DEF Connects, Confirms, Discs, Infos, Acks, Resps, Dms, Plain, Late

(* The PDUs of a connection, read both ways. *)
LEMMA OfIs ==
    ASSUME NEW e, NEW p
    PROVE  /\ p \in Of(e) => p \in Pdu /\ p.ep = e /\ (p \in Acks \/ p \in Discs)
           /\ p \in Acks /\ p.ep = e => p \in Of(e)
           /\ p \in Discs /\ p.ep = e => p \in Of(e)
BY KindsArePdus DEF Of

(* The unions of kinds, read as alternatives. *)
LEMMA UnionIs ==
    ASSUME NEW p
    PROVE  /\ p \in Late <=> p \in Infos \/ p \in Dms
           /\ p \in Plain <=> p \in Connects \/ p \in Dms
           /\ p \in Infos \cup Plain <=> p \in Infos \/ p \in Plain
BY DEF Late, Plain

-----------------------------------------------------------------------------
(* Both directions of a connection. *)
Flows(x, qx, y, qy) == Flow(x, qx, y, qy) /\ Flow(y, qy, x, qx)

(* x sends a PDU without numbers. *)
LEMMA FlowsTalk ==
    ASSUME NEW x, NEW y, NEW qx \in Seq(Pdu), NEW qy, NEW p, p \notin Acks, p \notin Discs, Flows(x, qx, y, qy)
    PROVE  Flows(x, Append(qx, p), y, qy)
BY NumbersSkip, CompleteSkip DEF Flows, Flow

(* x acknowledges. *)
LEMMA FlowsAcked ==
    ASSUME NEW x \in Views, NEW y \in Views, NEW qx \in Seq(Pdu), NEW qy, NEW p, NEW x2, Acked(x, p, x2), Flows(x, qx, y, qy)
    PROVE  Flows(x2, Append(qx, p), y, qy)
<1> DEFINE r == Append(qx, p)
<1>1. p \in Acks /\ p \notin Discs /\ p.nr \in {x.sent_ack_seq, x.next_rx_seq} BY AckIs DEF Acked
<1>2. /\ x2.next_tx_seq = x.next_tx_seq /\ x2.rcvd_ack_seq = x.rcvd_ack_seq /\ x2.next_rx_seq = x.next_rx_seq
      /\ x2.i_xmit_q = x.i_xmit_q /\ x2.nsent = x.nsent /\ x2.nrcvd = x.nrcvd /\ x2.ncomplete = x.ncomplete
      /\ x2.sent_ack_seq = p.nr /\ Vs(x2) = Vs(x)
  BY AckedIs
<1>3. Numbers(x, y, qy) /\ Numbers(y, x, qx) /\ Complete(x, qx, y) /\ Complete(y, qy, x) BY DEF Flows, Flow
<1>4. Numbers(x2, y, qy) BY <1>2, <1>3, NumbersSame
<1>5. Numbers(y, x2, r) BY <1>1, <1>2, <1>3, NumbersAck
<1>6. Complete(x, r, y) BY <1>1, <1>3, CompleteSkip
<1> HIDE DEF r
<1>7. Complete(x2, r, y) BY <1>2, <1>6, CompleteSame
<1>8. Complete(y, qy, x2) BY <1>2, <1>3, CompleteSame
<1> QED BY <1>4, <1>5, <1>7, <1>8 DEF Flows, Flow, r

(* x sends the next SDU. *)
LEMMA FlowsInformed ==
    ASSUME NEW x \in Views, Local(x), NEW y \in Views, NEW qx \in Seq(Pdu), NEW qy \in Seq(Pdu), NEW p, NEW x2,
           Informed(x, p, x2), Flows(x, qx, y, qy)
    PROVE  /\ Flows(x2, Append(qx, p), y, qy)
           /\ Order(x, qx, y) => Order(x2, Append(qx, p), y)
<1> DEFINE r == Append(qx, p)
<1>1. /\ p \in Infos /\ p \in Acks /\ p \notin Discs /\ p.nr \in {x.sent_ack_seq, x.next_rx_seq} /\ x.i_xmit_q # <<>>
      /\ p.ns = x.next_tx_seq
  BY InfoIs DEF Informed
<1>2. /\ x2.next_tx_seq = Inc(x.next_tx_seq) /\ x2.rcvd_ack_seq = x.rcvd_ack_seq /\ x2.next_rx_seq = x.next_rx_seq
      /\ x2.nsent = x.nsent /\ x2.nrcvd = x.nrcvd /\ x2.ncomplete = x.ncomplete
      /\ x2.sent_ack_seq = p.nr /\ Vs(x2) = Vs(x) + 1 /\ p.sdu = Vs(x) + 1 /\ x2 \in Views
      /\ Dist(x.next_tx_seq, x.rcvd_ack_seq) + 1 < LLCP_SEQ_MODULO
  BY InformedIs
<1>3. Numbers(x, y, qy) /\ Numbers(y, x, qx) /\ Complete(x, qx, y) /\ Complete(y, qy, x) BY DEF Flows, Flow
<1>4. Numbers(x2, y, qy) /\ Vs(x) >= y.nrcvd BY <1>2, <1>3, NumbersSent
<1>5. Numbers(y, x2, r) BY <1>1, <1>2, <1>3, NumbersAck
<1>6. Complete(x, r, y) BY <1>1, <1>3, CompleteSkip
<1>7. Dist(p.ns, y.next_rx_seq) = Vs(x) - y.nrcvd BY <1>1, <1>3 DEF Numbers
<1>8. Order(x, qx, y) => Order(x2, r, y) BY <1>1, <1>2, <1>4, <1>7, OrderInfo
<1> HIDE DEF r
<1>9. Complete(x2, r, y) BY <1>1, <1>2, <1>6, CompleteMore
<1>10. Complete(y, qy, x2) BY <1>2, <1>3, CompleteSame
<1> QED BY <1>4, <1>5, <1>8, <1>9, <1>10 DEF Flows, Flow, r

(* x asks for the end. *)
LEMMA FlowsDisconnects ==
    ASSUME NEW x \in Views, NEW y \in Views, NEW qx \in Seq(Pdu), NEW qy, NEW p, NEW x2,
           Disconnects(x, p, x2), Flows(x, qx, y, qy)
    PROVE  Flows(x2, Append(qx, p), y, qy)
<1> DEFINE r == Append(qx, p)
<1>1. p \in Discs /\ p \notin Acks /\ p.sdu = IF NothingPending(x) THEN x.nsent ELSE 0 BY DiscIs DEF Disconnects
<1>2. /\ x2.next_tx_seq = x.next_tx_seq /\ x2.rcvd_ack_seq = x.rcvd_ack_seq /\ x2.next_rx_seq = x.next_rx_seq
      /\ x2.i_xmit_q = x.i_xmit_q /\ x2.nsent = x.nsent /\ x2.nrcvd = x.nrcvd /\ x2.ncomplete = x.ncomplete
      /\ x2.sent_ack_seq = x.sent_ack_seq /\ Vs(x2) = Vs(x)
  BY DisconnectsIs
<1>3. Numbers(x, y, qy) /\ Numbers(y, x, qx) /\ Complete(x, qx, y) /\ Complete(y, qy, x) BY DEF Flows, Flow
<1>4. Numbers(x2, y, qy) BY <1>2, <1>3, NumbersSame
<1>5. Numbers(y, x, r) BY <1>1, <1>3, NumbersSkip
<1>6. p.sdu > 0 => p.sdu = x.nsent /\ y.nrcvd = x.nsent /\ x.i_xmit_q = <<>>
  <2>1. CASE NothingPending(x) BY <2>1, <1>1, <1>3, AllArrived
  <2>2. CASE ~NothingPending(x) BY <2>2, <1>1
  <2> QED BY <2>1, <2>2
<1>7. Complete(x, r, y) BY <1>3, <1>6, CompleteSkip
<1> HIDE DEF r
<1>8. Complete(x2, r, y) BY <1>2, <1>7, CompleteSame
<1>9. Complete(y, qy, x2) BY <1>2, <1>3, CompleteSame
<1>10. Numbers(y, x2, r) BY <1>2, <1>5, NumbersSame
<1> QED BY <1>4, <1>8, <1>9, <1>10 DEF Flows, Flow, r

(* x completes its transmission. *)
LEMMA FlowsCompleted ==
    ASSUME NEW x \in Views, NEW y \in Views, NEW qx, NEW qy, NEW x2, Completed(x, x2), Flows(x, qx, y, qy)
    PROVE  Flows(x2, qx, y, qy)
<1>1. NothingPending(x) BY DEF Completed
<1>2. /\ x2.next_tx_seq = x.next_tx_seq /\ x2.rcvd_ack_seq = x.rcvd_ack_seq /\ x2.next_rx_seq = x.next_rx_seq
      /\ x2.i_xmit_q = x.i_xmit_q /\ x2.nsent = x.nsent /\ x2.nrcvd = x.nrcvd /\ x2.ncomplete = x.nsent
      /\ x2.sent_ack_seq = x.sent_ack_seq /\ Vs(x2) = Vs(x)
  BY CompletedIs
<1>3. Numbers(x, y, qy) /\ Numbers(y, x, qx) /\ Complete(x, qx, y) /\ Complete(y, qy, x) BY DEF Flows, Flow
<1>4. Numbers(x2, y, qy) /\ Numbers(y, x2, qx) BY <1>2, <1>3, NumbersSame
<1>5. Complete(x2, qx, y) BY <1>1, <1>2, <1>3, CompleteDone
<1>6. Complete(y, qy, x2) BY <1>2, <1>3, CompleteSame
<1> QED BY <1>4, <1>5, <1>6 DEF Flows, Flow

(* x has a new SDU, and has not asked for the end. *)
LEMMA FlowsQueued ==
    ASSUME NEW x \in Views, Local(x), NEW y \in Views, NEW qx, NEW qy, NEW x2, Queued(x, x2), Flows(x, qx, y, qy),
           ~Some(qx, Discs)
    PROVE  Flows(x2, qx, y, qy)
<1>2. /\ x2.next_tx_seq = x.next_tx_seq /\ x2.rcvd_ack_seq = x.rcvd_ack_seq /\ x2.next_rx_seq = x.next_rx_seq
      /\ x2.nrcvd = x.nrcvd /\ x2.ncomplete = x.ncomplete
      /\ x2.sent_ack_seq = x.sent_ack_seq /\ Vs(x2) = Vs(x)
  BY QueuedIs
<1>3. Numbers(x, y, qy) /\ Numbers(y, x, qx) /\ Complete(x, qx, y) /\ Complete(y, qy, x) BY DEF Flows, Flow
<1>4. Numbers(x2, y, qy) /\ Numbers(y, x2, qx) BY <1>2, <1>3, NumbersSame
<1>5. Complete(x2, qx, y) BY <1>2, <1>3, CompleteMore
<1>6. Complete(y, qy, x2) BY <1>2, <1>3, CompleteSame
<1> QED BY <1>4, <1>5, <1>6 DEF Flows, Flow

(* The flows do not depend on the rest of a view. *)
LEMMA FlowsSame ==
    ASSUME NEW x, NEW y, NEW qx, NEW qy, NEW x2, Flows(x, qx, y, qy),
           x2.next_tx_seq = x.next_tx_seq, x2.rcvd_ack_seq = x.rcvd_ack_seq, x2.next_rx_seq = x.next_rx_seq,
           x2.i_xmit_q = x.i_xmit_q, x2.nsent = x.nsent, x2.nrcvd = x.nrcvd, x2.ncomplete = x.ncomplete,
           x2.sent_ack_seq = x.sent_ack_seq
    PROVE  Flows(x2, qx, y, qy)
<1>1. Vs(x2) = Vs(x) BY DEF Vs
<1> QED BY <1>1, NumbersSame, CompleteSame DEF Flows, Flow

(* They can be seen from the other side. *)
LEMMA FlowsTurn == ASSUME NEW x, NEW y, NEW qx, NEW qy PROVE Flows(x, qx, y, qy) <=> Flows(y, qy, x, qx)
BY DEF Flows

(* x reads a PDU. *)
LEMMA FlowsPop ==
    ASSUME NEW x, NEW y, NEW qx, NEW qy \in Seq(Pdu), qy # <<>>, Flows(x, qx, y, qy)
    PROVE  Flows(x, qx, y, Tail(qy))
BY NumbersPop, CompletePop DEF Flows, Flow

(* x reads an acknowledgement. *)
LEMMA FlowsAckRead ==
    ASSUME NEW x \in Views, NEW y \in Views, NEW qx, NEW qy \in Seq(Pdu), qy # <<>>, Head(qy) \in Acks, Flows(x, qx, y, qy), NEW x2,
           x2.rcvd_ack_seq = Head(qy).nr,
           x2.next_tx_seq = x.next_tx_seq, x2.next_rx_seq = x.next_rx_seq,
           x2.i_xmit_q = x.i_xmit_q, x2.nsent = x.nsent, x2.nrcvd = x.nrcvd, x2.ncomplete = x.ncomplete,
           x2.sent_ack_seq = x.sent_ack_seq
    PROVE  /\ Flows(x2, qx, y, Tail(qy))
           /\ Dist(Head(qy).nr, x.rcvd_ack_seq) <= Dist(x.next_tx_seq, x.rcvd_ack_seq)
<1>1. Vs(x2) = Vs(x) BY DEF Vs
<1>2. Numbers(x, y, qy) /\ Numbers(y, x, qx) /\ Complete(x, qx, y) /\ Complete(y, qy, x) BY DEF Flows, Flow
<1>3. Numbers(x2, y, Tail(qy)) BY <1>1, <1>2, NumbersAcked
<1>4. Numbers(y, x2, qx) BY <1>2, NumbersSame
<1>5. Complete(x2, qx, y) BY <1>2, CompleteSame
<1>6. Complete(y, Tail(qy), x) BY <1>2, CompletePop
<1>7. Complete(y, Tail(qy), x2) BY <1>6, CompleteSame
<1>8. Dist(Head(qy).nr, x.rcvd_ack_seq) <= Dist(x.next_tx_seq, x.rcvd_ack_seq) BY <1>2, RisingAcked DEF Numbers
<1> QED BY <1>3, <1>4, <1>5, <1>7, <1>8 DEF Flows, Flow

(* x accepts an I PDU. *)
LEMMA FlowsTaken ==
    ASSUME NEW x \in Views, NEW y \in Views, NEW qx \in Seq(Pdu), NEW qy \in Seq(Pdu), qy # <<>>, Head(qy) \in Infos, Flows(x, qx, y, qy),
           Order(y, qy, x), NEW x2 \in Views,
           x2.rcvd_ack_seq = Head(qy).nr, x2.next_rx_seq = Inc(x.next_rx_seq), x2.nrcvd = x.nrcvd + 1,
           x2.next_tx_seq = x.next_tx_seq, x2.i_xmit_q = x.i_xmit_q, x2.nsent = x.nsent, x2.ncomplete = x.ncomplete,
           x2.sent_ack_seq = x.sent_ack_seq
    PROVE  /\ Flows(x2, qx, y, Tail(qy)) /\ Order(y, Tail(qy), x2)
           /\ Dist(Head(qy).nr, x.rcvd_ack_seq) <= Dist(x.next_tx_seq, x.rcvd_ack_seq)
           /\ Head(qy).ns = x.next_rx_seq /\ Head(qy).sdu = x.nrcvd + 1
           /\ Dist(x.next_rx_seq, x.sent_ack_seq) < Dist(y.next_tx_seq, y.rcvd_ack_seq)
<1>1. Vs(x2) = Vs(x) BY DEF Vs
<1>2. Numbers(x, y, qy) /\ Numbers(y, x, qx) /\ Complete(x, qx, y) /\ Complete(y, qy, x) BY DEF Flows, Flow
<1>3. Head(qy) \in Acks BY InfoIs
<1>4. Head(qy).ns = x.next_rx_seq /\ Head(qy).sdu = x.nrcvd + 1 /\ x.nrcvd + 1 <= Vs(y) BY OrderHead
<1>5. Numbers(x2, y, Tail(qy)) BY <1>1, <1>2, <1>3, NumbersAcked
<1>6. Numbers(y, x2, qx) /\ Dist(x.next_rx_seq, x.sent_ack_seq) < Dist(y.next_tx_seq, y.rcvd_ack_seq)
  BY <1>2, <1>4, NumbersTaken
<1>7. Complete(x2, qx, y) BY <1>2, CompleteSame
<1>8. Complete(y, Tail(qy), x) BY <1>2, CompletePop
<1>9. Complete(y, Tail(qy), x2) BY <1>4, <1>8, CompleteTaken
<1>10. Order(y, Tail(qy), x2) BY OrderTaken
<1>11. Dist(Head(qy).nr, x.rcvd_ack_seq) <= Dist(x.next_tx_seq, x.rcvd_ack_seq) BY <1>2, <1>3, RisingAcked DEF Numbers
<1> QED BY <1>4, <1>5, <1>6, <1>7, <1>9, <1>10, <1>11 DEF Flows, Flow

-----------------------------------------------------------------------------
(* The steps of a device on a stream, in every phase.                      *)

(* A PDU is added to a stream of PDUs. *)
LEMMA Longer ==
    ASSUME NEW q \in Seq(Pdu), NEW p \in Pdu
    PROVE  /\ Append(q, p) \in Seq(Pdu) /\ Append(q, p) # <<>>
           /\ \A S : All(Append(q, p), S) <=> All(q, S) /\ p \in S
           /\ \A S : Some(Append(q, p), S) <=> Some(q, S) \/ p \in S
           /\ \A A, B : After(Append(q, p), A, B) <=> After(q, A, B) /\ (Some(q, A) => p \in B)
<1>1. Append(q, p) \in Seq(Pdu) OBVIOUS
<1>2. Append(q, p) # <<>>
  <2>1. Len(Append(q, p)) = Len(q) + 1 /\ Len(q) \in Nat BY AppendIs
  <2> QED BY <2>1, EmptySeq
<1>3. ASSUME NEW S, NEW A, NEW B
      PROVE  /\ All(Append(q, p), S) <=> All(q, S) /\ p \in S
             /\ Some(Append(q, p), S) <=> Some(q, S) \/ p \in S
             /\ After(Append(q, p), A, B) <=> After(q, A, B) /\ (Some(q, A) => p \in B)
  BY Appended
<1> QED BY <1>1, <1>2, <1>3

(* The first PDU of a stream of PDUs is read. *)
LEMMA Shorter ==
    ASSUME NEW q \in Seq(Pdu), q # <<>>
    PROVE  /\ Tail(q) \in Seq(Pdu) /\ Head(q) \in Pdu
           /\ \A S : All(q, S) <=> Head(q) \in S /\ All(Tail(q), S)
           /\ \A S : Some(q, S) <=> Head(q) \in S \/ Some(Tail(q), S)
           /\ \A A, B : After(q, A, B) <=> After(Tail(q), A, B) /\ (Head(q) \in A => All(Tail(q), B))
<1>1. Tail(q) \in Seq(Pdu) /\ Head(q) \in Pdu BY TailIs
<1>2. ASSUME NEW S, NEW A, NEW B
      PROVE  /\ All(q, S) <=> Head(q) \in S /\ All(Tail(q), S)
             /\ Some(q, S) <=> Head(q) \in S \/ Some(Tail(q), S)
             /\ After(q, A, B) <=> After(Tail(q), A, B) /\ (Head(q) \in A => All(Tail(q), B))
  BY Popped
<1> QED BY <1>1, <1>2

(* What a larger set says less of, and of what is not there. *)
LEMMA AllWeak ==
    ASSUME NEW q, NEW S, NEW U, NEW A, NEW B
    PROVE  /\ All(q, S) /\ S \subseteq U => All(q, U)
           /\ All(q, S) /\ S \cap A = {} => ~Some(q, A)
           /\ All(q, S) /\ S \cap A = {} => All(q, Pdu \ A) \/ ~All(q, Pdu)
           /\ ~Some(q, A) => After(q, A, B)
           /\ All(q, B) => After(q, A, B)
BY DEF All, Some, After

(* The new end of a stream around m. *)
LEMMA MidAppend ==
    ASSUME NEW pre \in Seq(Pdu), NEW m \in Pdu, NEW q \in Seq(Pdu), NEW p \in Pdu
    PROVE  Append(Mid(pre, m, q), p) = Mid(pre, m, Append(q, p))
<1> DEFINE r == pre \o <<m>>
<1>1. r \in Seq(Pdu) OBVIOUS
<1> HIDE DEF r
<1>2. Append(r \o q, p) \in Seq(Pdu) /\ r \o Append(q, p) \in Seq(Pdu) BY <1>1
<1>3. Len(Append(r \o q, p)) = Len(r \o Append(q, p)) BY <1>1
<1>4. \A i \in 1..Len(Append(r \o q, p)) : Append(r \o q, p)[i] = (r \o Append(q, p))[i] BY <1>1
<1>5. Append(r \o q, p) = r \o Append(q, p) BY <1>2, <1>3, <1>4, SeqEqual
<1> QED BY <1>5 DEF r, Mid

(* The new beginning. *)
LEMMA MidTail ==
    ASSUME NEW pre \in Seq(Pdu), NEW m \in Pdu, NEW q \in Seq(Pdu)
    PROVE  /\ Mid(pre, m, q) \in Seq(Pdu) /\ Mid(pre, m, q) # <<>>
           /\ pre = <<>> => Head(Mid(pre, m, q)) = m /\ Tail(Mid(pre, m, q)) = q
           /\ pre # <<>> => /\ Head(Mid(pre, m, q)) = Head(pre)
                            /\ Tail(Mid(pre, m, q)) = Mid(Tail(pre), m, q)
<1> DEFINE r == pre \o <<m>>
<1>1. r \in Seq(Pdu) /\ r # <<>> /\ r \o q \in Seq(Pdu) /\ r \o q # <<>> OBVIOUS
<1>2. Head(r \o q) = Head(r) /\ Tail(r \o q) = Tail(r) \o q
  <2> HIDE DEF r
  <2> QED BY <1>1
<1>3. CASE pre = <<>>
  <2>1. r = <<m>> BY <1>3
  <2>2. Head(r) = m /\ Tail(r) = <<>> BY <2>1
  <2> HIDE DEF r
  <2> QED BY <1>1, <1>2, <1>3, <2>2, ConcatEmptySeq DEF Mid
<1>4. CASE pre # <<>>
  <2>1. Head(r) = Head(pre) /\ Tail(r) = Tail(pre) \o <<m>> BY <1>4
  <2> HIDE DEF r
  <2> QED BY <1>1, <1>2, <1>4, <2>1 DEF r, Mid
<1> QED BY <1>1, <1>3, <1>4 DEF Mid

(* x sends the PDU p and becomes x2. *)
Talks(x, p, x2) ==
    \/ p \in Dms /\ x2 = x
    \/ Acked(x, p, x2) \/ Informed(x, p, x2) \/ Disconnects(x, p, x2)
(* x becomes x2 without sending. *)
Rests(x, x2) == x2 = x \/ Completed(x, x2) \/ Queued(x, x2)
(* What does not change in such a step. *)
Unread(x, x2) ==
    /\ x2 \in Views /\ x2.ep = x.ep /\ x2.local_rw = x.local_rw /\ x2.remote_rw = x.remote_rw
    /\ x2.rcvd_ack_seq = x.rcvd_ack_seq /\ x2.next_rx_seq = x.next_rx_seq /\ x2.nrcvd = x.nrcvd
    /\ x.last_nr = x.sent_ack_seq => x2.last_nr = x2.sent_ack_seq
    /\ x2.state = x.state \/ (x.state = "CONNECTED" /\ x2.state = "W4_REMOTE_DM")

(* Typing, and what the phases need of such a PDU. *)
LEMMA TalksIs ==
    ASSUME NEW x \in Views, Local(x), NEW p, NEW x2, Talks(x, p, x2)
    PROVE  /\ Unread(x, x2) /\ Local(x2)
           /\ p \in Pdu /\ p \notin Connects /\ p \notin Confirms /\ p \notin Resps
           /\ p \in Dms \/ p \in Of(x.ep)
           /\ ~Open(x) => p \in Dms /\ x2 = x
           /\ x.state = "W4_REMOTE_DM" => p \in Late
           /\ p \in Discs => x2.state = "W4_REMOTE_DM"
           /\ x2.state # x.state => p \in Discs
<1>1. CASE p \in Dms /\ x2 = x BY <1>1, DmIs DEF Unread
<1>2. CASE Acked(x, p, x2)
  <2>1. p \in Acks /\ p \notin Infos /\ p.ep = x.ep /\ x.state = "CONNECTED" BY <1>2 DEF Acked
  <2>2. Unread(x, x2) /\ x2.state = x.state BY <1>2, AckedIs DEF Unread
  <2>3. Local(x2) BY <1>2, <2>1, AckedIs DEF Local, Open, Vs
  <2> QED BY <2>1, <2>2, <2>3, AckIs, OfIs DEF Open
<1>3. CASE Informed(x, p, x2)
  <2>1. p \in Infos /\ p.ep = x.ep BY <1>3 DEF Informed
  <2>2. Unread(x, x2) /\ Local(x2) /\ Open(x) /\ x2.state = x.state BY <1>3, InformedIs DEF Unread
  <2> QED BY <2>1, <2>2, InfoIs, OfIs
<1>4. CASE Disconnects(x, p, x2)
  <2>1. p \in Discs /\ p.ep = x.ep /\ x.state = "CONNECTED" BY <1>4 DEF Disconnects
  <2>2. Unread(x, x2) /\ x2.state = "W4_REMOTE_DM" BY <1>4, <2>1, DisconnectsIs DEF Unread
  <2>3. Local(x2) BY <1>4, <2>1, <2>2, DisconnectsIs DEF Local, Open, Vs
  <2> QED BY <2>1, <2>2, <2>3, DiscIs, OfIs DEF Open
<1> QED BY <1>1, <1>2, <1>3, <1>4 DEF Talks

(* The flows and the order of a connection survive it. *)
LEMMA TalksFlows ==
    ASSUME NEW x \in Views, Local(x), NEW y \in Views, NEW qx \in Seq(Pdu), NEW qy \in Seq(Pdu), NEW p, NEW x2,
           Talks(x, p, x2), Flows(x, qx, y, qy)
    PROVE  /\ Flows(x2, Append(qx, p), y, qy)
           /\ Order(x, qx, y) => Order(x2, Append(qx, p), y)
<1>1. CASE p \in Dms /\ x2 = x BY <1>1, DmIs, FlowsTalk, OrderSkip
<1>2. CASE Acked(x, p, x2)
  <2>1. p \notin Infos BY <1>2 DEF Acked
  <2>2. Vs(x2) = Vs(x) BY <1>2, AckedIs
  <2>3. Order(x, qx, y) => Order(x, Append(qx, p), y) BY <2>1, OrderSkip
  <2>4. Order(x, qx, y) => Order(x2, Append(qx, p), y) BY <2>2, <2>3, OrderSame
  <2> QED BY <1>2, <2>4, FlowsAcked
<1>3. CASE Informed(x, p, x2) BY <1>3, FlowsInformed
<1>4. CASE Disconnects(x, p, x2)
  <2>1. p \notin Infos BY <1>4, DiscIs DEF Disconnects
  <2>2. Vs(x2) = Vs(x) BY <1>4, DisconnectsIs
  <2>3. Order(x, qx, y) => Order(x, Append(qx, p), y) BY <2>1, OrderSkip
  <2>4. Order(x, qx, y) => Order(x2, Append(qx, p), y) BY <2>2, <2>3, OrderSame
  <2> QED BY <1>4, <2>4, FlowsDisconnects
<1> QED BY <1>1, <1>2, <1>3, <1>4 DEF Talks

(* Acknowledgements on their way to x stay in range. *)
LEMMA TalksRising ==
    ASSUME NEW x \in Views, Local(x), NEW q \in Seq(Pdu), NEW p, NEW x2, Talks(x, p, x2), Rising(x, q)
    PROVE  Rising(x2, q)
<1>1. CASE p \in Dms /\ x2 = x BY <1>1
<1>2. CASE Acked(x, p, x2) BY <1>2, AckedIs, RisingSame
<1>3. CASE Informed(x, p, x2)
  <2>1. /\ x2.rcvd_ack_seq = x.rcvd_ack_seq /\ x2 \in Views
        /\ Dist(x2.next_tx_seq, x2.rcvd_ack_seq) = Dist(x.next_tx_seq, x.rcvd_ack_seq) + 1
    BY <1>3, InformedIs
  <2>2. Dist(x.next_tx_seq, x.rcvd_ack_seq) \in Nat /\ x2.next_tx_seq \in SeqNum BY <2>1, ViewNumbers, DistNat
  <2>3. Dist(x.next_tx_seq, x.rcvd_ack_seq) <= Dist(x2.next_tx_seq, x.rcvd_ack_seq) BY <2>1, <2>2
  <2> QED BY <2>1, <2>2, <2>3, RisingSent
<1>4. CASE Disconnects(x, p, x2) BY <1>4, DisconnectsIs, RisingSame
<1> QED BY <1>1, <1>2, <1>3, <1>4 DEF Talks

(* The same for a step without a PDU. *)
LEMMA RestsIs ==
    ASSUME NEW x \in Views, Local(x), NEW x2, Rests(x, x2)
    PROVE  /\ Unread(x, x2) /\ Local(x2) /\ x2.state = x.state
           /\ ~Open(x) => x2 = x
           /\ Vs(x2) = Vs(x) /\ x2.next_tx_seq = x.next_tx_seq /\ x2.sent_ack_seq = x.sent_ack_seq
<1>1. CASE x2 = x BY <1>1 DEF Unread
<1>2. CASE Completed(x, x2)
  <2>1. Unread(x, x2) /\ x2.state = x.state BY <1>2, CompletedIs DEF Unread
  <2>2. Vs(x2) = Vs(x) /\ x2.next_tx_seq = x.next_tx_seq /\ x2.sent_ack_seq = x.sent_ack_seq BY <1>2, CompletedIs
  <2>3. ~Open(x) => x2 = x
    <3>1. HAVE ~Open(x)
    <3>2. x.nsent = 0 /\ x.ncomplete = 0 BY <3>1 DEF Local, Blank
    <3>3. x2 = [x EXCEPT !.ncomplete = x.ncomplete] BY <1>2, <3>2 DEF Completed
    <3> QED BY <3>3 DEF Views
  <2>4. Local(x2)
    <3>1. CASE Open(x) BY <1>2, <3>1, CompletedIs DEF Local, Open, Vs
    <3>2. CASE ~Open(x) BY <3>2, <2>3
    <3> QED BY <3>1, <3>2
  <2> QED BY <2>1, <2>2, <2>3, <2>4
<1>3. CASE Queued(x, x2)
  <2>1. Unread(x, x2) /\ Local(x2) BY <1>3, QueuedIs DEF Unread
  <2>2. Vs(x2) = Vs(x) /\ x2.next_tx_seq = x.next_tx_seq /\ x2.sent_ack_seq = x.sent_ack_seq /\ x2.state = x.state
    BY <1>3, QueuedIs
  <2>3. Open(x) BY <1>3 DEF Queued, Open
  <2> QED BY <2>1, <2>2, <2>3
<1> QED BY <1>1, <1>2, <1>3 DEF Rests

(* The flows survive it, the order of the data depends on nothing it changes. *)
LEMMA RestsFlows ==
    ASSUME NEW x \in Views, Local(x), NEW y \in Views, NEW qx, NEW qy, NEW x2, Rests(x, x2), Flows(x, qx, y, qy),
           Some(qx, Discs) => x.state = "W4_REMOTE_DM"
    PROVE  Flows(x2, qx, y, qy) /\ (Order(x, qx, y) => Order(x2, qx, y))
<1>1. Vs(x2) = Vs(x) BY RestsIs
<1>2. Order(x, qx, y) => Order(x2, qx, y) BY <1>1, OrderSame
<1>3. CASE x2 = x BY <1>3
<1>4. CASE Completed(x, x2) BY <1>2, <1>4, FlowsCompleted
<1>5. CASE Queued(x, x2)
  <2>1. ~Some(qx, Discs) BY <1>5 DEF Queued
  <2> QED BY <1>2, <1>5, <2>1, FlowsQueued
<1> QED BY <1>3, <1>4, <1>5 DEF Rests

(* y sees of such a step of x nothing but the stream. *)
LEMMA AlikeOrder ==
    ASSUME NEW x, NEW y, NEW qy, NEW x2, Unread(x, x2), Order(y, qy, x)
    PROVE  Order(y, qy, x2)
BY OrderSame DEF Unread

(* x sends in a connection of both. *)
LEMMA PairTalks ==
    ASSUME NEW x \in Views, Local(x), NEW y \in Views, NEW qx \in Seq(Pdu), NEW qy \in Seq(Pdu), NEW p, NEW x2,
           Talks(x, p, x2), Pair(x, qx, y, qy)
    PROVE  Pair(x2, Append(qx, p), y, qy)
<1> DEFINE r == Append(qx, p)
<1>0. /\ Unread(x, x2) /\ p \in Pdu /\ p \notin Connects /\ p \notin Resps /\ (p \in Dms \/ p \in Of(x.ep))
      /\ x.state = "W4_REMOTE_DM" => p \in Late
      /\ p \in Discs => x2.state = "W4_REMOTE_DM"
      /\ x2.state # x.state => p \in Discs
  BY TalksIs
<1>1. Ending(x, qx, y, qy) /\ Ending(y, qy, x, qx) /\ x.ep = y.ep BY DEF Pair
<1>2. Flows(x, qx, y, qy) BY <1>1 DEF Flows, Ending
<1>3. Flows(x2, r, y, qy) /\ (Order(x, qx, y) => Order(x2, r, y)) BY <1>2, TalksFlows
<1>4. Flow(x2, r, y, qy) /\ Flow(y, qy, x2, r) BY <1>3 DEF Flows
<1>5. /\ r \in Seq(Pdu)
      /\ \A S : All(r, S) <=> All(qx, S) /\ p \in S
      /\ \A S : Some(r, S) <=> Some(qx, S) \/ p \in S
      /\ \A A, B : After(r, A, B) <=> After(qx, A, B) /\ (Some(qx, A) => p \in B)
  BY <1>0, Longer
<1> HIDE DEF r
<1>6. Open(x) /\ Open(x2) /\ x2.ep = x.ep /\ x2.remote_rw = x.remote_rw /\ x2.local_rw = x.local_rw
      /\ (x2.state = x.state \/ (x.state = "CONNECTED" /\ x2.state = "W4_REMOTE_DM"))
  BY <1>0, <1>1 DEF Unread, Ending, Open
<1>7. p \in Discs => p \notin Late BY DiscIs
<1>8. Ending(x2, r, y, qy)
  <2>1. y.state = "CONNECTED" => Order(x2, r, y) BY <1>1, <1>3 DEF Ending
  <2>2. x2.remote_rw = y.local_rw BY <1>1, <1>6 DEF Ending
  <2>3. All(r, Of(x2.ep) \cup Connects \cup Dms \cup Resps) BY <1>0, <1>1, <1>5, <1>6 DEF Ending
  <2>4. After(r, Of(x2.ep) \cup Resps, Pdu \ Connects) BY <1>0, <1>1, <1>5, <1>6 DEF Ending
  <2>5. After(r, Discs, Late \cup Resps) /\ After(r, Resps, Late) BY <1>0, <1>1, <1>5 DEF Ending
  <2>6. Some(r, Discs) => x2.state = "W4_REMOTE_DM" BY <1>0, <1>1, <1>5, <1>6 DEF Ending
  <2>7. Some(r, Resps) => x2.state = "W4_REMOTE_DM" /\ y.state = "W4_REMOTE_DM" /\ ~Some(qy, Discs)
    BY <1>0, <1>1, <1>5, <1>6 DEF Ending
  <2>8. x2.state = "W4_REMOTE_DM" => Some(r, Discs) \/ Some(qy, Resps) BY <1>0, <1>1, <1>5 DEF Ending
  <2> QED BY <1>4, <1>6, <2>1, <2>2, <2>3, <2>4, <2>5, <2>6, <2>7, <2>8 DEF Ending
<1>9. Ending(y, qy, x2, r)
  <2>1. x2.state = "CONNECTED" => Order(y, qy, x2) BY <1>0, <1>1, <1>6, AlikeOrder DEF Ending
  <2>2. y.remote_rw = x2.local_rw BY <1>1, <1>6 DEF Ending
  <2>3. Some(qy, Resps) => y.state = "W4_REMOTE_DM" /\ x2.state = "W4_REMOTE_DM" /\ ~Some(r, Discs)
    BY <1>0, <1>1, <1>5, <1>6, <1>7 DEF Ending
  <2>4. y.state = "W4_REMOTE_DM" => Some(qy, Discs) \/ Some(r, Resps) BY <1>1, <1>5 DEF Ending
  <2> QED BY <1>1, <1>4, <2>1, <2>2, <2>3, <2>4 DEF Ending
<1> QED BY <1>1, <1>6, <1>8, <1>9 DEF Pair, r

(* A connection of both can be seen from the other side. *)
LEMMA PairTurn == ASSUME NEW x, NEW y, NEW qx, NEW qy PROVE Pair(x, qx, y, qy) <=> Pair(y, qy, x, qx)
BY DEF Pair

(* x makes a step without a PDU in it. *)
LEMMA PairRests ==
    ASSUME NEW x \in Views, Local(x), NEW y \in Views, NEW qx \in Seq(Pdu), NEW qy \in Seq(Pdu), NEW x2,
           Rests(x, x2), Pair(x, qx, y, qy)
    PROVE  Pair(x2, qx, y, qy)
<1>0. Unread(x, x2) /\ x2.state = x.state BY RestsIs
<1>1. Ending(x, qx, y, qy) /\ Ending(y, qy, x, qx) /\ x.ep = y.ep BY DEF Pair
<1>2. Flows(x, qx, y, qy) /\ (Some(qx, Discs) => x.state = "W4_REMOTE_DM") BY <1>1 DEF Flows, Ending
<1>3. Flows(x2, qx, y, qy) /\ (Order(x, qx, y) => Order(x2, qx, y)) BY <1>2, RestsFlows
<1>4. Flow(x2, qx, y, qy) /\ Flow(y, qy, x2, qx) BY <1>3 DEF Flows
<1>6. Open(x2) /\ x2.ep = x.ep /\ x2.remote_rw = x.remote_rw /\ x2.local_rw = x.local_rw
  BY <1>0, <1>1 DEF Unread, Ending, Open
<1>7. Order(y, qy, x) => Order(y, qy, x2) BY <1>0, AlikeOrder
<1>8. Ending(x2, qx, y, qy)
  <2>1. y.state = "CONNECTED" => Order(x2, qx, y) BY <1>1, <1>3 DEF Ending
  <2> QED BY <1>0, <1>1, <1>4, <1>6, <2>1 DEF Ending
<1>9. Ending(y, qy, x2, qx)
  <2>1. x2.state = "CONNECTED" => Order(y, qy, x2) BY <1>0, <1>1, <1>7 DEF Ending
  <2> QED BY <1>0, <1>1, <1>4, <1>6, <2>1 DEF Ending
<1> QED BY <1>1, <1>6, <1>8, <1>9 DEF Pair

(* The server sends before the client has the answer, or to a client that gave up. *)
LEMMA LoneTalks ==
    ASSUME NEW w, NEW c \in Views, NEW s \in Views, Local(s), NEW qc \in Seq(Pdu), NEW q \in Seq(Pdu), NEW p, NEW s2,
           Talks(s, p, s2), Lone(w, c, qc, s, q)
    PROVE  Lone(w, c, qc, s2, Append(q, p))
<1> DEFINE r == Append(q, p)
<1>0. /\ Unread(s, s2) /\ p \in Pdu /\ (p \in Dms \/ p \in Of(s.ep))
      /\ p \in Discs => s2.state = "W4_REMOTE_DM"
  BY TalksIs
<1>1. Flows(s, q, c, qc) BY DEF Lone, Flows
<1>2. Flows(s2, r, c, qc) BY <1>1, TalksFlows
<1>3. Flow(s2, r, c, qc) /\ Flow(c, qc, s2, r) BY <1>2 DEF Flows
<1>4. /\ \A S : All(r, S) <=> All(q, S) /\ p \in S
      /\ \A S : Some(r, S) <=> Some(q, S) \/ p \in S
  BY <1>0, Longer
<1> HIDE DEF r
<1>5. /\ Open(s2) /\ s2.ep = s.ep /\ s2.remote_rw = s.remote_rw /\ s2.local_rw = s.local_rw
      /\ s.state = "W4_REMOTE_DM" => s2.state = "W4_REMOTE_DM"
  BY <1>0 DEF Unread, Lone, Open
<1>6. All(r, Of(s2.ep) \cup Dms) BY <1>0, <1>4, <1>5 DEF Lone
<1>7. Some(r, Discs) => s2.state = "W4_REMOTE_DM" BY <1>0, <1>4, <1>5 DEF Lone
<1> QED BY <1>3, <1>5, <1>6, <1>7 DEF Lone, r

(* It makes a step without a PDU. *)
LEMMA LoneRests ==
    ASSUME NEW w, NEW c \in Views, NEW s \in Views, Local(s), NEW qc \in Seq(Pdu), NEW q \in Seq(Pdu), NEW s2,
           Rests(s, s2), Lone(w, c, qc, s, q)
    PROVE  Lone(w, c, qc, s2, q)
<1>0. Unread(s, s2) /\ s2.state = s.state BY RestsIs
<1>1. Flows(s, q, c, qc) /\ (Some(q, Discs) => s.state = "W4_REMOTE_DM") BY DEF Lone, Flows
<1>2. Flows(s2, q, c, qc) BY <1>1, RestsFlows
<1>3. Flow(s2, q, c, qc) /\ Flow(c, qc, s2, q) BY <1>2 DEF Flows
<1>5. Open(s2) /\ s2.ep = s.ep /\ s2.remote_rw = s.remote_rw /\ s2.local_rw = s.local_rw
  BY <1>0 DEF Unread, Lone, Open
<1> QED BY <1>0, <1>3, <1>5 DEF Lone

(* The client that waits, or gave up, sends. *)
LEMMA LoneHears ==
    ASSUME NEW w, NEW c \in Views, NEW s \in Views, NEW qc \in Seq(Pdu), NEW q \in Seq(Pdu), NEW p \in Plain,
           Lone(w, c, qc, s, q)
    PROVE  Lone(w, c, Append(qc, p), s, q)
<1>1. p \in Pdu /\ p \notin Acks /\ p \notin Discs BY DmIs, ConnectIs, UnionIs
<1>2. Flows(c, qc, s, q) BY DEF Lone, Flows
<1>3. Flows(c, Append(qc, p), s, q) BY <1>1, <1>2, FlowsTalk
<1>4. All(Append(qc, p), Plain) BY <1>1, Longer DEF Lone
<1> QED BY <1>3, <1>4 DEF Lone, Flows

(* x sends while y confirms the end. *)
LEMMA ClosingTalks ==
    ASSUME NEW x \in Views, Local(x), NEW y \in Views, NEW qx \in Seq(Pdu), NEW qy, NEW pre, NEW m, NEW q, NEW p, NEW x2,
           Talks(x, p, x2), Closing(x, qx, y, qy, pre, m, q)
    PROVE  Closing(x2, Append(qx, p), y, qy, pre, m, q)
<1>1. Unread(x, x2) /\ p \in Pdu BY TalksIs
<1>2. x.state = "W4_REMOTE_DM" /\ p \in Late BY TalksIs DEF Closing
<1>3. x2.state = "W4_REMOTE_DM" /\ x2.ep = x.ep BY <1>1, <1>2 DEF Unread
<1>4. pre \in Seq(Pdu) BY KindsArePdus, SeqMonotonic, IsASeq DEF Closing
<1>5. Rising(x2, pre) BY <1>4, TalksRising DEF Closing
<1>6. All(Append(qx, p), Late) BY <1>1, <1>2, Longer DEF Closing
<1> QED BY <1>3, <1>5, <1>6 DEF Closing

(* It makes a step without a PDU. *)
LEMMA ClosingRests ==
    ASSUME NEW x \in Views, Local(x), NEW y \in Views, NEW qx \in Seq(Pdu), NEW qy, NEW pre, NEW m, NEW q, NEW x2,
           Rests(x, x2), Closing(x, qx, y, qy, pre, m, q)
    PROVE  Closing(x2, qx, y, qy, pre, m, q)
<1>1. Unread(x, x2) /\ x2.state = x.state /\ x2.next_tx_seq = x.next_tx_seq BY RestsIs
<1>2. Rising(x2, pre) BY <1>1, RisingSame DEF Closing, Unread
<1> QED BY <1>1, <1>2 DEF Closing, Unread

(* y sends what belongs to no connection. *)
LEMMA ClosingHears ==
    ASSUME NEW x \in Views, NEW y \in Views, NEW y2, NEW qx, NEW qy, NEW pre, NEW m, NEW q, NEW p \in Plain,
           ~Open(y2), y2.ep # x.ep, Closing(x, qx, y, qy, pre, m, q)
    PROVE  Closing(x, qx, y2, Append(qy, p), pre, m, Append(q, p))
<1>1. /\ pre \in Seq(Acks \cup Plain) /\ m \in Resps /\ q \in Seq(Infos \cup Plain)
      /\ qy = Mid(pre, m, q) /\ Rising(x, pre) /\ After(q, Connects, Plain)
  BY DEF Closing
<1>2. p \in Pdu /\ m \in Pdu BY <1>1, DmIs, ConnectIs, UnionIs, RespIs
<1>3. pre \in Seq(Pdu) /\ q \in Seq(Pdu) BY <1>1, KindsArePdus, SeqMonotonic
<1>4. Append(qy, p) = Mid(pre, m, Append(q, p)) BY <1>1, <1>2, <1>3, MidAppend
<1>5. Append(q, p) \in Seq(Infos \cup Plain) BY <1>1
<1>6. After(Append(q, p), Connects, Plain) BY <1>1, <1>2, <1>3, Longer
<1> QED BY <1>1, <1>4, <1>5, <1>6 DEF Closing

(* The client's step leaves what is said of the sides. *)
LEMMA SidesClient ==
    ASSUME NEW e \in Nat, NEW w, NEW c \in Views, NEW s \in Views, NEW qc \in Seq(Pdu), NEW qc2, NEW c2,
           Sides(e, w, c, qc, s), Unread(c, c2),
           \A i \in DOMAIN qc2 : qc2[i] \in Connects => \E j \in DOMAIN qc : qc[j] = qc2[i]
    PROVE  Sides(e, w, c2, qc2, s)
<1>1. \A i \in DOMAIN qc2 : qc2[i] \in Connects => qc2[i].rw = w[Client] /\ qc2[i].ep \in 1..e BY DEF Sides
<1> QED BY <1>1 DEF Sides, Unread

(* And the server's. *)
LEMMA SidesServer ==
    ASSUME NEW e \in Nat, NEW w, NEW c \in Views, NEW s \in Views, NEW qc \in Seq(Pdu), NEW s2,
           Sides(e, w, c, qc, s), Unread(s, s2)
    PROVE  Sides(e, w, c, qc, s2)
BY DEF Sides, Unread

(* An added PDU that is no CONNECT brings none. *)
LEMMA NoConnect ==
    ASSUME NEW q \in Seq(Pdu), NEW p, p \notin Connects
    PROVE  \A i \in DOMAIN Append(q, p) : Append(q, p)[i] \in Connects => \E j \in DOMAIN q : q[j] = Append(q, p)[i]
BY AppendIs

(* The client sends, in every phase. *)
LEMMA ClientTalks ==
    ASSUME NEW e \in Nat, NEW w, NEW c \in Views, Local(c), NEW s \in Views, NEW qc \in Seq(Pdu), NEW qs \in Seq(Pdu),
           NEW p, NEW c2, Talks(c, p, c2), Joint(e, w, c, qc, s, qs)
    PROVE  Joint(e, w, c2, Append(qc, p), s, qs)
<1> DEFINE r == Append(qc, p)
<1>0. Unread(c, c2) /\ p \in Pdu /\ p \notin Connects BY TalksIs
<1>1. ~Open(c) => p \in Dms /\ p \in Plain /\ p \in Late /\ c2 = c BY TalksIs, DmIs
<1>2. Sides(e, w, c2, r, s) BY <1>0, NoConnect, SidesClient DEF Joint
<1>3. /\ r \in Seq(Pdu)
      /\ \A S : All(r, S) <=> All(qc, S) /\ p \in S
      /\ \A A, B : After(r, A, B) <=> After(qc, A, B) /\ (Some(qc, A) => p \in B)
  BY <1>0, Longer
<1>4. CASE Nobody(c, qc, s, qs)
  <2>1. ~Open(c) BY <1>4 DEF Nobody
  <2>2. Nobody(c2, r, s, qs) BY <1>1, <1>3, <1>4, <2>1 DEF Nobody
  <2> QED BY <1>2, <2>2 DEF Joint
<1>5. CASE Invited(w, c, qc, s, qs)
  <2>1. ~Open(c) BY <1>5 DEF Invited
  <2>2. Invited(w, c2, r, s, qs) BY <1>1, <1>3, <1>5, <2>1 DEF Invited
  <2> QED BY <1>2, <2>2 DEF Joint
<1>6. CASE Lone(w, c, qc, s, qs)
  <2>1. ~Open(c) BY <1>6 DEF Lone
  <2>2. Lone(w, c2, r, s, qs) BY <1>1, <1>6, <2>1, LoneHears
  <2> QED BY <1>2, <2>2 DEF Joint
<1>7. CASE \E pre, m, q : Confirmed(w, c, qc, s, qs, pre, m, q)
  <2>0. PICK pre, m, q : Confirmed(w, c, qc, s, qs, pre, m, q) BY <1>7
  <2>1. ~Open(c) /\ q \in Seq(Pdu) /\ Lone(w, c, qc, s, q) BY <2>0 DEF Confirmed, Lone
  <2>2. Lone(w, c, r, s, q) BY <1>1, <2>1, LoneHears
  <2>3. Confirmed(w, c2, r, s, qs, pre, m, q) BY <1>1, <2>0, <2>1, <2>2 DEF Confirmed
  <2> QED BY <1>2, <2>3 DEF Joint
<1>8. CASE Joined(c, qc, s, qs)
  <2>1. Pair(c2, r, s, qs) BY <1>8, PairTalks DEF Joined
  <2> QED BY <1>2, <1>8, <2>1 DEF Joint, Joined
<1>9. CASE ServerCloses(c, qc, s, qs)
  <2>1. PICK pre, m, q : Closing(c, qc, s, qs, pre, m, q) BY <1>9 DEF ServerCloses
  <2>2. Closing(c2, r, s, qs, pre, m, q) BY <2>1, ClosingTalks
  <2>3. ServerCloses(c2, r, s, qs) BY <1>9, <2>2 DEF ServerCloses
  <2> QED BY <1>2, <2>3 DEF Joint
<1>10. CASE ClientCloses(c, qc, s, qs)
  <2>1. PICK pre, m, q : Closing(s, qs, c, qc, pre, m, q) BY <1>10 DEF ClientCloses
  <2>2. ~Open(c) /\ c.ep # s.ep BY <2>1 DEF Closing
  <2>3. Closing(s, qs, c, r, pre, m, Append(q, p)) BY <1>1, <2>1, <2>2, ClosingHears
  <2>4. ClientCloses(c2, r, s, qs) BY <1>1, <2>2, <2>3 DEF ClientCloses
  <2> QED BY <1>2, <2>4 DEF Joint
<1> QED BY <1>4, <1>5, <1>6, <1>7, <1>8, <1>9, <1>10 DEF Joint

(* The server sends, in every phase. *)
LEMMA ServerTalks ==
    ASSUME NEW e \in Nat, NEW w, NEW c \in Views, NEW s \in Views, Local(s), NEW qc \in Seq(Pdu), NEW qs \in Seq(Pdu),
           NEW p, NEW s2, Talks(s, p, s2), Joint(e, w, c, qc, s, qs)
    PROVE  Joint(e, w, c, qc, s2, Append(qs, p))
<1> DEFINE r == Append(qs, p)
<1>0. Unread(s, s2) /\ p \in Pdu /\ p \notin Connects BY TalksIs
<1>1. ~Open(s) => p \in Dms /\ p \in Plain /\ p \in Late /\ s2 = s BY TalksIs, DmIs
<1>2. Sides(e, w, c, qc, s2) BY <1>0, SidesServer DEF Joint
<1>3. /\ r \in Seq(Pdu)
      /\ \A S : All(r, S) <=> All(qs, S) /\ p \in S
      /\ \A A, B : After(r, A, B) <=> After(qs, A, B) /\ (Some(qs, A) => p \in B)
  BY <1>0, Longer
<1>4. CASE Nobody(c, qc, s, qs)
  <2>1. ~Open(s) BY <1>4 DEF Nobody, Open
  <2>2. Nobody(c, qc, s2, r) BY <1>1, <1>3, <1>4, <2>1 DEF Nobody
  <2> QED BY <1>2, <2>2 DEF Joint
<1>5. CASE Invited(w, c, qc, s, qs)
  <2>1. ~Open(s) BY <1>5 DEF Invited, Open
  <2>2. Invited(w, c, qc, s2, r) BY <1>1, <1>3, <1>5, <2>1 DEF Invited
  <2> QED BY <1>2, <2>2 DEF Joint
<1>6. CASE Lone(w, c, qc, s, qs)
  <2>1. Lone(w, c, qc, s2, r) BY <1>6, LoneTalks
  <2> QED BY <1>2, <2>1 DEF Joint
<1>7. CASE \E pre, m, q : Confirmed(w, c, qc, s, qs, pre, m, q)
  <2>0. PICK pre, m, q : Confirmed(w, c, qc, s, qs, pre, m, q) BY <1>7
  <2> DEFINE z == Append(q, p)
  <2>1. /\ pre \in Seq(Late) /\ m \in Confirms /\ q \in Seq(Pdu) /\ qs = Mid(pre, m, q)
        /\ m.rw = w[Server] /\ m.ep = s.ep /\ Lone(w, c, qc, s, q) /\ Order(s, q, c) /\ After(q, Discs, Late)
        /\ s.state = "W4_REMOTE_DM" => Some(q, Discs)
    BY <2>0 DEF Confirmed
  <2>2. Lone(w, c, qc, s2, z) BY <2>1, LoneTalks
  <2>3. Flows(s, q, c, qc) /\ (Some(q, Discs) => s.state = "W4_REMOTE_DM") BY <2>1 DEF Lone, Flows
  <2>4. Order(s2, z, c) BY <2>1, <2>3, TalksFlows
  <2>5. pre \in Seq(Pdu) /\ m \in Pdu BY <2>1, KindsArePdus, SeqMonotonic
  <2>6. r = Mid(pre, m, z)
    <3>1. p \in Pdu /\ q \in Seq(Pdu) BY <1>0, <2>1
    <3>2. Append(Mid(pre, m, q), p) = Mid(pre, m, Append(q, p)) BY <2>5, <3>1, MidAppend
    <3> QED BY <2>1, <3>2
  <2>7. z \in Seq(Pdu) /\ After(z, Discs, Late) BY <1>0, <2>1, <2>3, Longer, TalksIs
  <2>8. s2.state = "W4_REMOTE_DM" => Some(z, Discs) BY <1>0, <2>1, Longer, TalksIs
  <2>9. s2.ep = s.ep BY <1>0 DEF Unread
  <2> HIDE DEF z, r
  <2>10. Confirmed(w, c, qc, s2, r, pre, m, z) BY <2>1, <2>2, <2>4, <2>6, <2>7, <2>8, <2>9 DEF Confirmed
  <2> QED BY <1>2, <2>10 DEF Joint, r
<1>8. CASE Joined(c, qc, s, qs)
  <2>1. Pair(s, qs, c, qc) BY <1>8, PairTurn DEF Joined
  <2>2. Pair(s2, r, c, qc) BY <2>1, PairTalks
  <2>3. Pair(c, qc, s2, r) BY <2>2, PairTurn
  <2>4. All(r, Pdu \ Connects) BY <1>0, <1>3, <1>8 DEF Joined
  <2> QED BY <1>2, <2>3, <2>4 DEF Joint, Joined
<1>9. CASE ServerCloses(c, qc, s, qs)
  <2>1. PICK pre, m, q : Closing(c, qc, s, qs, pre, m, q) BY <1>9 DEF ServerCloses
  <2>2. ~Open(s) /\ s.ep # c.ep BY <2>1 DEF Closing
  <2>3. Closing(c, qc, s, r, pre, m, Append(q, p)) BY <1>1, <2>1, <2>2, ClosingHears
  <2>4. s2.state = "IDLE" /\ All(r, Pdu \ Connects) BY <1>0, <1>1, <1>3, <1>9, <2>2 DEF ServerCloses
  <2>5. ServerCloses(c, qc, s2, r) BY <1>1, <2>2, <2>3, <2>4 DEF ServerCloses
  <2> QED BY <1>2, <2>5 DEF Joint
<1>10. CASE ClientCloses(c, qc, s, qs)
  <2>1. PICK pre, m, q : Closing(s, qs, c, qc, pre, m, q) BY <1>10 DEF ClientCloses
  <2>2. Closing(s2, r, c, qc, pre, m, q) BY <2>1, ClosingTalks
  <2>3. ClientCloses(c, qc, s2, r) BY <2>2 DEF ClientCloses
  <2> QED BY <1>2, <2>3 DEF Joint
<1> QED BY <1>4, <1>5, <1>6, <1>7, <1>8, <1>9, <1>10 DEF Joint

(* The client makes a step without a PDU. *)
LEMMA ClientRests ==
    ASSUME NEW e \in Nat, NEW w, NEW c \in Views, Local(c), NEW s \in Views, NEW qc \in Seq(Pdu), NEW qs \in Seq(Pdu),
           NEW c2, Rests(c, c2), Joint(e, w, c, qc, s, qs)
    PROVE  Joint(e, w, c2, qc, s, qs)
<1>0. Unread(c, c2) /\ c2.state = c.state BY RestsIs
<1>1. ~Open(c) => c2 = c BY RestsIs
<1>2. Sides(e, w, c2, qc, s) BY <1>0, SidesClient DEF Joint
<1>3. CASE ~Open(c) BY <1>1, <1>3
<1>4. CASE Open(c) /\ Joined(c, qc, s, qs)
  <2>1. Pair(c2, qc, s, qs) BY <1>4, PairRests DEF Joined
  <2> QED BY <1>2, <1>4, <2>1 DEF Joint, Joined
<1>5. CASE Open(c) /\ ServerCloses(c, qc, s, qs)
  <2>1. PICK pre, m, q : Closing(c, qc, s, qs, pre, m, q) BY <1>5 DEF ServerCloses
  <2>2. Closing(c2, qc, s, qs, pre, m, q) BY <2>1, ClosingRests
  <2>3. ServerCloses(c2, qc, s, qs) BY <1>5, <2>2 DEF ServerCloses
  <2> QED BY <1>2, <2>3 DEF Joint
<1>6. Open(c) => Joined(c, qc, s, qs) \/ ServerCloses(c, qc, s, qs)
  BY DEF Joint, Nobody, Invited, Lone, Confirmed, ClientCloses, Closing
<1> QED BY <1>3, <1>4, <1>5, <1>6

(* The server makes a step without a PDU. *)
LEMMA ServerRests ==
    ASSUME NEW e \in Nat, NEW w, NEW c \in Views, NEW s \in Views, Local(s), NEW qc \in Seq(Pdu), NEW qs \in Seq(Pdu),
           NEW s2, Rests(s, s2), Joint(e, w, c, qc, s, qs)
    PROVE  Joint(e, w, c, qc, s2, qs)
<1>0. Unread(s, s2) /\ s2.state = s.state /\ Vs(s2) = Vs(s) BY RestsIs
<1>1. ~Open(s) => s2 = s BY RestsIs
<1>2. Sides(e, w, c, qc, s2) BY <1>0, SidesServer DEF Joint
<1>3. CASE ~Open(s) BY <1>1, <1>3
<1>4. CASE Lone(w, c, qc, s, qs)
  <2>1. Lone(w, c, qc, s2, qs) BY <1>4, LoneRests
  <2> QED BY <1>2, <2>1 DEF Joint
<1>5. CASE \E pre, m, q : Confirmed(w, c, qc, s, qs, pre, m, q)
  <2>0. PICK pre, m, q : Confirmed(w, c, qc, s, qs, pre, m, q) BY <1>5
  <2>1. q \in Seq(Pdu) /\ Lone(w, c, qc, s, q) /\ Order(s, q, c) BY <2>0 DEF Confirmed
  <2>2. Lone(w, c, qc, s2, q) /\ Order(s2, q, c) BY <1>0, <2>1, LoneRests, OrderSame
  <2>3. s2.ep = s.ep /\ s2.state = s.state BY <1>0 DEF Unread
  <2>4. Confirmed(w, c, qc, s2, qs, pre, m, q) BY <2>0, <2>2, <2>3 DEF Confirmed
  <2> QED BY <1>2, <2>4 DEF Joint
<1>6. CASE Joined(c, qc, s, qs)
  <2>1. Pair(s2, qs, c, qc) BY <1>6, PairTurn, PairRests DEF Joined
  <2>2. Pair(c, qc, s2, qs) BY <2>1, PairTurn
  <2> QED BY <1>2, <1>6, <2>2 DEF Joint, Joined
<1>7. CASE ClientCloses(c, qc, s, qs)
  <2>1. PICK pre, m, q : Closing(s, qs, c, qc, pre, m, q) BY <1>7 DEF ClientCloses
  <2>2. Closing(s2, qs, c, qc, pre, m, q) BY <2>1, ClosingRests
  <2>3. ClientCloses(c, qc, s2, qs) BY <2>2 DEF ClientCloses
  <2> QED BY <1>2, <2>3 DEF Joint
<1>8. Open(s) => \/ Lone(w, c, qc, s, qs) \/ \E pre, m, q : Confirmed(w, c, qc, s, qs, pre, m, q)
                 \/ Joined(c, qc, s, qs) \/ ClientCloses(c, qc, s, qs)
  BY DEF Joint, Nobody, Invited, ServerCloses, Closing, Open
<1> QED BY <1>3, <1>4, <1>5, <1>6, <1>7, <1>8

(* Two devices that sent and received nothing. *)
LEMMA BlankFlows ==
    ASSUME NEW x \in Views, NEW y \in Views, Blank(x), Blank(y), NEW qx, NEW qy,
           ~Some(qx, Acks), ~Some(qx, Discs), ~Some(qy, Acks), ~Some(qy, Discs)
    PROVE  Flows(x, qx, y, qy)
<1>1. /\ x.next_tx_seq = 0 /\ x.rcvd_ack_seq = 0 /\ x.next_rx_seq = 0 /\ x.sent_ack_seq = 0 /\ x.ncomplete = 0 /\ x.nrcvd = 0
      /\ y.next_tx_seq = 0 /\ y.rcvd_ack_seq = 0 /\ y.next_rx_seq = 0 /\ y.sent_ack_seq = 0 /\ y.ncomplete = 0 /\ y.nrcvd = 0
  BY DEF Blank
<1>2. Vs(x) = 0 /\ Vs(y) = 0
  <2>1. x.i_xmit_q = <<>> /\ x.nsent = 0 /\ y.i_xmit_q = <<>> /\ y.nsent = 0 BY DEF Blank
  <2>2. Len(<<>>) = 0 BY EmptySeq
  <2>3. Vs(x) = 0 - 0 /\ Vs(y) = 0 - 0 BY <2>1, <2>2, Zenon DEF Vs
  <2> QED BY <2>3
<1>3. Dist(0, 0) = 0 BY SeqNumFacts, DistZero
<1>4. Rising(x, qy) /\ Rising(y, qx) BY DEF Rising, Some
<1>5. Numbers(x, y, qy) /\ Numbers(y, x, qx) BY <1>1, <1>2, <1>3, <1>4 DEF Numbers, Some
<1>6. Complete(x, qx, y) /\ Complete(y, qy, x) BY <1>1 DEF Complete, Some
<1> QED BY <1>5, <1>6 DEF Flows, Flow

(* The view of a client that asks for connection e + 1. *)
Asking(w, e) == [NewView EXCEPT !.local_rw = w[Client], !.ep = e + 1, !.state = "W4_REMOTE_RESP"]

(* A view without a connection. *)
LEMMA NewViewIs ==
    /\ NewView \in Views /\ NewView.state = "IDLE" /\ NewView.ep = 0 /\ Blank(NewView) /\ ~Open(NewView) /\ Local(NewView)
    /\ NewView.last_nr = NewView.sent_ack_seq
<1>1. NewView \in Views BY SeqNumFacts DEF NewView, View, NewBlock, Views, DLC_STATE
<1>2. /\ NewView.state = "IDLE" /\ NewView.ep = 0 /\ Blank(NewView) /\ NewView.last_nr = NewView.sent_ack_seq
      /\ NewView.next_tx_seq = 0 /\ NewView.rcvd_ack_seq = 0 /\ NewView.remote_rw = 0 /\ NewView.i_xmit_q = <<>>
      /\ NewView.nsent = 0
  BY DEF NewView, View, NewBlock, Blank
<1>3. Dist(0, 0) = 0 BY SeqNumFacts, DistZero
<1>4. ~Open(NewView) BY <1>2 DEF Open
<1>5. Local(NewView) BY <1>2, <1>3 DEF Local
<1> QED BY <1>1, <1>2, <1>4, <1>5

(* And of one that asks. *)
LEMMA AskingIs ==
    ASSUME NEW w, w[Client] \in SeqNum, NEW e \in Nat
    PROVE  /\ Asking(w, e) \in Views /\ Asking(w, e).state = "W4_REMOTE_RESP" /\ Asking(w, e).ep = e + 1
           /\ Asking(w, e).local_rw = w[Client]
           /\ Blank(Asking(w, e)) /\ ~Open(Asking(w, e)) /\ Local(Asking(w, e))
           /\ Asking(w, e).last_nr = Asking(w, e).sent_ack_seq
<1> DEFINE a == Asking(w, e)
<1>1. \A r \in SeqNum, k \in Nat : [NewView EXCEPT !.local_rw = r, !.ep = k, !.state = "W4_REMOTE_RESP"] \in Views
  BY NewViewIs DEF Views, DLC_STATE
<1>2. a \in Views
  <2>1. e + 1 \in Nat OBVIOUS
  <2>2. [NewView EXCEPT !.local_rw = w[Client], !.ep = e + 1, !.state = "W4_REMOTE_RESP"] \in Views BY <1>1, <2>1
  <2> QED BY <2>2 DEF Asking
<1>3. /\ a.state = "W4_REMOTE_RESP" /\ a.ep = e + 1 /\ a.local_rw = w[Client] /\ Blank(a) /\ a.last_nr = a.sent_ack_seq
      /\ a.next_tx_seq = 0 /\ a.rcvd_ack_seq = 0 /\ a.remote_rw = 0 /\ a.i_xmit_q = <<>> /\ a.nsent = 0
  BY DEF Asking, NewView, View, NewBlock, Blank
<1> HIDE DEF a
<1>4. Dist(0, 0) = 0 BY SeqNumFacts, DistZero
<1>5. ~Open(a) BY <1>3 DEF Open
<1>6. Local(a) BY <1>3, <1>4, <1>5 DEF Local
<1> QED BY <1>2, <1>3, <1>5, <1>6 DEF a

(* A client that has none asks for a connection. *)
LEMMA ClientAsks ==
    ASSUME NEW e \in Nat, NEW w, w[Client] \in SeqNum, NEW c \in Views, Local(c), c.state = "IDLE", NEW s \in Views,
           NEW qc \in Seq(Pdu), NEW qs \in Seq(Pdu), NEW p \in Connects, p.rw = w[Client], p.ep = e + 1,
           Joint(e, w, c, qc, s, qs)
    PROVE  Joint(e + 1, w, Asking(w, e), Append(qc, p), s, qs)
<1> DEFINE r == Append(qc, p)
           a == Asking(w, e)
<1>1. /\ a \in Views /\ a.state = "W4_REMOTE_RESP" /\ a.ep = e + 1 /\ a.local_rw = w[Client]
      /\ Blank(a) /\ ~Open(a) /\ a.last_nr = a.sent_ack_seq
  BY AskingIs
<1>2. ~Open(c) /\ Blank(c) BY DEF Open, Local
<1>3. p \in Pdu /\ p \in Plain BY ConnectIs
<1>4. /\ r \in Seq(Pdu)
      /\ \A S : All(r, S) <=> All(qc, S) /\ p \in S
      /\ \A A, B : After(r, A, B) <=> After(qc, A, B) /\ (Some(qc, A) => p \in B)
  BY <1>3, Longer
<1>5. Sides(e + 1, w, a, r, s)
  <2>1. Sides(e, w, c, qc, s) BY DEF Joint
  <2>2. /\ DOMAIN qc = 1..Len(qc) /\ Len(qc) \in Nat /\ DOMAIN r = 1..(Len(qc) + 1)
        /\ \A i \in DOMAIN qc : r[i] = qc[i]
        /\ r[Len(qc) + 1] = p
    BY AppendIs
  <2>3. \A i \in DOMAIN qc : qc[i] \in Connects => qc[i].rw = w[Client] /\ qc[i].ep \in 1..e BY <2>1 DEF Sides
  <2> HIDE DEF r, a
  <2>4. \A i \in DOMAIN r : r[i] \in Connects => r[i].rw = w[Client] /\ r[i].ep \in 1..(e + 1) BY <2>2, <2>3
  <2>5. IF s.state = "IDLE" THEN s.ep = 0 ELSE s.ep \in 1..(e + 1) BY <2>1 DEF Sides
  <2>6. a.ep \in 1..(e + 1) BY <1>1
  <2> QED BY <1>1, <2>1, <2>4, <2>5, <2>6 DEF Sides
<1> HIDE DEF r, a
<1>6. \A q : Flows(c, qc, s, q) => Flows(a, qc, s, q)
  <2>1. /\ a.next_tx_seq = c.next_tx_seq /\ a.rcvd_ack_seq = c.rcvd_ack_seq /\ a.next_rx_seq = c.next_rx_seq
        /\ a.i_xmit_q = c.i_xmit_q /\ a.nsent = c.nsent /\ a.nrcvd = c.nrcvd /\ a.ncomplete = c.ncomplete
        /\ a.sent_ack_seq = c.sent_ack_seq
    BY <1>1, <1>2 DEF Blank
  <2> QED BY <2>1, FlowsSame
<1>7. \A q : Lone(w, c, qc, s, q) => Lone(w, a, qc, s, q) BY <1>1, <1>6 DEF Lone, Flows
<1>8. CASE Nobody(c, qc, s, qs)
  <2>1. Nobody(a, r, s, qs) BY <1>1, <1>3, <1>4, <1>8 DEF Nobody
  <2> QED BY <1>5, <2>1 DEF Joint, r, a
<1>9. CASE Invited(w, c, qc, s, qs)
  <2>1. Invited(w, a, r, s, qs) BY <1>1, <1>3, <1>4, <1>9 DEF Invited
  <2> QED BY <1>5, <2>1 DEF Joint, r, a
<1>10. CASE Lone(w, c, qc, s, qs)
  <2>1. Lone(w, a, r, s, qs) BY <1>1, <1>3, <1>7, <1>10, LoneHears DEF r
  <2> QED BY <1>5, <2>1 DEF Joint, r, a
<1>11. CASE \E pre, m, q : Confirmed(w, c, qc, s, qs, pre, m, q)
  <2>0. PICK pre, m, q : Confirmed(w, c, qc, s, qs, pre, m, q) BY <1>11
  <2>1. q \in Seq(Pdu) /\ Lone(w, c, qc, s, q) /\ Order(s, q, c) BY <2>0 DEF Confirmed
  <2>2. Lone(w, a, r, s, q) BY <1>1, <1>3, <1>7, <2>1, LoneHears DEF r
  <2>3. a.nrcvd = c.nrcvd /\ a.next_rx_seq = c.next_rx_seq BY <1>1, <1>2 DEF Blank
  <2>4. Order(s, q, a) BY <2>1, <2>3, OrderSame
  <2>5. Confirmed(w, a, r, s, qs, pre, m, q) BY <2>0, <2>2, <2>4 DEF Confirmed
  <2> QED BY <1>5, <2>5 DEF Joint, r, a
<1>12. CASE ClientCloses(c, qc, s, qs)
  <2>1. PICK pre, m, q : Closing(s, qs, c, qc, pre, m, q) BY <1>12 DEF ClientCloses
  <2>2. s.ep \in 1..e
    <3>1. s.state # "IDLE" BY <2>1 DEF Closing
    <3> QED BY <3>1 DEF Joint, Sides
  <2>3. a.ep # s.ep BY <1>1, <2>2
  <2>4. Closing(s, qs, a, r, pre, m, Append(q, p)) BY <1>1, <1>3, <2>1, <2>3, ClosingHears DEF r
  <2>5. ClientCloses(a, r, s, qs) BY <2>4 DEF ClientCloses
  <2> QED BY <1>5, <2>5 DEF Joint, r, a
<1>13. ~Joined(c, qc, s, qs) /\ ~ServerCloses(c, qc, s, qs) BY <1>2 DEF Joined, Pair, Ending, ServerCloses, Closing, Open
<1> QED BY <1>8, <1>9, <1>10, <1>11, <1>12, <1>13 DEF Joint, r, a

(* The server accepts it. *)
LEMMA ServerAccepts ==
    ASSUME NEW e \in Nat, NEW w, w[Server] \in SeqNum, NEW c \in Views, Local(c), NEW s \in Views, Local(s), s.state = "W4_LOCAL_RESP",
           NEW qc \in Seq(Pdu), NEW qs \in Seq(Pdu), NEW p \in Confirms, p.rw = w[Server], p.ep = s.ep,
           NEW s2, s2 = [s EXCEPT !.local_rw = w[Server], !.state = "CONNECTED"]
    PROVE  /\ s2 \in Views /\ Local(s2)
           /\ Joint(e, w, c, qc, s, qs) => Joint(e, w, c, qc, s2, Append(qs, p))
<1>1. \A r \in SeqNum : [s EXCEPT !.local_rw = r, !.state = "CONNECTED"] \in Views BY DEF Views, DLC_STATE
<1>2. s2 \in Views BY <1>1
<1>3. /\ s2.state = "CONNECTED" /\ s2.local_rw = w[Server] /\ s2.ep = s.ep /\ s2.remote_rw = s.remote_rw
      /\ s2.next_tx_seq = s.next_tx_seq /\ s2.rcvd_ack_seq = s.rcvd_ack_seq /\ s2.next_rx_seq = s.next_rx_seq
      /\ s2.i_xmit_q = s.i_xmit_q /\ s2.nsent = s.nsent /\ s2.nrcvd = s.nrcvd /\ s2.ncomplete = s.ncomplete
      /\ s2.sent_ack_seq = s.sent_ack_seq /\ s2.last_nr = s.last_nr
  BY DEF Views
<1>4. ~Open(s) /\ Blank(s) BY DEF Open, Local
<1>5. Local(s2) BY <1>3 DEF Local, Open, Vs
<1>6. Blank(s2) BY <1>3, <1>4 DEF Blank
<1>7. ASSUME Joint(e, w, c, qc, s, qs) PROVE Joint(e, w, c, qc, s2, Append(qs, p))
  <2>1. Invited(w, c, qc, s, qs)
    BY <1>4, <1>7 DEF Joint, Nobody, Lone, Confirmed, Joined, Pair, Ending, ServerCloses, ClientCloses, Closing
  <2>2. ~Open(c) /\ Blank(c) /\ s.remote_rw = w[Client] /\ All(qc, Plain) /\ All(qs, Late) BY <2>1 DEF Invited, Local
  <2>3. Plain \cap Acks = {} /\ Plain \cap Discs = {} /\ Plain \cap Infos = {} BY DmIs, ConnectIs, UnionIs
  <2>4. ~Some(qc, Acks) /\ ~Some(qc, Discs) BY <2>2, <2>3, AllWeak
  <2>5. /\ ~Some(<<>>, Acks) /\ ~Some(<<>>, Discs)
        /\ All(<<>>, Of(s2.ep) \cup Dms) /\ After(<<>>, Discs, Late)
    BY DEF Some, All, After
  <2>6. Flows(c, qc, s2, <<>>) BY <1>2, <1>6, <2>2, <2>4, <2>5, BlankFlows
  <2>7. Open(s2) BY <1>3 DEF Open
  <2>8. Lone(w, c, qc, s2, <<>>) BY <1>3, <2>2, <2>5, <2>6, <2>7 DEF Lone, Flows
  <2>9. Order(s2, <<>>, c)
    <3>1. Vs(s2) = 0 /\ c.nrcvd = 0 BY <1>6, <2>2 DEF Vs, Blank
    <3> QED BY <3>1 DEF Order
  <2>10. qs \in Seq(Late) BY <2>2 DEF All
  <2>11. <<>> \in Seq(Pdu) /\ Append(qs, p) = Mid(qs, p, <<>>)
    <3>1. p \in Pdu BY ConfirmIs
    <3>2. <<>> \in Seq(Pdu) /\ Append(qs, p) = qs \o <<p>> /\ qs \o <<p>> \in Seq(Pdu) BY <3>1
    <3> QED BY <3>2, ConcatEmptySeq DEF Mid
  <2>12. Confirmed(w, c, qc, s2, Append(qs, p), qs, p, <<>>) BY <1>3, <2>5, <2>8, <2>9, <2>10, <2>11 DEF Confirmed
  <2>13. Sides(e, w, c, qc, s2)
    <3>1. Sides(e, w, c, qc, s) BY <1>7 DEF Joint
    <3> QED BY <1>3, <3>1 DEF Sides
  <2> QED BY <2>12, <2>13 DEF Joint
<1> QED BY <1>2, <1>5, <1>7

(* Or does not. *)
LEMMA ServerRejects ==
    ASSUME NEW e \in Nat, NEW w, NEW c \in Views, NEW s \in Views, s.state = "W4_LOCAL_RESP",
           NEW qc \in Seq(Pdu), NEW qs \in Seq(Pdu), Joint(e, w, c, qc, s, qs)
    PROVE  Joint(e, w, c, qc, NewView, qs)
<1>1. Invited(w, c, qc, s, qs)
  BY DEF Joint, Nobody, Lone, Confirmed, Joined, Pair, Ending, ServerCloses, ClientCloses, Closing, Open
<1>2. Plain \subseteq Infos \cup Plain BY UnionIs
<1>3. All(qc, Infos \cup Plain) /\ After(qc, Connects, Plain) BY <1>1, <1>2, AllWeak DEF Invited
<1>4. Nobody(c, qc, NewView, qs) BY <1>1, <1>3, NewViewIs DEF Invited, Nobody
<1>5. Sides(e, w, c, qc, NewView) BY NewViewIs DEF Joint, Sides
<1> QED BY <1>4, <1>5 DEF Joint

-----------------------------------------------------------------------------
(* The steps of a device that reads a PDU, x being the reader.             *)

(* x reads an acknowledgement. *)
AckRead(x, p, x2) == NrInRange(x, p.nr) /\ x2 = [x EXCEPT !.rcvd_ack_seq = p.nr]
(* x accepts an I PDU. *)
Taken(x, p) == [x EXCEPT !.next_rx_seq = Inc(@), !.rcvd_ack_seq = p.nr, !.nrcvd = @ + 1]
Takes(x, p, x2) == x.state = "CONNECTED" /\ NrInRange(x, p.nr) /\ x2 = Taken(x, p)

(* The new acknowledgement leaves no more I PDUs outstanding than before. *)
LEMMA Narrower ==
    ASSUME NEW x \in Views, NEW nr \in SeqNum, NrInRange(x, nr)
    PROVE  Dist(x.next_tx_seq, nr) \in Nat /\ Dist(x.next_tx_seq, nr) <= Dist(x.next_tx_seq, x.rcvd_ack_seq)
<1>1. x.next_tx_seq \in SeqNum /\ x.rcvd_ack_seq \in SeqNum BY ViewNumbers
<1>2. /\ Dist(nr, x.rcvd_ack_seq) \in Nat /\ Dist(x.next_tx_seq, nr) \in Nat /\ Dist(x.next_tx_seq, x.rcvd_ack_seq) \in Nat
  BY <1>1, DistNat
<1> QED BY <1>2 DEF NrInRange

(* A device that has sent nothing hears of nothing acknowledged. *)
LEMMA NothingSent ==
    ASSUME NEW x \in Views, Blank(x), NEW nr \in SeqNum, NrInRange(x, nr)
    PROVE  nr = x.rcvd_ack_seq
<1>1. x.next_tx_seq = 0 /\ x.rcvd_ack_seq = 0 /\ 0 \in SeqNum BY SeqNumFacts DEF Blank
<1>2. Dist(0, 0) = 0 /\ Dist(nr, 0) \in Nat /\ Dist(0, nr) \in Nat BY <1>1, DistZero, DistNat
<1>3. Dist(nr, 0) = 0 BY <1>1, <1>2 DEF NrInRange
<1> QED BY <1>1, <1>3, DistZero

(* What an acknowledgement leaves. *)
LEMMA AckReadIs ==
    ASSUME NEW x \in Views, Local(x), NEW p \in Pdu, NEW x2, AckRead(x, p, x2)
    PROVE  /\ x2 \in Views /\ Local(x2)
           /\ x2.state = x.state /\ x2.ep = x.ep /\ x2.local_rw = x.local_rw /\ x2.remote_rw = x.remote_rw
           /\ x2.next_tx_seq = x.next_tx_seq /\ x2.rcvd_ack_seq = p.nr /\ x2.next_rx_seq = x.next_rx_seq
           /\ x2.i_xmit_q = x.i_xmit_q /\ x2.nsent = x.nsent /\ x2.nrcvd = x.nrcvd /\ x2.ncomplete = x.ncomplete
           /\ x2.sent_ack_seq = x.sent_ack_seq /\ x2.last_nr = x.last_nr /\ Vs(x2) = Vs(x)
           /\ ~Open(x) => x2 = x
<1>1. \A r \in SeqNum : [x EXCEPT !.rcvd_ack_seq = r] \in Views BY DEF Views
<1>2. p.nr \in SeqNum BY PduNumbers
<1>3. x2 \in Views BY <1>1, <1>2 DEF AckRead
<1>4. /\ x2.state = x.state /\ x2.ep = x.ep /\ x2.local_rw = x.local_rw /\ x2.remote_rw = x.remote_rw
      /\ x2.next_tx_seq = x.next_tx_seq /\ x2.rcvd_ack_seq = p.nr /\ x2.next_rx_seq = x.next_rx_seq
      /\ x2.i_xmit_q = x.i_xmit_q /\ x2.nsent = x.nsent /\ x2.nrcvd = x.nrcvd /\ x2.ncomplete = x.ncomplete
      /\ x2.sent_ack_seq = x.sent_ack_seq /\ x2.last_nr = x.last_nr
  BY DEF AckRead, Views
<1>5. Vs(x2) = Vs(x) BY <1>4 DEF Vs
<1>6. ASSUME ~Open(x) PROVE x2 = x
  <2>1. p.nr = x.rcvd_ack_seq BY <1>2, <1>6, NothingSent DEF AckRead, Local
  <2>2. x2 = [x EXCEPT !.rcvd_ack_seq = x.rcvd_ack_seq] BY <2>1 DEF AckRead
  <2> QED BY <2>2 DEF Views
<1>7. Local(x2)
  <2>1. CASE ~Open(x) BY <2>1, <1>6
  <2>2. CASE Open(x)
    <3>1. Dist(x2.next_tx_seq, x2.rcvd_ack_seq) <= x2.remote_rw
      <4>1. /\ Dist(x.next_tx_seq, p.nr) \in Nat /\ Dist(x.next_tx_seq, p.nr) <= Dist(x.next_tx_seq, x.rcvd_ack_seq)
        BY <1>2, Narrower DEF AckRead
      <4>2. Dist(x.next_tx_seq, x.rcvd_ack_seq) <= x.remote_rw BY DEF Local
      <4>3. Dist(x.next_tx_seq, x.rcvd_ack_seq) \in Nat /\ x.remote_rw \in Nat BY ViewNumbers, DistNat, SeqNumFacts
      <4> QED BY <1>4, <4>1, <4>2, <4>3
    <3>2. Open(x2) BY <2>2, <1>4 DEF Open
    <3> QED BY <1>4, <1>5, <3>1, <3>2 DEF Local
  <2> QED BY <2>1, <2>2
<1> QED BY <1>3, <1>4, <1>5, <1>6, <1>7

(* What an accepted I PDU leaves. *)
LEMMA TakesIs ==
    ASSUME NEW x \in Views, Local(x), NEW p \in Pdu, NEW x2, Takes(x, p, x2)
    PROVE  /\ x2 \in Views /\ Local(x2)
           /\ x2.state = x.state /\ x2.ep = x.ep /\ x2.local_rw = x.local_rw /\ x2.remote_rw = x.remote_rw
           /\ x2.next_tx_seq = x.next_tx_seq /\ x2.rcvd_ack_seq = p.nr /\ x2.next_rx_seq = Inc(x.next_rx_seq)
           /\ x2.i_xmit_q = x.i_xmit_q /\ x2.nsent = x.nsent /\ x2.nrcvd = x.nrcvd + 1 /\ x2.ncomplete = x.ncomplete
           /\ x2.sent_ack_seq = x.sent_ack_seq /\ x2.last_nr = x.last_nr /\ Vs(x2) = Vs(x)
<1>1. \A r, t \in SeqNum, k \in Nat : [x EXCEPT !.next_rx_seq = t, !.rcvd_ack_seq = r, !.nrcvd = k] \in Views BY DEF Views
<1>2. p.nr \in SeqNum /\ x.nrcvd + 1 \in Nat /\ Inc(x.next_rx_seq) \in SeqNum BY PduNumbers, ViewNumbers, IncType
<1>3. x2 = [x EXCEPT !.next_rx_seq = Inc(x.next_rx_seq), !.rcvd_ack_seq = p.nr, !.nrcvd = x.nrcvd + 1] BY DEF Takes, Taken
<1>4. x2 \in Views BY <1>1, <1>2, <1>3
<1>5. /\ x2.state = x.state /\ x2.ep = x.ep /\ x2.local_rw = x.local_rw /\ x2.remote_rw = x.remote_rw
      /\ x2.next_tx_seq = x.next_tx_seq /\ x2.rcvd_ack_seq = p.nr /\ x2.next_rx_seq = Inc(x.next_rx_seq)
      /\ x2.i_xmit_q = x.i_xmit_q /\ x2.nsent = x.nsent /\ x2.nrcvd = x.nrcvd + 1 /\ x2.ncomplete = x.ncomplete
      /\ x2.sent_ack_seq = x.sent_ack_seq /\ x2.last_nr = x.last_nr
  BY <1>3 DEF Views
<1>6. Vs(x2) = Vs(x) BY <1>5 DEF Vs
<1>7. Local(x2)
  <2>1. Dist(x2.next_tx_seq, x2.rcvd_ack_seq) <= x2.remote_rw
    <3>1. /\ Dist(x.next_tx_seq, p.nr) \in Nat /\ Dist(x.next_tx_seq, p.nr) <= Dist(x.next_tx_seq, x.rcvd_ack_seq)
      BY <1>2, Narrower DEF Takes
    <3>2. Dist(x.next_tx_seq, x.rcvd_ack_seq) <= x.remote_rw BY DEF Local
    <3>3. Dist(x.next_tx_seq, x.rcvd_ack_seq) \in Nat /\ x.remote_rw \in Nat BY ViewNumbers, DistNat, SeqNumFacts
    <3> QED BY <1>5, <3>1, <3>2, <3>3
  <2>2. Open(x2) BY <1>5 DEF Open, Takes
  <2> QED BY <1>5, <1>6, <2>1, <2>2 DEF Local
<1> QED BY <1>4, <1>5, <1>6, <1>7

(* In a connection of both, x reads what it ignores. *)
LEMMA PairDrops ==
    ASSUME NEW x \in Views, NEW y \in Views, NEW qx \in Seq(Pdu), NEW qy \in Seq(Pdu), qy # <<>>,
           Head(qy) \notin Discs, Head(qy) \notin Resps, Head(qy) \in Infos => x.state # "CONNECTED",
           Pair(x, qx, y, qy)
    PROVE  Pair(x, qx, y, Tail(qy))
<1> DEFINE r == Tail(qy)  h == Head(qy)
<1>1. Ending(x, qx, y, qy) /\ Ending(y, qy, x, qx) /\ x.ep = y.ep BY DEF Pair
<1>2. Flows(x, qx, y, r) BY <1>1, FlowsPop DEF Flows, Ending
<1>3. Flow(x, qx, y, r) /\ Flow(y, r, x, qx) BY <1>2 DEF Flows
<1>4. /\ \A S : All(qy, S) <=> h \in S /\ All(r, S)
      /\ \A S : Some(qy, S) <=> h \in S \/ Some(r, S)
      /\ \A A, B : After(qy, A, B) <=> After(r, A, B) /\ (h \in A => All(r, B))
  BY Shorter
<1>5. x.state = "CONNECTED" => Order(y, r, x) BY <1>1, OrderPop DEF Ending
<1>6. h \notin Discs /\ h \notin Resps OBVIOUS
<1> HIDE DEF r, h
<1>7. Ending(x, qx, y, r) BY <1>1, <1>3, <1>4, <1>6 DEF Ending
<1>8. Ending(y, r, x, qx) BY <1>1, <1>3, <1>4, <1>5, <1>6 DEF Ending
<1> QED BY <1>1, <1>7, <1>8 DEF Pair, r

(* It reads an acknowledgement, which is in range. *)
LEMMA PairAckRead ==
    ASSUME NEW x \in Views, Local(x), NEW y \in Views, NEW qx \in Seq(Pdu), NEW qy \in Seq(Pdu), qy # <<>>,
           Head(qy) \in Acks, Head(qy) \notin Infos, Pair(x, qx, y, qy),
           NEW x2, x2 = [x EXCEPT !.rcvd_ack_seq = Head(qy).nr]
    PROVE  AckRead(x, Head(qy), x2) /\ Pair(x2, qx, y, Tail(qy))
<1> DEFINE r == Tail(qy)  h == Head(qy)
<1>0. h \in Pdu /\ h.nr \in SeqNum /\ h \notin Discs /\ h \notin Resps BY AckIs, PduNumbers
<1>1. Ending(x, qx, y, qy) /\ Ending(y, qy, x, qx) /\ x.ep = y.ep BY DEF Pair
<1>2. Flows(x, qx, y, qy) BY <1>1 DEF Flows, Ending
<1>3. Rising(x, qy) BY <1>2 DEF Flows, Flow, Numbers
<1>4. Dist(h.nr, x.rcvd_ack_seq) <= Dist(x.next_tx_seq, x.rcvd_ack_seq)
  <2>1. 1 \in DOMAIN qy /\ h = qy[1] BY TailIs
  <2> QED BY <1>3, <2>1 DEF Rising
<1>5. AckRead(x, h, x2) BY <1>0, <1>4, NrInRangeIs DEF AckRead
<1>6. /\ x2.state = x.state /\ x2.ep = x.ep /\ x2.local_rw = x.local_rw /\ x2.remote_rw = x.remote_rw
      /\ x2.next_tx_seq = x.next_tx_seq /\ x2.rcvd_ack_seq = h.nr /\ x2.next_rx_seq = x.next_rx_seq
      /\ x2.i_xmit_q = x.i_xmit_q /\ x2.nsent = x.nsent /\ x2.nrcvd = x.nrcvd /\ x2.ncomplete = x.ncomplete
      /\ x2.sent_ack_seq = x.sent_ack_seq /\ Vs(x2) = Vs(x)
  BY <1>0, <1>5, AckReadIs
<1>7. Flows(x2, qx, y, r) BY <1>2, <1>6, FlowsAckRead
<1>8. Flow(x2, qx, y, r) /\ Flow(y, r, x2, qx) BY <1>7 DEF Flows
<1>9. /\ \A S : All(qy, S) <=> h \in S /\ All(r, S)
      /\ \A S : Some(qy, S) <=> h \in S \/ Some(r, S)
      /\ \A A, B : After(qy, A, B) <=> After(r, A, B) /\ (h \in A => All(r, B))
  BY Shorter
<1>10. x.state = "CONNECTED" => Order(y, r, x) BY <1>1, OrderPop DEF Ending
<1>11. x.state = "CONNECTED" => Order(y, r, x2) BY <1>6, <1>10, OrderSame
<1>12. y.state = "CONNECTED" => Order(x2, qx, y) BY <1>1, <1>6, OrderSame DEF Ending
<1> HIDE DEF r, h
<1>13. Open(x2) BY <1>1, <1>6 DEF Ending, Open
<1>14. Ending(x2, qx, y, r) BY <1>0, <1>1, <1>6, <1>8, <1>9, <1>12, <1>13 DEF Ending
<1>15. Ending(y, r, x2, qx) BY <1>0, <1>1, <1>6, <1>8, <1>9, <1>11 DEF Ending
<1> QED BY <1>1, <1>5, <1>6, <1>14, <1>15 DEF Pair, r, h

(* It accepts an I PDU: every check of the code holds. *)
LEMMA PairTakes ==
    ASSUME NEW x \in Views, Local(x), x.state = "CONNECTED", NEW y \in Views, Local(y),
           NEW qx \in Seq(Pdu), NEW qy \in Seq(Pdu), qy # <<>>, Head(qy) \in Infos, Pair(x, qx, y, qy),
           NEW x2, x2 = Taken(x, Head(qy))
    PROVE  /\ Takes(x, Head(qy), x2) /\ Pair(x2, qx, y, Tail(qy))
           /\ Head(qy).ns = x.next_rx_seq /\ Head(qy).sdu = x.nrcvd + 1 /\ Head(qy).ep = x.ep
           /\ Dist(Head(qy).ns, x.sent_ack_seq) < x.local_rw
<1> DEFINE r == Tail(qy)  h == Head(qy)
<1>0. h \in Pdu /\ h.nr \in SeqNum /\ h \notin Discs /\ h \notin Resps /\ h \notin Connects /\ h \notin Dms BY InfoIs, PduNumbers
<1>1. Ending(x, qx, y, qy) /\ Ending(y, qy, x, qx) /\ x.ep = y.ep BY DEF Pair
<1>2. Flows(x, qx, y, qy) /\ Order(y, qy, x) BY <1>1 DEF Flows, Ending
<1>3. Rising(x, qy) BY <1>2 DEF Flows, Flow, Numbers
<1>4. Dist(h.nr, x.rcvd_ack_seq) <= Dist(x.next_tx_seq, x.rcvd_ack_seq)
  <2>1. 1 \in DOMAIN qy /\ h = qy[1] /\ h \in Acks BY TailIs, InfoIs
  <2> QED BY <1>3, <2>1 DEF Rising
<1>5. Takes(x, h, x2) BY <1>0, <1>4, NrInRangeIs DEF Takes
<1>6. /\ x2.state = x.state /\ x2.ep = x.ep /\ x2.local_rw = x.local_rw /\ x2.remote_rw = x.remote_rw
      /\ x2.next_tx_seq = x.next_tx_seq /\ x2.rcvd_ack_seq = h.nr /\ x2.next_rx_seq = Inc(x.next_rx_seq)
      /\ x2.i_xmit_q = x.i_xmit_q /\ x2.nsent = x.nsent /\ x2.nrcvd = x.nrcvd + 1 /\ x2.ncomplete = x.ncomplete
      /\ x2.sent_ack_seq = x.sent_ack_seq /\ Vs(x2) = Vs(x) /\ x2 \in Views
  BY <1>0, <1>5, TakesIs
<1>7. /\ Flows(x2, qx, y, r) /\ Order(y, r, x2)
      /\ h.ns = x.next_rx_seq /\ h.sdu = x.nrcvd + 1
      /\ Dist(x.next_rx_seq, x.sent_ack_seq) < Dist(y.next_tx_seq, y.rcvd_ack_seq)
  BY <1>2, <1>6, FlowsTaken
<1>8. Flow(x2, qx, y, r) /\ Flow(y, r, x2, qx) BY <1>7 DEF Flows
<1>9. /\ \A S : All(qy, S) <=> h \in S /\ All(r, S)
      /\ \A S : Some(qy, S) <=> h \in S \/ Some(r, S)
      /\ \A A, B : After(qy, A, B) <=> After(r, A, B) /\ (h \in A => All(r, B))
  BY Shorter
<1>10. Dist(h.ns, x.sent_ack_seq) < x.local_rw
  <2>1. Dist(y.next_tx_seq, y.rcvd_ack_seq) <= y.remote_rw /\ y.remote_rw = x.local_rw BY <1>1 DEF Local, Ending
  <2>2. /\ Dist(y.next_tx_seq, y.rcvd_ack_seq) \in Nat /\ Dist(x.next_rx_seq, x.sent_ack_seq) \in Nat
        /\ x.local_rw \in Nat
    BY ViewNumbers, DistNat, SeqNumFacts
  <2> QED BY <1>7, <2>1, <2>2
<1>11. y.state = "CONNECTED" => Order(x, qx, y) BY <1>1 DEF Ending
<1>12. y.state = "CONNECTED" => Order(x2, qx, y) BY <1>6, <1>11, OrderSame
<1> HIDE DEF r, h
<1>13. Open(x2) BY <1>1, <1>6 DEF Ending, Open
<1>14. Ending(x2, qx, y, r) BY <1>0, <1>1, <1>6, <1>8, <1>9, <1>12, <1>13 DEF Ending
<1>15. Ending(y, r, x2, qx) BY <1>0, <1>1, <1>6, <1>7, <1>8, <1>9 DEF Ending
<1>16. h.ep = x.ep
  <2>1. h \in Of(y.ep) \cup Connects \cup Dms \cup Resps BY <1>1, <1>9 DEF Ending
  <2> QED BY <1>0, <1>1, <2>1, OfIs
<1> QED BY <1>1, <1>5, <1>6, <1>7, <1>10, <1>14, <1>15, <1>16 DEF Pair, r, h

(* Connected, it reads a DISC, confirms it with m and closes. *)
LEMMA PairCloses ==
    ASSUME NEW x \in Views, x.state = "CONNECTED", NEW y \in Views, y.ep # 0,
           NEW qx \in Seq(Pdu), NEW qy \in Seq(Pdu), qy # <<>>, Head(qy) \in Discs, Pair(x, qx, y, qy), NEW m \in Resps
    PROVE  Closing(y, Tail(qy), NewView, Append(qx, m), qx, m, <<>>)
<1> DEFINE r == Tail(qy)  h == Head(qy)
<1>1. Ending(x, qx, y, qy) /\ Ending(y, qy, x, qx) /\ x.ep = y.ep BY DEF Pair
<1>2. /\ Some(qy, Discs) <=> h \in Discs \/ Some(r, Discs)
      /\ Some(qy, Resps) <=> h \in Resps \/ Some(r, Resps)
      /\ After(qy, Discs, Late \cup Resps) <=>
           After(r, Discs, Late \cup Resps) /\ (h \in Discs => All(r, Late \cup Resps))
  BY Shorter
<1>3. ~Some(qx, Resps) /\ ~Some(qx, Discs) /\ ~Some(qy, Resps) BY <1>1 DEF Ending
<1>4. y.state = "W4_REMOTE_DM" BY <1>1, <1>2 DEF Ending
<1>5. All(r, Late)
  <2>1. All(r, Late \cup Resps) /\ ~Some(r, Resps) BY <1>1, <1>2, <1>3 DEF Ending
  <2> QED BY <2>1 DEF All, Some
<1>6. qx \in Seq(Acks \cup Plain)
  <2>1. All(qx, Of(x.ep) \cup Connects \cup Dms \cup Resps) BY <1>1 DEF Ending
  <2>2. \A i \in DOMAIN qx : qx[i] \in Acks \cup Plain
    <3>1. TAKE i \in DOMAIN qx
    <3>2. qx[i] \in Of(x.ep) \/ qx[i] \in Connects \/ qx[i] \in Dms BY <1>3, <2>1 DEF All, Some
    <3>3. qx[i] \notin Discs BY <1>3 DEF Some
    <3> QED BY <3>2, <3>3, OfIs, UnionIs
  <2> QED BY <2>2
<1>7. Rising(y, qx) BY <1>1 DEF Ending, Flow, Numbers
<1>8. Append(qx, m) = Mid(qx, m, <<>>)
  <2>1. m \in Pdu BY RespIs
  <2>2. Append(qx, m) = qx \o <<m>> /\ qx \o <<m>> \in Seq(Pdu) BY <2>1
  <2> QED BY <2>2, ConcatEmptySeq DEF Mid
<1>9. <<>> \in Seq(Infos \cup Plain) /\ After(<<>>, Connects, Plain) BY DEF After
<1> QED BY <1>4, <1>5, <1>6, <1>7, <1>8, <1>9, NewViewIs DEF Closing

(* Waiting for its own DM, it reads a DISC and confirms it. *)
LEMMA PairConfirms ==
    ASSUME NEW x \in Views, x.state = "W4_REMOTE_DM", NEW y \in Views, NEW qx \in Seq(Pdu), NEW qy \in Seq(Pdu), qy # <<>>,
           Head(qy) \in Discs, Pair(x, qx, y, qy), NEW m \in Resps
    PROVE  Pair(x, Append(qx, m), y, Tail(qy))
<1> DEFINE r == Tail(qy)  h == Head(qy)  z == Append(qx, m)
<1>0. /\ m \in Pdu /\ m \notin Acks /\ m \notin Discs /\ m \notin Infos /\ m \notin Connects
      /\ h \in Discs /\ h \notin Late /\ h \notin Resps /\ h \notin Infos /\ h \notin Connects
  BY RespIs, DiscIs
<1>1. Ending(x, qx, y, qy) /\ Ending(y, qy, x, qx) /\ x.ep = y.ep BY DEF Pair
<1>2. Flows(x, qx, y, r) BY <1>1, FlowsPop DEF Flows, Ending
<1>3. Flows(x, z, y, r) BY <1>0, <1>2, FlowsTalk
<1>4. Flow(x, z, y, r) /\ Flow(y, r, x, z) BY <1>3 DEF Flows
<1>5. /\ \A S : All(qy, S) <=> h \in S /\ All(r, S)
      /\ \A S : Some(qy, S) <=> h \in S \/ Some(r, S)
      /\ \A A, B : After(qy, A, B) <=> After(r, A, B) /\ (h \in A => All(r, B))
  BY Shorter
<1>6. /\ \A S : All(z, S) <=> All(qx, S) /\ m \in S
      /\ \A S : Some(z, S) <=> Some(qx, S) \/ m \in S
      /\ \A A, B : After(z, A, B) <=> After(qx, A, B) /\ (Some(qx, A) => m \in B)
  BY <1>0, Longer
<1>7. y.state = "CONNECTED" => Order(x, z, y) BY <1>0, <1>1, OrderSkip DEF Ending
<1> HIDE DEF r, h, z
<1>8. y.state = "W4_REMOTE_DM" /\ ~Some(qx, Resps) BY <1>0, <1>1, <1>5 DEF Ending
<1>9. ~Some(r, Discs)
  <2>1. All(r, Late \cup Resps) BY <1>0, <1>1, <1>5 DEF Ending
  <2>2. (Late \cup Resps) \cap Discs = {} BY DiscIs
  <2> QED BY <2>1, <2>2, AllWeak
<1>10. Ending(x, z, y, r)
  <2>1. All(z, Of(x.ep) \cup Connects \cup Dms \cup Resps) /\ After(z, Of(x.ep) \cup Resps, Pdu \ Connects)
    BY <1>0, <1>1, <1>6 DEF Ending
  <2>2. After(z, Discs, Late \cup Resps) /\ After(z, Resps, Late) BY <1>1, <1>6, <1>8 DEF Ending
  <2>3. x.state = "W4_REMOTE_DM" => Some(z, Discs) \/ Some(r, Resps) BY <1>0, <1>1, <1>5, <1>6 DEF Ending
  <2> QED BY <1>1, <1>4, <1>7, <1>8, <1>9, <2>1, <2>2, <2>3 DEF Ending
<1>11. Ending(y, r, x, z)
  <2>1. /\ All(r, Of(y.ep) \cup Connects \cup Dms \cup Resps) /\ After(r, Of(y.ep) \cup Resps, Pdu \ Connects)
        /\ After(r, Discs, Late \cup Resps) /\ After(r, Resps, Late)
    BY <1>1, <1>5 DEF Ending
  <2>2. Some(r, Resps) => ~Some(z, Discs) BY <1>0, <1>1, <1>5, <1>6 DEF Ending
  <2>3. Some(z, Resps) BY <1>6
  <2> QED BY <1>1, <1>4, <1>8, <2>1, <2>2, <2>3 DEF Ending
<1> QED BY <1>1, <1>10, <1>11 DEF Pair, r, z

(* A sequence is one of what its elements are. *)
LEMMA SeqOf ==
    ASSUME NEW S, NEW q \in Seq(S), NEW T, \A i \in DOMAIN q : q[i] \in T
    PROVE  q \in Seq(T)
OBVIOUS

(* Around the DM that confirms the end there are only acknowledgements, data and what belongs to no connection. *)
LEMMA AroundResp ==
    ASSUME NEW e, NEW y, NEW q \in Seq(Pdu), Some(q, Resps), ~Some(q, Discs), After(q, Resps, Late),
           All(q, Of(e) \cup Connects \cup Dms \cup Resps), Rising(y, q)
    PROVE  \E pre, m, r : /\ pre \in Seq(Acks \cup Plain) /\ m \in Resps /\ r \in Seq(Infos \cup Plain)
                          /\ q = Mid(pre, m, r) /\ Rising(y, pre) /\ After(r, Connects, Plain)
<1>1. PICK k \in DOMAIN q : q[k] \in Resps BY DEF Some
<1>2. DOMAIN q = 1..Len(q) /\ Len(q) \in Nat OBVIOUS
<1>3. k \in 1..Len(q) /\ k - 1 \in Nat /\ k \in Nat BY <1>1, <1>2
<1> DEFINE pre == SubSeq(q, 1, k - 1)  m == q[k]  r == SubSeq(q, k + 1, Len(q))
<1>4. /\ pre \in Seq(Pdu) /\ Len(pre) = k - 1
      /\ \A i \in 1..(k - 1) : pre[i] = q[i]
  BY <1>2, <1>3, SubSeqProperties
<1>5. /\ r \in Seq(Pdu) /\ Len(r) = Len(q) - k
      /\ \A i \in 1..(Len(q) - k) : r[i] = q[k + i]
  BY <1>2, <1>3, SubSeqProperties
<1>6. m \in Pdu BY <1>1, <1>2
<1> HIDE DEF pre, m, r
<1>7. q = Mid(pre, m, r)
  <2> DEFINE u == pre \o <<m>>
  <2>1. /\ u \in Seq(Pdu) /\ Len(u) = k
        /\ \A i \in 1..(k - 1) : u[i] = q[i]
        /\ u[k] = m
    BY <1>3, <1>4, <1>6
  <2> HIDE DEF u
  <2>2. /\ u \o r \in Seq(Pdu) /\ Len(u \o r) = Len(u) + Len(r)
        /\ \A i \in 1..(Len(u) + Len(r)) : (u \o r)[i] = IF i <= Len(u) THEN u[i] ELSE r[i - Len(u)]
    BY <1>5, <2>1, ConcatProperties
  <2>3. Len(u \o r) = Len(q) BY <1>2, <1>3, <1>5, <2>1, <2>2
  <2>4. ASSUME NEW i \in 1..Len(q) PROVE q[i] = (u \o r)[i]
    <3>1. i \in Nat /\ i >= 1 /\ i <= Len(q) BY <1>2
    <3>2. (u \o r)[i] = IF i <= k THEN u[i] ELSE r[i - k] BY <1>2, <1>3, <1>5, <2>1, <2>2, <3>1
    <3>3. CASE i < k BY <1>3, <2>1, <3>1, <3>2, <3>3
    <3>4. CASE i = k BY <2>1, <3>1, <3>2, <3>4 DEF m
    <3>5. CASE i > k
      <4>1. i - k \in 1..(Len(q) - k) /\ k + (i - k) = i BY <1>2, <1>3, <3>1, <3>5
      <4>2. r[i - k] = q[k + (i - k)] BY <1>5, <4>1
      <4>3. (u \o r)[i] = r[i - k] BY <1>3, <3>1, <3>2, <3>5
      <4> QED BY <4>1, <4>2, <4>3
    <3>6. i < k \/ i = k \/ i > k BY <1>3, <3>1
    <3> QED BY <3>3, <3>4, <3>5, <3>6
  <2>5. q = u \o r BY <2>2, <2>3, <2>4, SeqEqual
  <2> QED BY <2>5 DEF u, Mid
<1>8. DOMAIN pre = 1..(k - 1) /\ DOMAIN r = 1..(Len(q) - k) BY <1>4, <1>5
<1>9. \A i \in DOMAIN r : r[i] \in Late
  <2>1. \A i \in DOMAIN r : k + i \in DOMAIN q /\ k < k + i /\ r[i] = q[k + i] BY <1>2, <1>3, <1>5, <1>8
  <2> QED BY <1>1, <2>1 DEF After
<1>10. \A i \in DOMAIN pre : pre[i] \in Acks \cup Plain
  <2>1. TAKE i \in DOMAIN pre
  <2>2. i \in DOMAIN q /\ i < k /\ pre[i] = q[i] BY <1>2, <1>3, <1>4, <1>8
  <2>3. q[i] \notin Resps
    <3>1. q[k] \notin Late BY <1>1, RespIs
    <3> QED BY <1>1, <2>2, <3>1 DEF After
  <2>4. q[i] \notin Discs BY <2>2 DEF Some
  <2> QED BY <2>2, <2>3, <2>4, OfIs, UnionIs DEF All
<1>11. pre \in Seq(Acks \cup Plain) BY <1>4, <1>10, SeqOf
<1>12. r \in Seq(Infos \cup Plain)
  <2>1. \A i \in DOMAIN r : r[i] \in Infos \cup Plain BY <1>9, UnionIs
  <2> QED BY <1>5, <2>1, SeqOf
<1>13. After(r, Connects, Plain)
  <2>1. \A i \in DOMAIN r : r[i] \notin Connects BY <1>9, ConnectIs
  <2> QED BY <2>1 DEF After
<1>14. Rising(y, pre)
  <2>1. \A i \in DOMAIN pre : i \in DOMAIN q /\ pre[i] = q[i] BY <1>2, <1>3, <1>4, <1>8
  <2> QED BY <2>1 DEF Rising
<1> QED BY <1>1, <1>7, <1>11, <1>12, <1>13, <1>14 DEF m

(* Waiting for its DM, x reads it while its own is on the way. *)
LEMMA PairLeaves ==
    ASSUME NEW x \in Views, NEW y \in Views, y.ep # 0, NEW qx \in Seq(Pdu), NEW qy \in Seq(Pdu), qy # <<>>,
           Head(qy) \in Resps, Pair(x, qx, y, qy)
    PROVE  \E pre, m, q : Closing(y, Tail(qy), NewView, qx, pre, m, q)
<1> DEFINE r == Tail(qy)  h == Head(qy)
<1>1. Ending(x, qx, y, qy) /\ Ending(y, qy, x, qx) /\ x.ep = y.ep BY DEF Pair
<1>2. /\ \A S : Some(qy, S) <=> h \in S \/ Some(r, S)
      /\ \A A, B : After(qy, A, B) <=> After(r, A, B) /\ (h \in A => All(r, B))
  BY Shorter
<1>3. h \in Resps /\ h \notin Discs BY RespIs
<1> HIDE DEF r, h
<1>4. y.state = "W4_REMOTE_DM" /\ ~Some(qx, Discs) BY <1>1, <1>2, <1>3 DEF Ending
<1>5. All(r, Late) BY <1>1, <1>2, <1>3 DEF Ending
<1>6. ~Some(r, Discs)
  <2>1. Late \cap Discs = {} BY DiscIs
  <2> QED BY <1>5, <2>1, AllWeak
<1>7. Some(qx, Resps) BY <1>1, <1>2, <1>3, <1>4, <1>6 DEF Ending
<1>8. Rising(y, qx) /\ After(qx, Resps, Late) /\ All(qx, Of(x.ep) \cup Connects \cup Dms \cup Resps)
  BY <1>1 DEF Ending, Flow, Numbers
<1>9. PICK pre, m, q : /\ pre \in Seq(Acks \cup Plain) /\ m \in Resps /\ q \in Seq(Infos \cup Plain)
                       /\ qx = Mid(pre, m, q) /\ Rising(y, pre) /\ After(q, Connects, Plain)
  BY <1>4, <1>7, <1>8, AroundResp, ZenonT(60)
<1>10. Closing(y, r, NewView, qx, pre, m, q) BY <1>4, <1>5, <1>9, NewViewIs DEF Closing
<1> QED BY <1>10 DEF r

(* A PDU is read while the server waits for the client, by either. *)
LEMMA LoneReads ==
    ASSUME NEW w, NEW c \in Views, NEW s \in Views, NEW qc \in Seq(Pdu), NEW q \in Seq(Pdu), Lone(w, c, qc, s, q)
    PROVE  /\ qc # <<>> => Lone(w, c, Tail(qc), s, q)
           /\ q # <<>> => Lone(w, c, qc, s, Tail(q))
<1>1. Flows(c, qc, s, q) /\ Flows(s, q, c, qc) BY DEF Lone, Flows
<1>2. ASSUME qc # <<>> PROVE Lone(w, c, Tail(qc), s, q)
  <2>1. Flows(s, q, c, Tail(qc)) BY <1>1, <1>2, FlowsPop
  <2>2. All(Tail(qc), Plain) BY <1>2, Shorter DEF Lone
  <2> QED BY <2>1, <2>2 DEF Lone, Flows
<1>3. ASSUME q # <<>> PROVE Lone(w, c, qc, s, Tail(q))
  <2>1. Flows(c, qc, s, Tail(q)) BY <1>1, <1>3, FlowsPop
  <2>2. /\ All(q, Of(s.ep) \cup Dms) <=> Head(q) \in Of(s.ep) \cup Dms /\ All(Tail(q), Of(s.ep) \cup Dms)
        /\ Some(q, Discs) <=> Head(q) \in Discs \/ Some(Tail(q), Discs)
    BY <1>3, Shorter
  <2> QED BY <2>1, <2>2 DEF Lone, Flows
<1> QED BY <1>2, <1>3

(* While y confirms the end, y reads. *)
LEMMA ClosingReads ==
    ASSUME NEW x \in Views, NEW y, NEW qx \in Seq(Pdu), NEW qy, NEW pre, NEW m, NEW q, qx # <<>>,
           Closing(x, qx, y, qy, pre, m, q)
    PROVE  Closing(x, Tail(qx), y, qy, pre, m, q) /\ Head(qx) \in Late
BY Shorter DEF Closing

(* The parts of y's stream, and what x reads first. *)
LEMMA ClosingHead ==
    ASSUME NEW x \in Views, NEW y, NEW qx, NEW qy, NEW pre, NEW m, NEW q, Closing(x, qx, y, qy, pre, m, q)
    PROVE  /\ qy \in Seq(Pdu) /\ qy # <<>> /\ pre \in Seq(Pdu) /\ q \in Seq(Pdu) /\ m \in Pdu
           /\ pre = <<>> => Head(qy) = m /\ Tail(qy) = q
           /\ pre # <<>> => /\ Head(qy) = Head(pre) /\ Tail(qy) = Mid(Tail(pre), m, q)
                            /\ Head(pre) \in Acks \cup Plain /\ Tail(pre) \in Seq(Acks \cup Plain)
<1>1. /\ pre \in Seq(Acks \cup Plain) /\ m \in Resps /\ q \in Seq(Infos \cup Plain)
      /\ qy = Mid(pre, m, q)
  BY DEF Closing
<1>2. pre \in Seq(Pdu) /\ q \in Seq(Pdu) /\ m \in Pdu BY <1>1, KindsArePdus, SeqMonotonic, RespIs
<1>3. /\ Mid(pre, m, q) \in Seq(Pdu) /\ Mid(pre, m, q) # <<>>
      /\ pre = <<>> => Head(Mid(pre, m, q)) = m /\ Tail(Mid(pre, m, q)) = q
      /\ pre # <<>> => /\ Head(Mid(pre, m, q)) = Head(pre)
                       /\ Tail(Mid(pre, m, q)) = Mid(Tail(pre), m, q)
  BY <1>2, MidTail
<1>4. pre # <<>> => Head(pre) \in Acks \cup Plain /\ Tail(pre) \in Seq(Acks \cup Plain) BY <1>1
<1> QED BY <1>1, <1>2, <1>3, <1>4

(* x reads, ahead of the DM, what it ignores. *)
LEMMA ClosingDrops ==
    ASSUME NEW x \in Views, NEW y, NEW qx, NEW qy, NEW pre, NEW m, NEW q, Closing(x, qx, y, qy, pre, m, q), pre # <<>>
    PROVE  Closing(x, qx, y, Tail(qy), Tail(pre), m, q)
<1>1. /\ pre \in Seq(Pdu) /\ Tail(qy) = Mid(Tail(pre), m, q) /\ Tail(pre) \in Seq(Acks \cup Plain)
  BY ClosingHead
<1>2. Rising(x, Tail(pre)) BY <1>1, RisingPop DEF Closing
<1> QED BY <1>1, <1>2 DEF Closing

(* Or an acknowledgement, which is in range. *)
LEMMA ClosingAckRead ==
    ASSUME NEW x \in Views, Local(x), NEW y, NEW qx, NEW qy, NEW pre, NEW m, NEW q, Closing(x, qx, y, qy, pre, m, q), pre # <<>>,
           Head(qy) \in Acks, NEW x2, x2 = [x EXCEPT !.rcvd_ack_seq = Head(qy).nr]
    PROVE  AckRead(x, Head(qy), x2) /\ Closing(x2, qx, y, Tail(qy), Tail(pre), m, q)
<1>1. /\ pre \in Seq(Pdu) /\ Tail(qy) = Mid(Tail(pre), m, q) /\ Tail(pre) \in Seq(Acks \cup Plain)
      /\ Head(qy) = Head(pre)
  BY ClosingHead
<1>2. Head(pre) \in Acks /\ Head(pre) \in Pdu /\ Head(pre).nr \in SeqNum BY <1>1, AckIs, PduNumbers
<1>3. Rising(x, pre) BY DEF Closing
<1>4. Dist(Head(pre).nr, x.rcvd_ack_seq) <= Dist(x.next_tx_seq, x.rcvd_ack_seq)
  <2>1. 1 \in DOMAIN pre /\ Head(pre) = pre[1] BY <1>1, TailIs
  <2> QED BY <1>2, <1>3, <2>1 DEF Rising
<1>5. AckRead(x, Head(pre), x2) BY <1>1, <1>2, <1>4, NrInRangeIs DEF AckRead
<1>6. x2.state = x.state /\ x2.ep = x.ep /\ x2.next_tx_seq = x.next_tx_seq /\ x2.rcvd_ack_seq = Head(pre).nr
  BY <1>2, <1>5, AckReadIs
<1>7. Rising(x2, Tail(pre)) BY <1>1, <1>2, <1>3, <1>6, RisingAcked
<1> QED BY <1>1, <1>5, <1>6, <1>7 DEF Closing

(* What the client may read next. *)
LEMMA ClientHead ==
    ASSUME NEW e \in Nat, NEW w, NEW c \in Views, NEW s \in Views, NEW qc \in Seq(Pdu), NEW qs \in Seq(Pdu), qs # <<>>,
           Joint(e, w, c, qc, s, qs)
    PROVE  /\ Head(qs) \in Acks \cup Dms \cup Confirms \cup Discs \cup Resps
           /\ Head(qs) \in Confirms => ~Open(c)
           /\ Head(qs) \in Resps => c.state = "W4_REMOTE_DM"
<1> DEFINE h == Head(qs)
<1>1. \A S : All(qs, S) => h \in S BY Shorter
<1>2. \A S : h \in S => Some(qs, S) BY Shorter
<1>3. h \in Late => h \in Acks \cup Dms /\ h \notin Confirms /\ h \notin Resps BY UnionIs, DmIs, InfoIs
<1>4. \A x : h \in Of(x) \cup Dms => h \in Acks \cup Dms \cup Discs /\ h \notin Confirms /\ h \notin Resps
  BY OfIs, DmIs, AckIs, DiscIs
<1> HIDE DEF h
<1>5. CASE Nobody(c, qc, s, qs) BY <1>1, <1>3, <1>5 DEF Nobody, h
<1>6. CASE Invited(w, c, qc, s, qs) BY <1>1, <1>3, <1>6 DEF Invited, h
<1>7. CASE Lone(w, c, qc, s, qs) BY <1>1, <1>4, <1>7 DEF Lone, h
<1>8. CASE \E pre, m, q : Confirmed(w, c, qc, s, qs, pre, m, q)
  <2>0. PICK pre, m, q : Confirmed(w, c, qc, s, qs, pre, m, q) BY <1>8
  <2>1. /\ pre \in Seq(Late) /\ m \in Confirms /\ q \in Seq(Pdu) /\ qs = Mid(pre, m, q) /\ ~Open(c)
    BY <2>0 DEF Confirmed, Lone
  <2>2. pre \in Seq(Pdu) /\ m \in Pdu BY <2>1, KindsArePdus, SeqMonotonic
  <2>3. CASE pre = <<>>
    <3>1. h = m BY <2>1, <2>2, <2>3, MidTail DEF h
    <3> QED BY <2>1, <3>1, ConfirmIs DEF h
  <2>4. CASE pre # <<>>
    <3>1. h = Head(pre) BY <2>1, <2>2, <2>4, MidTail DEF h
    <3>2. h \in Late BY <2>1, <2>4, <3>1
    <3> QED BY <1>3, <3>2 DEF h
  <2> QED BY <2>3, <2>4
<1>9. CASE Joined(c, qc, s, qs)
  <2>1. /\ All(qs, Of(s.ep) \cup Connects \cup Dms \cup Resps) /\ All(qs, Pdu \ Connects)
        /\ Some(qs, Resps) => c.state = "W4_REMOTE_DM"
    BY <1>9 DEF Joined, Pair, Ending
  <2>2. h \in Of(s.ep) \cup Dms \/ h \in Resps BY <1>1, <2>1
  <2> QED BY <1>2, <1>4, <2>1, <2>2, RespIs DEF h
<1>10. CASE ServerCloses(c, qc, s, qs)
  <2>0. PICK pre, m, q : Closing(c, qc, s, qs, pre, m, q) BY <1>10 DEF ServerCloses
  <2>1. c.state = "W4_REMOTE_DM" /\ m \in Resps BY <2>0 DEF Closing
  <2>2. h \notin Connects BY <1>1, <1>10 DEF ServerCloses
  <2>3. CASE pre = <<>>
    <3>1. h = m BY <2>0, <2>3, ClosingHead DEF h
    <3> QED BY <2>1, <3>1, RespIs DEF h
  <2>4. CASE pre # <<>>
    <3>1. h \in Acks \cup Plain BY <2>0, <2>4, ClosingHead DEF h
    <3> QED BY <2>1, <2>2, <3>1, UnionIs, AckIs, DmIs DEF h
  <2> QED BY <2>3, <2>4
<1>11. CASE ClientCloses(c, qc, s, qs)
  <2>0. PICK pre, m, q : Closing(s, qs, c, qc, pre, m, q) BY <1>11 DEF ClientCloses
  <2>1. h \in Late BY <2>0, ClosingReads DEF h
  <2> QED BY <1>3, <2>1 DEF h
<1> QED BY <1>5, <1>6, <1>7, <1>8, <1>9, <1>10, <1>11 DEF Joint

(* What the server may read next. *)
LEMMA ServerHead ==
    ASSUME NEW e \in Nat, NEW w, NEW c \in Views, NEW s \in Views, NEW qc \in Seq(Pdu), NEW qs \in Seq(Pdu), qc # <<>>,
           Joint(e, w, c, qc, s, qs)
    PROVE  /\ Head(qc) \in Acks \cup Dms \cup Connects \cup Discs \cup Resps
           /\ Head(qc) \in Discs => Open(s)
           /\ Head(qc) \in Acks /\ Head(qc) \notin Infos => Open(s)
           /\ Head(qc) \in Resps => s.state = "W4_REMOTE_DM"
<1> DEFINE h == Head(qc)
<1>1. \A S : All(qc, S) => h \in S BY Shorter
<1>2. \A S : h \in S => Some(qc, S) BY Shorter
<1>3. h \in Infos \cup Plain => h \in Infos \cup Dms \cup Connects /\ h \notin Discs /\ h \notin Resps
  BY UnionIs, DmIs, InfoIs, ConnectIs
<1>4. h \in Infos \cup Dms \cup Connects => h \in Acks \cup Dms \cup Connects /\ (h \in Acks => h \in Infos)
  BY DmIs, InfoIs, ConnectIs
<1>5. h \in Plain \/ h \in Late => h \in Infos \cup Plain BY UnionIs
<1> HIDE DEF h
<1>6. CASE All(qc, Infos \cup Plain) \/ All(qc, Plain) \/ All(qc, Late) BY <1>1, <1>3, <1>4, <1>5, <1>6 DEF h
<1>7. CASE Joined(c, qc, s, qs)
  <2>1. /\ All(qc, Of(c.ep) \cup Connects \cup Dms \cup Resps) /\ Open(s)
        /\ Some(qc, Resps) => s.state = "W4_REMOTE_DM"
    BY <1>7 DEF Joined, Pair, Ending
  <2> QED BY <1>1, <1>2, <2>1, OfIs DEF h
<1>8. CASE ClientCloses(c, qc, s, qs)
  <2>0. PICK pre, m, q : Closing(s, qs, c, qc, pre, m, q) BY <1>8 DEF ClientCloses
  <2>1. s.state = "W4_REMOTE_DM" /\ Open(s) /\ m \in Resps BY <2>0 DEF Closing, Open
  <2>3. CASE pre = <<>>
    <3>1. h = m BY <2>0, <2>3, ClosingHead DEF h
    <3> QED BY <2>1, <3>1 DEF h
  <2>4. CASE pre # <<>>
    <3>1. h \in Acks \cup Plain BY <2>0, <2>4, ClosingHead DEF h
    <3> QED BY <2>1, <3>1, UnionIs DEF h
  <2> QED BY <2>3, <2>4
<1>9. \/ All(qc, Infos \cup Plain) \/ All(qc, Plain) \/ All(qc, Late)
      \/ Joined(c, qc, s, qs) \/ ClientCloses(c, qc, s, qs)
  BY DEF Joint, Nobody, Invited, Lone, Confirmed, ServerCloses, Closing
<1> QED BY <1>6, <1>7, <1>8, <1>9

(* The client reads what it ignores. *)
LEMMA ClientDrops ==
    ASSUME NEW e \in Nat, NEW w, NEW c \in Views, NEW s \in Views, NEW qc \in Seq(Pdu), NEW qs \in Seq(Pdu), qs # <<>>,
           Joint(e, w, c, qc, s, qs),
           \/ Head(qs) \in Dms
           \/ Head(qs) \in Infos /\ c.state # "CONNECTED"
           \/ Head(qs) \in Acks /\ ~Open(c)
           \/ Head(qs) \in Discs /\ ~Open(c)
           \/ Head(qs) \in Confirms /\ c.state # "W4_REMOTE_RESP"
    PROVE  Joint(e, w, c, qc, s, Tail(qs))
<1> DEFINE h == Head(qs)  r == Tail(qs)
<1>1. /\ r \in Seq(Pdu)
      /\ \A S : All(qs, S) <=> h \in S /\ All(r, S)
  BY Shorter
<1>2. Sides(e, w, c, qc, s) BY DEF Joint
<1>0. Open(c) => h \notin Discs /\ h \notin Resps /\ h \notin Confirms /\ (h \in Infos => c.state # "CONNECTED")
  BY ClientHead, DmIs, InfoIs, AckIs
<1> HIDE DEF h, r
<1>3. CASE Nobody(c, qc, s, qs)
  <2>1. Nobody(c, qc, s, r) BY <1>1, <1>3 DEF Nobody
  <2> QED BY <1>2, <2>1 DEF Joint, r
<1>4. CASE Invited(w, c, qc, s, qs)
  <2>1. Invited(w, c, qc, s, r) BY <1>1, <1>4 DEF Invited
  <2> QED BY <1>2, <2>1 DEF Joint, r
<1>5. CASE Lone(w, c, qc, s, qs)
  <2>1. Lone(w, c, qc, s, r) BY <1>5, LoneReads DEF r
  <2> QED BY <1>2, <2>1 DEF Joint, r
<1>6. CASE \E pre, m, q : Confirmed(w, c, qc, s, qs, pre, m, q)
  <2>0. PICK pre, m, q : Confirmed(w, c, qc, s, qs, pre, m, q) BY <1>6
  <2>1. /\ pre \in Seq(Late) /\ m \in Confirms /\ q \in Seq(Pdu) /\ qs = Mid(pre, m, q) /\ ~Open(c)
        /\ Lone(w, c, qc, s, q)
    BY <2>0 DEF Confirmed, Lone
  <2>2. pre \in Seq(Pdu) /\ m \in Pdu BY <2>1, KindsArePdus, SeqMonotonic
  <2>3. CASE pre = <<>>
    <3>0. q \in Seq(Pdu) BY <2>1
    <3>1. Tail(Mid(pre, m, q)) = q BY <2>2, <2>3, <3>0, MidTail
    <3>2. r = q BY <2>1, <3>1 DEF r
    <3> QED BY <1>2, <2>1, <3>2 DEF Joint, r
  <2>4. CASE pre # <<>>
    <3>1. r = Mid(Tail(pre), m, q) BY <2>1, <2>2, <2>4, MidTail DEF r
    <3>2. Tail(pre) \in Seq(Late) BY <2>1, <2>4
    <3>3. Confirmed(w, c, qc, s, r, Tail(pre), m, q) BY <2>0, <3>1, <3>2 DEF Confirmed
    <3> QED BY <1>2, <3>3 DEF Joint, r
  <2> QED BY <2>3, <2>4
<1>7. CASE Joined(c, qc, s, qs)
  <2>1. Open(c) BY <1>7 DEF Joined, Pair, Ending
  <2>2. Pair(c, qc, s, r) BY <1>0, <1>7, <2>1, PairDrops DEF Joined, r, h
  <2>3. All(r, Pdu \ Connects) BY <1>1, <1>7 DEF Joined
  <2> QED BY <1>2, <2>2, <2>3 DEF Joint, Joined, r
<1>8. CASE ServerCloses(c, qc, s, qs)
  <2>0. PICK pre, m, q : Closing(c, qc, s, qs, pre, m, q) BY <1>8 DEF ServerCloses
  <2>1. Open(c) /\ m \in Resps BY <2>0 DEF Closing, Open
  <2>2. pre # <<>> BY <1>0, <2>0, <2>1, ClosingHead DEF h
  <2>3. Closing(c, qc, s, r, Tail(pre), m, q) BY <2>0, <2>2, ClosingDrops DEF r
  <2>4. ServerCloses(c, qc, s, r) BY <1>1, <1>8, <2>3 DEF ServerCloses
  <2> QED BY <1>2, <2>4 DEF Joint, r
<1>9. CASE ClientCloses(c, qc, s, qs)
  <2>0. PICK pre, m, q : Closing(s, qs, c, qc, pre, m, q) BY <1>9 DEF ClientCloses
  <2>1. Closing(s, r, c, qc, pre, m, q) BY <2>0, ClosingReads DEF r
  <2>2. ClientCloses(c, qc, s, r) BY <2>1 DEF ClientCloses
  <2> QED BY <1>2, <2>2 DEF Joint, r
<1> QED BY <1>3, <1>4, <1>5, <1>6, <1>7, <1>8, <1>9 DEF Joint, r

(* The server reads what it ignores. *)
LEMMA ServerDrops ==
    ASSUME NEW e \in Nat, NEW w, NEW c \in Views, NEW s \in Views, NEW qc \in Seq(Pdu), NEW qs \in Seq(Pdu), qc # <<>>,
           Joint(e, w, c, qc, s, qs),
           \/ Head(qc) \in Dms
           \/ Head(qc) \in Connects /\ s.state # "IDLE"
           \/ Head(qc) \in Infos /\ s.state # "CONNECTED"
    PROVE  Joint(e, w, c, Tail(qc), s, qs)
<1> DEFINE h == Head(qc)  r == Tail(qc)
<1>1. /\ r \in Seq(Pdu)
      /\ \A S : All(qc, S) <=> h \in S /\ All(r, S)
      /\ \A A, B : After(qc, A, B) <=> After(r, A, B) /\ (h \in A => All(r, B))
  BY Shorter
<1>2. Sides(e, w, c, r, s)
  <2>1. Sides(e, w, c, qc, s) BY DEF Joint
  <2>2. \A i \in DOMAIN r : i + 1 \in DOMAIN qc /\ r[i] = qc[i + 1] BY TailIs
  <2> QED BY <2>1, <2>2 DEF Sides
<1>0. h \notin Discs /\ h \notin Resps /\ (h \in Infos => s.state # "CONNECTED")
  BY DmIs, ConnectIs, InfoIs
<1> HIDE DEF h, r
<1>3. CASE Nobody(c, qc, s, qs)
  <2>1. Nobody(c, r, s, qs) BY <1>1, <1>3 DEF Nobody
  <2> QED BY <1>2, <2>1 DEF Joint, r
<1>4. CASE Invited(w, c, qc, s, qs)
  <2>1. Invited(w, c, r, s, qs) BY <1>1, <1>4 DEF Invited
  <2> QED BY <1>2, <2>1 DEF Joint, r
<1>5. CASE Lone(w, c, qc, s, qs)
  <2>1. Lone(w, c, r, s, qs) BY <1>5, LoneReads DEF r
  <2> QED BY <1>2, <2>1 DEF Joint, r
<1>6. CASE \E pre, m, q : Confirmed(w, c, qc, s, qs, pre, m, q)
  <2>0. PICK pre, m, q : Confirmed(w, c, qc, s, qs, pre, m, q) BY <1>6
  <2>1. q \in Seq(Pdu) /\ Lone(w, c, qc, s, q) BY <2>0 DEF Confirmed
  <2>2. Lone(w, c, r, s, q) BY <2>1, LoneReads DEF r
  <2>3. Confirmed(w, c, r, s, qs, pre, m, q) BY <2>0, <2>2 DEF Confirmed
  <2> QED BY <1>2, <2>3 DEF Joint, r
<1>7. CASE Joined(c, qc, s, qs)
  <2>1. Pair(s, qs, c, qc) BY <1>7, PairTurn DEF Joined
  <2>2. Pair(s, qs, c, r) BY <1>0, <2>1, PairDrops DEF r, h
  <2>3. Pair(c, r, s, qs) BY <2>2, PairTurn
  <2> QED BY <1>2, <1>7, <2>3 DEF Joint, Joined, r
<1>8. CASE ServerCloses(c, qc, s, qs)
  <2>0. PICK pre, m, q : Closing(c, qc, s, qs, pre, m, q) BY <1>8 DEF ServerCloses
  <2>1. Closing(c, r, s, qs, pre, m, q) BY <2>0, ClosingReads DEF r
  <2>2. ServerCloses(c, r, s, qs) BY <1>8, <2>1 DEF ServerCloses
  <2> QED BY <1>2, <2>2 DEF Joint, r
<1>9. CASE ClientCloses(c, qc, s, qs)
  <2>0. PICK pre, m, q : Closing(s, qs, c, qc, pre, m, q) BY <1>9 DEF ClientCloses
  <2>1. m \in Resps BY <2>0 DEF Closing
  <2>2. pre # <<>> BY <1>0, <2>0, <2>1, ClosingHead DEF h
  <2>3. Closing(s, qs, c, r, Tail(pre), m, q) BY <2>0, <2>2, ClosingDrops DEF r
  <2>4. ClientCloses(c, r, s, qs) BY <2>3 DEF ClientCloses
  <2> QED BY <1>2, <2>4 DEF Joint, r
<1> QED BY <1>3, <1>4, <1>5, <1>6, <1>7, <1>8, <1>9 DEF Joint, r

(* A client that gets no connection. *)
LEMMA ClientGivesUp ==
    ASSUME NEW e \in Nat, NEW w, NEW c \in Views, Local(c), ~Open(c), NEW s \in Views,
           NEW qc \in Seq(Pdu), NEW qs \in Seq(Pdu), Joint(e, w, c, qc, s, qs)
    PROVE  Joint(e, w, NewView, qc, s, qs)
<1> DEFINE a == NewView
<1>1. /\ a \in Views /\ a.state = "IDLE" /\ a.ep = 0 /\ Blank(a) /\ ~Open(a) /\ a.last_nr = a.sent_ack_seq
  BY NewViewIs
<1>2. Blank(c) BY DEF Local
<1> HIDE DEF a
<1>3. Sides(e, w, a, qc, s) BY <1>1 DEF Joint, Sides
<1>4. /\ a.next_tx_seq = c.next_tx_seq /\ a.rcvd_ack_seq = c.rcvd_ack_seq /\ a.next_rx_seq = c.next_rx_seq
      /\ a.i_xmit_q = c.i_xmit_q /\ a.nsent = c.nsent /\ a.nrcvd = c.nrcvd /\ a.ncomplete = c.ncomplete
      /\ a.sent_ack_seq = c.sent_ack_seq
  BY <1>1, <1>2 DEF Blank
<1>5. \A q : Flows(c, qc, s, q) => Flows(a, qc, s, q) BY <1>4, FlowsSame
<1>6. \A q : Lone(w, c, qc, s, q) => Lone(w, a, qc, s, q) BY <1>1, <1>5 DEF Lone, Flows
<1>7. CASE Nobody(c, qc, s, qs)
  <2>1. Nobody(a, qc, s, qs) BY <1>1, <1>7 DEF Nobody
  <2> QED BY <1>3, <2>1 DEF Joint, a
<1>8. CASE Invited(w, c, qc, s, qs)
  <2>1. Invited(w, a, qc, s, qs) BY <1>1, <1>8 DEF Invited
  <2> QED BY <1>3, <2>1 DEF Joint, a
<1>9. CASE Lone(w, c, qc, s, qs)
  <2>1. Lone(w, a, qc, s, qs) BY <1>6, <1>9
  <2> QED BY <1>3, <2>1 DEF Joint, a
<1>10. CASE \E pre, m, q : Confirmed(w, c, qc, s, qs, pre, m, q)
  <2>0. PICK pre, m, q : Confirmed(w, c, qc, s, qs, pre, m, q) BY <1>10
  <2>1. Lone(w, a, qc, s, q) BY <1>6, <2>0 DEF Confirmed
  <2>2. Order(s, q, a) BY <1>4, <2>0, OrderSame DEF Confirmed
  <2>3. Confirmed(w, a, qc, s, qs, pre, m, q) BY <2>0, <2>1, <2>2 DEF Confirmed
  <2> QED BY <1>3, <2>3 DEF Joint, a
<1>11. CASE ClientCloses(c, qc, s, qs)
  <2>1. PICK pre, m, q : Closing(s, qs, c, qc, pre, m, q) BY <1>11 DEF ClientCloses
  <2>2. s.ep # 0
    <3>1. s.state # "IDLE" BY <2>1 DEF Closing
    <3> QED BY <3>1 DEF Joint, Sides
  <2>3. Closing(s, qs, a, qc, pre, m, q) BY <1>1, <2>1, <2>2 DEF Closing
  <2>4. ClientCloses(a, qc, s, qs) BY <2>3 DEF ClientCloses
  <2> QED BY <1>3, <2>4 DEF Joint, a
<1>12. ~Joined(c, qc, s, qs) /\ ~ServerCloses(c, qc, s, qs) BY DEF Joined, Pair, Ending, ServerCloses, Closing, Open
<1> QED BY <1>7, <1>8, <1>9, <1>10, <1>11, <1>12 DEF Joint, a

(* The phases in which the client is open. *)
LEMMA ClientOpen ==
    ASSUME NEW e, NEW w, NEW c, NEW s, NEW qc, NEW qs, Joint(e, w, c, qc, s, qs), Open(c)
    PROVE  /\ Joined(c, qc, s, qs) \/ ServerCloses(c, qc, s, qs)
           /\ c.state = "CONNECTED" => Joined(c, qc, s, qs)
           /\ Joined(c, qc, s, qs) => Open(s) /\ s.ep # 0 /\ c.ep # 0
<1>1. Joined(c, qc, s, qs) \/ ServerCloses(c, qc, s, qs)
  BY DEF Joint, Nobody, Invited, Lone, Confirmed, ClientCloses, Closing
<1>2. ServerCloses(c, qc, s, qs) => c.state # "CONNECTED" BY DEF ServerCloses, Closing
<1>3. Joined(c, qc, s, qs) => Open(s) BY DEF Joined, Pair, Ending
<1>4. Open(s) => s.ep # 0 BY DEF Joint, Sides, Open
<1>5. c.ep # 0 BY DEF Joint, Sides, Open
<1> QED BY <1>1, <1>2, <1>3, <1>4, <1>5

(* The phases in which the server is open. *)
LEMMA ServerOpen ==
    ASSUME NEW e, NEW w, NEW c, NEW s, NEW qc, NEW qs, Joint(e, w, c, qc, s, qs), Open(s)
    PROVE  /\ All(qc, Plain) \/ Joined(c, qc, s, qs) \/ ClientCloses(c, qc, s, qs)
           /\ s.state = "CONNECTED" => All(qc, Plain) \/ Joined(c, qc, s, qs)
           /\ Joined(c, qc, s, qs) => Open(c) /\ c.ep # 0 /\ s.ep # 0
<1>1. All(qc, Plain) \/ Joined(c, qc, s, qs) \/ ClientCloses(c, qc, s, qs)
  BY DEF Joint, Nobody, Invited, Lone, Confirmed, ServerCloses, Closing, Open
<1>2. ClientCloses(c, qc, s, qs) => s.state # "CONNECTED" BY DEF ClientCloses, Closing
<1>3. Joined(c, qc, s, qs) => Open(c) BY DEF Joined, Pair, Ending
<1>4. Open(c) => c.ep # 0 BY DEF Joint, Sides, Open
<1>5. s.ep # 0 BY DEF Joint, Sides, Open
<1> QED BY <1>1, <1>2, <1>3, <1>4, <1>5

(* What does not change the connects. *)
LEMMA ServerReads ==
    ASSUME NEW e \in Nat, NEW w, NEW c \in Views, NEW s \in Views, NEW qc \in Seq(Pdu), qc # <<>>, Sides(e, w, c, qc, s)
    PROVE  Sides(e, w, c, Tail(qc), s)
<1>1. \A i \in DOMAIN Tail(qc) : i + 1 \in DOMAIN qc /\ Tail(qc)[i] = qc[i + 1] BY TailIs
<1> QED BY <1>1 DEF Sides

(* The client reads an acknowledgement, which is in range. *)
LEMMA ClientAckRead ==
    ASSUME NEW e \in Nat, NEW w, NEW c \in Views, Local(c), NEW s \in Views, NEW qc \in Seq(Pdu), NEW qs \in Seq(Pdu), qs # <<>>,
           Head(qs) \in Acks, Head(qs) \notin Infos, Joint(e, w, c, qc, s, qs),
           NEW c2, c2 = [c EXCEPT !.rcvd_ack_seq = Head(qs).nr]
    PROVE  AckRead(c, Head(qs), c2) /\ Joint(e, w, c2, qc, s, Tail(qs))
<1> DEFINE h == Head(qs)
<1>0. h \in Pdu /\ h.nr \in SeqNum /\ h \notin Late /\ h \notin Confirms /\ h \notin Resps /\ h \notin Dms BY AckIs, PduNumbers
<1>1. \A S : All(qs, S) => h \in S BY Shorter
<1>2. CASE ~Open(c)
  <2>1. Lone(w, c, qc, s, qs)
    <3>1. ~Nobody(c, qc, s, qs) /\ ~Invited(w, c, qc, s, qs) BY <1>0, <1>1 DEF Nobody, Invited
    <3>2. ~ClientCloses(c, qc, s, qs) BY <1>0, <1>1 DEF ClientCloses, Closing
    <3>3. ~Joined(c, qc, s, qs) /\ ~ServerCloses(c, qc, s, qs)
      BY <1>2 DEF Joined, Pair, Ending, ServerCloses, Closing, Open
    <3>4. ASSUME NEW pre, NEW m, NEW q, Confirmed(w, c, qc, s, qs, pre, m, q) PROVE FALSE
      <4>1. /\ pre \in Seq(Late) /\ m \in Confirms /\ q \in Seq(Pdu) /\ qs = Mid(pre, m, q) BY <3>4 DEF Confirmed
      <4>2. pre \in Seq(Pdu) /\ m \in Pdu BY <4>1, KindsArePdus, SeqMonotonic
      <4>3. CASE pre = <<>>
        <5>0. q \in Seq(Pdu) BY <4>1
        <5>1. Head(Mid(pre, m, q)) = m BY <4>2, <4>3, <5>0, MidTail
        <5> QED BY <1>0, <4>1, <5>1
      <4>4. CASE pre # <<>>
        <5>1. h = Head(pre) BY <4>1, <4>2, <4>4, MidTail
        <5> QED BY <1>0, <4>1, <4>4, <5>1
      <4> QED BY <4>3, <4>4
    <3> QED BY <3>1, <3>2, <3>3, <3>4 DEF Joint
  <2>2. Rising(c, qs) BY <2>1 DEF Lone, Flow, Numbers
  <2>3. Dist(h.nr, c.rcvd_ack_seq) <= Dist(c.next_tx_seq, c.rcvd_ack_seq)
    <3>1. 1 \in DOMAIN qs /\ h = qs[1] BY TailIs
    <3> QED BY <2>2, <3>1 DEF Rising
  <2>4. AckRead(c, h, c2) BY <1>0, <2>3, NrInRangeIs DEF AckRead
  <2>5. c2 = c BY <1>0, <1>2, <2>4, AckReadIs
  <2>6. Joint(e, w, c, qc, s, Tail(qs)) BY <1>2, ClientDrops
  <2> QED BY <2>4, <2>5, <2>6
<1>3. CASE Open(c)
  <2>1. CASE Joined(c, qc, s, qs)
    <3>1. AckRead(c, h, c2) /\ Pair(c2, qc, s, Tail(qs)) BY <2>1, PairAckRead DEF Joined
    <3>2. All(Tail(qs), Pdu \ Connects) BY <2>1, Shorter DEF Joined
    <3>3. /\ c2.state = c.state /\ c2.ep = c.ep /\ c2.local_rw = c.local_rw
          /\ c2.sent_ack_seq = c.sent_ack_seq /\ c2.last_nr = c.last_nr
      BY <1>0, <3>1, AckReadIs
    <3>4. Sides(e, w, c2, qc, s) BY <3>3 DEF Joint, Sides
    <3> QED BY <3>1, <3>2, <3>4 DEF Joint, Joined
  <2>2. CASE ServerCloses(c, qc, s, qs)
    <3>1. PICK pre, m, q : Closing(c, qc, s, qs, pre, m, q) BY <2>2 DEF ServerCloses
    <3>2. pre # <<>>
      <4>1. m \in Resps BY <3>1 DEF Closing
      <4> QED BY <1>0, <3>1, <4>1, ClosingHead
    <3>3. AckRead(c, h, c2) /\ Closing(c2, qc, s, Tail(qs), Tail(pre), m, q) BY <3>1, <3>2, ClosingAckRead
    <3>4. All(Tail(qs), Pdu \ Connects) BY <2>2, Shorter DEF ServerCloses
    <3>5. /\ c2.state = c.state /\ c2.ep = c.ep /\ c2.local_rw = c.local_rw
          /\ c2.sent_ack_seq = c.sent_ack_seq /\ c2.last_nr = c.last_nr
      BY <1>0, <3>3, AckReadIs
    <3>6. Sides(e, w, c2, qc, s) BY <3>5 DEF Joint, Sides
    <3>7. ServerCloses(c2, qc, s, Tail(qs)) BY <2>2, <3>3, <3>4 DEF ServerCloses
    <3> QED BY <3>3, <3>6, <3>7 DEF Joint
  <2> QED BY <1>3, <2>1, <2>2, ClientOpen
<1> QED BY <1>2, <1>3

(* So does the server. *)
LEMMA ServerAckRead ==
    ASSUME NEW e \in Nat, NEW w, NEW c \in Views, NEW s \in Views, Local(s), NEW qc \in Seq(Pdu), NEW qs \in Seq(Pdu), qc # <<>>,
           Head(qc) \in Acks, Head(qc) \notin Infos, Joint(e, w, c, qc, s, qs),
           NEW s2, s2 = [s EXCEPT !.rcvd_ack_seq = Head(qc).nr]
    PROVE  AckRead(s, Head(qc), s2) /\ Joint(e, w, c, Tail(qc), s2, qs)
<1> DEFINE h == Head(qc)
<1>0. h \in Pdu /\ h.nr \in SeqNum /\ h \notin Plain /\ h \notin Resps BY AckIs, PduNumbers
<1>1. Open(s) BY ServerHead
<1>2. ~All(qc, Plain) BY <1>0, Shorter
<1>3. Sides(e, w, c, Tail(qc), s) BY ServerReads DEF Joint
<1>4. CASE Joined(c, qc, s, qs)
  <2>1. Pair(s, qs, c, qc) BY <1>4, PairTurn DEF Joined
  <2>2. AckRead(s, h, s2) /\ Pair(s2, qs, c, Tail(qc)) BY <2>1, PairAckRead
  <2>3. Pair(c, Tail(qc), s2, qs) BY <2>2, PairTurn
  <2>4. /\ s2.state = s.state /\ s2.ep = s.ep /\ s2.local_rw = s.local_rw
        /\ s2.sent_ack_seq = s.sent_ack_seq /\ s2.last_nr = s.last_nr
    BY <1>0, <2>2, AckReadIs
  <2>5. Sides(e, w, c, Tail(qc), s2) BY <1>3, <2>4 DEF Sides
  <2> QED BY <1>4, <2>2, <2>3, <2>5 DEF Joint, Joined
<1>5. CASE ClientCloses(c, qc, s, qs)
  <2>1. PICK pre, m, q : Closing(s, qs, c, qc, pre, m, q) BY <1>5 DEF ClientCloses
  <2>2. pre # <<>>
    <3>1. m \in Resps BY <2>1 DEF Closing
    <3> QED BY <1>0, <2>1, <3>1, ClosingHead
  <2>3. AckRead(s, h, s2) /\ Closing(s2, qs, c, Tail(qc), Tail(pre), m, q) BY <2>1, <2>2, ClosingAckRead
  <2>4. /\ s2.state = s.state /\ s2.ep = s.ep /\ s2.local_rw = s.local_rw
        /\ s2.sent_ack_seq = s.sent_ack_seq /\ s2.last_nr = s.last_nr
    BY <1>0, <2>3, AckReadIs
  <2>5. Sides(e, w, c, Tail(qc), s2) BY <1>3, <2>4 DEF Sides
  <2>6. ClientCloses(c, Tail(qc), s2, qs) BY <2>3 DEF ClientCloses
  <2> QED BY <2>3, <2>5, <2>6 DEF Joint
<1> QED BY <1>1, <1>2, <1>4, <1>5, ServerOpen

(* The client accepts an I PDU: it passes every check. *)
LEMMA ClientTakes ==
    ASSUME NEW e \in Nat, NEW w, NEW c \in Views, Local(c), c.state = "CONNECTED", NEW s \in Views, Local(s),
           NEW qc \in Seq(Pdu), NEW qs \in Seq(Pdu), qs # <<>>,
           Head(qs) \in Infos, Joint(e, w, c, qc, s, qs), NEW c2, c2 = Taken(c, Head(qs))
    PROVE  /\ Takes(c, Head(qs), c2) /\ Joint(e, w, c2, qc, s, Tail(qs))
           /\ Head(qs).ns = c.next_rx_seq /\ Head(qs).sdu = c.nrcvd + 1 /\ Head(qs).ep = c.ep
           /\ Dist(Head(qs).ns, c.sent_ack_seq) < c.local_rw
<1>0. Head(qs) \in Pdu BY InfoIs
<1>1. Joined(c, qc, s, qs) BY ClientOpen DEF Open
<1>2. /\ Takes(c, Head(qs), c2) /\ Pair(c2, qc, s, Tail(qs))
      /\ Head(qs).ns = c.next_rx_seq /\ Head(qs).sdu = c.nrcvd + 1 /\ Head(qs).ep = c.ep
      /\ Dist(Head(qs).ns, c.sent_ack_seq) < c.local_rw
  BY <1>1, PairTakes DEF Joined
<1>3. All(Tail(qs), Pdu \ Connects) BY <1>1, Shorter DEF Joined
<1>4. /\ c2.state = c.state /\ c2.ep = c.ep /\ c2.local_rw = c.local_rw
      /\ c2.sent_ack_seq = c.sent_ack_seq /\ c2.last_nr = c.last_nr
  BY <1>0, <1>2, TakesIs
<1>5. Sides(e, w, c2, qc, s) BY <1>4 DEF Joint, Sides
<1>6. Joint(e, w, c2, qc, s, Tail(qs)) BY <1>2, <1>3, <1>5 DEF Joint, Joined
<1> QED BY <1>2, <1>6

(* The server does. *)
LEMMA ServerTakes ==
    ASSUME NEW e \in Nat, NEW w, NEW c \in Views, Local(c), NEW s \in Views, Local(s), s.state = "CONNECTED",
           NEW qc \in Seq(Pdu), NEW qs \in Seq(Pdu), qc # <<>>,
           Head(qc) \in Infos, Joint(e, w, c, qc, s, qs), NEW s2, s2 = Taken(s, Head(qc))
    PROVE  /\ Takes(s, Head(qc), s2) /\ Joint(e, w, c, Tail(qc), s2, qs)
           /\ Head(qc).ns = s.next_rx_seq /\ Head(qc).sdu = s.nrcvd + 1 /\ Head(qc).ep = s.ep
           /\ Dist(Head(qc).ns, s.sent_ack_seq) < s.local_rw
<1>0. Head(qc) \in Pdu /\ Head(qc) \notin Plain BY InfoIs
<1>1. ~All(qc, Plain) BY <1>0, Shorter
<1>2. Joined(c, qc, s, qs) BY <1>1, ServerOpen DEF Open
<1>3. Pair(s, qs, c, qc) BY <1>2, PairTurn DEF Joined
<1>4. /\ Takes(s, Head(qc), s2) /\ Pair(s2, qs, c, Tail(qc))
      /\ Head(qc).ns = s.next_rx_seq /\ Head(qc).sdu = s.nrcvd + 1 /\ Head(qc).ep = s.ep
      /\ Dist(Head(qc).ns, s.sent_ack_seq) < s.local_rw
  BY <1>3, PairTakes
<1>5. Pair(c, Tail(qc), s2, qs) BY <1>4, PairTurn
<1>6. /\ s2.state = s.state /\ s2.ep = s.ep /\ s2.local_rw = s.local_rw
      /\ s2.sent_ack_seq = s.sent_ack_seq /\ s2.last_nr = s.last_nr
  BY <1>0, <1>4, TakesIs
<1>7. Sides(e, w, c, Tail(qc), s) BY ServerReads DEF Joint
<1>8. Sides(e, w, c, Tail(qc), s2) BY <1>6, <1>7 DEF Sides
<1>9. Joint(e, w, c, Tail(qc), s2, qs) BY <1>2, <1>5, <1>8 DEF Joint, Joined
<1> QED BY <1>4, <1>9

(* A connected device reads a DISC, and confirms it. *)
LEMMA ClientEnds ==
    ASSUME NEW e \in Nat, NEW w, NEW c \in Views, c.state = "CONNECTED", NEW s \in Views,
           NEW qc \in Seq(Pdu), NEW qs \in Seq(Pdu), qs # <<>>,
           Head(qs) \in Discs, NEW m \in Resps, Joint(e, w, c, qc, s, qs)
    PROVE  Joint(e, w, NewView, Append(qc, m), s, Tail(qs))
<1>1. Joined(c, qc, s, qs) /\ s.ep # 0 BY ClientOpen DEF Open
<1>2. Closing(s, Tail(qs), NewView, Append(qc, m), qc, m, <<>>) BY <1>1, PairCloses DEF Joined
<1>3. ClientCloses(NewView, Append(qc, m), s, Tail(qs)) BY <1>2 DEF ClientCloses
<1>4. Sides(e, w, NewView, Append(qc, m), s)
  <2>1. m \notin Connects BY RespIs
  <2>2. \A i \in DOMAIN Append(qc, m) : Append(qc, m)[i] \in Connects => \E j \in DOMAIN qc : qc[j] = Append(qc, m)[i]
    BY <2>1, NoConnect
  <2> QED BY <2>2, NewViewIs DEF Joint, Sides
<1> QED BY <1>3, <1>4 DEF Joint

(* So does the server. *)
LEMMA ServerEnds ==
    ASSUME NEW e \in Nat, NEW w, NEW c \in Views, NEW s \in Views, s.state = "CONNECTED",
           NEW qc \in Seq(Pdu), NEW qs \in Seq(Pdu), qc # <<>>,
           Head(qc) \in Discs, NEW m \in Resps, Joint(e, w, c, qc, s, qs)
    PROVE  Joint(e, w, c, Tail(qc), NewView, Append(qs, m))
<1>0. Head(qc) \notin Plain /\ m \in Pdu /\ m \notin Connects BY DiscIs, RespIs
<1>1. ~All(qc, Plain) BY <1>0, Shorter
<1>2. Joined(c, qc, s, qs) /\ c.ep # 0 BY <1>1, ServerOpen DEF Open
<1>3. Pair(s, qs, c, qc) BY <1>2, PairTurn DEF Joined
<1>4. Closing(c, Tail(qc), NewView, Append(qs, m), qs, m, <<>>) BY <1>2, <1>3, PairCloses
<1>5. All(Append(qs, m), Pdu \ Connects) BY <1>0, <1>2, Longer DEF Joined
<1>6. ServerCloses(c, Tail(qc), NewView, Append(qs, m)) BY <1>4, <1>5, NewViewIs DEF ServerCloses
<1>7. Sides(e, w, c, Tail(qc), s) BY ServerReads DEF Joint
<1>8. Sides(e, w, c, Tail(qc), NewView) BY <1>7, NewViewIs DEF Sides
<1> QED BY <1>6, <1>8 DEF Joint

(* Both had asked for the end. *)
LEMMA ClientCrosses ==
    ASSUME NEW e \in Nat, NEW w, NEW c \in Views, c.state = "W4_REMOTE_DM", NEW s \in Views,
           NEW qc \in Seq(Pdu), NEW qs \in Seq(Pdu), qs # <<>>,
           Head(qs) \in Discs, NEW m \in Resps, Joint(e, w, c, qc, s, qs)
    PROVE  Joint(e, w, c, Append(qc, m), s, Tail(qs))
<1>0. m \notin Connects /\ Head(qs) \notin Acks /\ Head(qs) \notin Plain /\ Head(qs) \notin Resps BY DiscIs, RespIs
<1>1. Joined(c, qc, s, qs)
  <2>1. ASSUME ServerCloses(c, qc, s, qs) PROVE FALSE
    <3>1. PICK pre, m1, q : Closing(c, qc, s, qs, pre, m1, q) BY <2>1 DEF ServerCloses
    <3>2. m1 \in Resps BY <3>1 DEF Closing
    <3>3. pre # <<>> BY <1>0, <3>1, <3>2, ClosingHead
    <3>4. Head(qs) \in Acks \cup Plain BY <3>1, <3>3, ClosingHead
    <3> QED BY <1>0, <3>4
  <2> QED BY <2>1, ClientOpen DEF Open
<1>2. Pair(c, Append(qc, m), s, Tail(qs)) BY <1>1, PairConfirms DEF Joined
<1>3. All(Tail(qs), Pdu \ Connects) BY <1>1, Shorter DEF Joined
<1>4. Sides(e, w, c, Append(qc, m), s)
  <2>1. \A i \in DOMAIN Append(qc, m) : Append(qc, m)[i] \in Connects => \E j \in DOMAIN qc : qc[j] = Append(qc, m)[i]
    BY <1>0, NoConnect
  <2> QED BY <2>1 DEF Joint, Sides
<1> QED BY <1>2, <1>3, <1>4 DEF Joint, Joined

(* So does the server. *)
LEMMA ServerCrosses ==
    ASSUME NEW e \in Nat, NEW w, NEW c \in Views, NEW s \in Views, s.state = "W4_REMOTE_DM",
           NEW qc \in Seq(Pdu), NEW qs \in Seq(Pdu), qc # <<>>,
           Head(qc) \in Discs, NEW m \in Resps, Joint(e, w, c, qc, s, qs)
    PROVE  Joint(e, w, c, Tail(qc), s, Append(qs, m))
<1>0. /\ m \in Pdu /\ m \notin Connects
      /\ Head(qc) \notin Acks /\ Head(qc) \notin Plain /\ Head(qc) \notin Resps
  BY DiscIs, RespIs
<1>1. ~All(qc, Plain) BY <1>0, Shorter
<1>2. Joined(c, qc, s, qs)
  <2>1. ASSUME ClientCloses(c, qc, s, qs) PROVE FALSE
    <3>1. PICK pre, m1, q : Closing(s, qs, c, qc, pre, m1, q) BY <2>1 DEF ClientCloses
    <3>2. m1 \in Resps BY <3>1 DEF Closing
    <3>3. pre # <<>> BY <1>0, <3>1, <3>2, ClosingHead
    <3>4. Head(qc) \in Acks \cup Plain BY <3>1, <3>3, ClosingHead
    <3> QED BY <1>0, <3>4
  <2> QED BY <1>1, <2>1, ServerOpen DEF Open
<1>3. Pair(s, qs, c, qc) BY <1>2, PairTurn DEF Joined
<1>4. Pair(s, Append(qs, m), c, Tail(qc)) BY <1>3, PairConfirms
<1>5. Pair(c, Tail(qc), s, Append(qs, m)) BY <1>4, PairTurn
<1>6. All(Append(qs, m), Pdu \ Connects) BY <1>0, <1>2, Longer DEF Joined
<1>7. Sides(e, w, c, Tail(qc), s) BY ServerReads DEF Joint
<1> QED BY <1>5, <1>6, <1>7 DEF Joint, Joined

(* A device that asked for the end reads the DM that confirms it. *)
LEMMA ClientLeaves ==
    ASSUME NEW e \in Nat, NEW w, NEW c \in Views, c.state = "W4_REMOTE_DM", NEW s \in Views,
           NEW qc \in Seq(Pdu), NEW qs \in Seq(Pdu), qs # <<>>, Head(qs) \in Resps, Joint(e, w, c, qc, s, qs)
    PROVE  Joint(e, w, NewView, qc, s, Tail(qs))
<1>0. Head(qs) \notin Acks /\ Head(qs) \notin Plain BY RespIs
<1>1. Sides(e, w, NewView, qc, s) BY NewViewIs DEF Joint, Sides
<1>2. CASE Joined(c, qc, s, qs)
  <2>1. s.ep # 0 BY <1>2, ClientOpen DEF Open
  <2>2. PICK pre, m, q : Closing(s, Tail(qs), NewView, qc, pre, m, q) BY <1>2, <2>1, PairLeaves DEF Joined
  <2>3. ClientCloses(NewView, qc, s, Tail(qs)) BY <2>2 DEF ClientCloses
  <2> QED BY <1>1, <2>3 DEF Joint
<1>3. CASE ServerCloses(c, qc, s, qs)
  <2>1. PICK pre, m, q : Closing(c, qc, s, qs, pre, m, q) BY <1>3 DEF ServerCloses
  <2>2. pre = <<>>
    <3>1. ASSUME pre # <<>> PROVE FALSE
      <4>1. Head(qs) \in Acks \cup Plain BY <2>1, <3>1, ClosingHead
      <4> QED BY <1>0, <4>1
    <3> QED BY <3>1
  <2>3. Tail(qs) = q BY <2>1, <2>2, ClosingHead
  <2>4. q \in Seq(Infos \cup Plain) /\ All(qc, Late) BY <2>1 DEF Closing
  <2>5. All(Tail(qs), Pdu \ Connects) BY <1>3, Shorter DEF ServerCloses
  <2>6. All(Tail(qs), Late)
    <3>1. ASSUME NEW i \in DOMAIN q PROVE q[i] \in Late
      <4>1. q[i] \in Infos \cup Plain BY <2>4
      <4>2. q[i] \notin Connects BY <2>3, <2>5 DEF All
      <4> QED BY <4>1, <4>2, UnionIs
    <3> QED BY <2>3, <3>1 DEF All
  <2>7. All(qc, Infos \cup Plain) /\ After(qc, Connects, Plain)
    <3>1. Late \subseteq Infos \cup Plain /\ Late \cap Connects = {} BY UnionIs, ConnectIs
    <3> QED BY <2>4, <3>1, AllWeak
  <2>8. Nobody(NewView, qc, s, Tail(qs)) BY <1>3, <2>6, <2>7, NewViewIs DEF Nobody, ServerCloses
  <2> QED BY <1>1, <2>8 DEF Joint
<1> QED BY <1>2, <1>3, ClientOpen DEF Open

(* So does the server. *)
LEMMA ServerLeaves ==
    ASSUME NEW e \in Nat, NEW w, NEW c \in Views, NEW s \in Views, s.state = "W4_REMOTE_DM",
           NEW qc \in Seq(Pdu), NEW qs \in Seq(Pdu), qc # <<>>, Head(qc) \in Resps, Joint(e, w, c, qc, s, qs)
    PROVE  Joint(e, w, c, Tail(qc), NewView, qs)
<1>0. Head(qc) \notin Acks /\ Head(qc) \notin Plain BY RespIs
<1>1. Sides(e, w, c, Tail(qc), NewView)
  <2>1. Sides(e, w, c, Tail(qc), s) BY ServerReads DEF Joint
  <2> QED BY <2>1, NewViewIs DEF Sides
<1>2. ~All(qc, Plain) BY <1>0, Shorter
<1>3. CASE Joined(c, qc, s, qs)
  <2>1. c.ep # 0 BY <1>3, ServerOpen DEF Open
  <2>2. Pair(s, qs, c, qc) BY <1>3, PairTurn DEF Joined
  <2>3. PICK pre, m, q : Closing(c, Tail(qc), NewView, qs, pre, m, q) BY <2>1, <2>2, PairLeaves
  <2>4. ServerCloses(c, Tail(qc), NewView, qs) BY <1>3, <2>3, NewViewIs DEF ServerCloses, Joined
  <2> QED BY <1>1, <2>4 DEF Joint
<1>4. CASE ClientCloses(c, qc, s, qs)
  <2>1. PICK pre, m, q : Closing(s, qs, c, qc, pre, m, q) BY <1>4 DEF ClientCloses
  <2>2. pre = <<>>
    <3>1. ASSUME pre # <<>> PROVE FALSE
      <4>1. Head(qc) \in Acks \cup Plain BY <2>1, <3>1, ClosingHead
      <4> QED BY <1>0, <4>1
    <3> QED BY <3>1
  <2>3. Tail(qc) = q BY <2>1, <2>2, ClosingHead
  <2>4. /\ q \in Seq(Infos \cup Plain) /\ After(q, Connects, Plain) /\ All(qs, Late) /\ ~Open(c)
    BY <2>1 DEF Closing
  <2>5. All(q, Infos \cup Plain) BY <2>4 DEF All
  <2>6. Nobody(c, Tail(qc), NewView, qs) BY <2>3, <2>4, <2>5, NewViewIs DEF Nobody
  <2> QED BY <1>1, <2>6 DEF Joint
<1> QED BY <1>2, <1>3, <1>4, ServerOpen DEF Open

(* What a CC, or a CONNECT, leaves. *)
Begun(v, state, local_rw, p) == [v EXCEPT !.state = state, !.local_rw = local_rw, !.remote_rw = p.rw, !.ep = p.ep]

(* The view that a CC or a CONNECT leaves, field by field. *)
LEMMA BegunIs ==
    ASSUME NEW v \in Views, Blank(v), NEW state \in DLC_STATE, NEW rw \in SeqNum, NEW p \in Pdu, NEW v2, v2 = Begun(v, state, rw, p)
    PROVE  /\ v2 \in Views /\ v2.state = state /\ v2.local_rw = rw /\ v2.remote_rw = p.rw /\ v2.ep = p.ep
           /\ v2.next_tx_seq = v.next_tx_seq /\ v2.rcvd_ack_seq = v.rcvd_ack_seq /\ v2.next_rx_seq = v.next_rx_seq
           /\ v2.i_xmit_q = v.i_xmit_q /\ v2.nsent = v.nsent /\ v2.nrcvd = v.nrcvd /\ v2.ncomplete = v.ncomplete
           /\ v2.sent_ack_seq = v.sent_ack_seq /\ v2.last_nr = v.last_nr
           /\ Blank(v2) /\ Local(v2)
<1>0. p.rw \in SeqNum /\ p.ep \in Nat BY DEF Pdu
<1>1. \A r \in SeqNum, k \in Nat : [v EXCEPT !.state = state, !.local_rw = rw, !.remote_rw = r, !.ep = k] \in Views BY DEF Views
<1>2. v2 \in Views BY <1>0, <1>1 DEF Begun
<1>3. /\ v2.state = state /\ v2.local_rw = rw /\ v2.remote_rw = p.rw /\ v2.ep = p.ep
      /\ v2.next_tx_seq = v.next_tx_seq /\ v2.rcvd_ack_seq = v.rcvd_ack_seq /\ v2.next_rx_seq = v.next_rx_seq
      /\ v2.i_xmit_q = v.i_xmit_q /\ v2.nsent = v.nsent /\ v2.nrcvd = v.nrcvd /\ v2.ncomplete = v.ncomplete
      /\ v2.sent_ack_seq = v.sent_ack_seq /\ v2.last_nr = v.last_nr
  BY DEF Begun, Views
<1>4. Blank(v2) BY <1>3 DEF Blank
<1>5. Local(v2)
  <2>1. v2.next_tx_seq = 0 /\ v2.rcvd_ack_seq = 0 /\ v2.i_xmit_q = <<>> /\ v2.nsent = 0 BY <1>4 DEF Blank
  <2>2. Dist(0, 0) = 0 /\ v2.remote_rw \in Nat BY <1>0, <1>3, SeqNumFacts, DistZero
  <2> QED BY <1>4, <2>1, <2>2 DEF Local
<1> QED BY <1>2, <1>3, <1>4, <1>5

(* The client reads the CC it waits for. *)
LEMMA ClientConnects ==
    ASSUME NEW e \in Nat, NEW w, w[Server] \in SeqNum, NEW c \in Views, Local(c), c.state = "W4_REMOTE_RESP", NEW s \in Views,
           NEW qc \in Seq(Pdu), NEW qs \in Seq(Pdu), qs # <<>>,
           Head(qs) \in Confirms, Joint(e, w, c, qc, s, qs),
           NEW c2, c2 = Begun(c, "CONNECTED", c.local_rw, Head(qs))
    PROVE  Joint(e, w, c2, qc, s, Tail(qs))
<1> DEFINE h == Head(qs)
<1>0. h \in Pdu /\ h \notin Late /\ h \notin Acks /\ h \notin Discs /\ h \notin Dms BY ConfirmIs
<1>1. \A S : All(qs, S) => h \in S BY Shorter
<1>2. ~Open(c) /\ Blank(c) BY DEF Open, Local
<1>3. \A x : h \notin Of(x) \cup Dms BY <1>0, OfIs
<1>4. \E pre, m, q : Confirmed(w, c, qc, s, qs, pre, m, q)
  <2>1. ~Nobody(c, qc, s, qs) /\ ~Invited(w, c, qc, s, qs) /\ ~Lone(w, c, qc, s, qs)
    BY <1>0, <1>1, <1>3 DEF Nobody, Invited, Lone
  <2>2. ~ClientCloses(c, qc, s, qs) BY <1>0, <1>1 DEF ClientCloses, Closing
  <2>3. ~Joined(c, qc, s, qs) /\ ~ServerCloses(c, qc, s, qs)
    BY <1>2 DEF Joined, Pair, Ending, ServerCloses, Closing, Open
  <2> QED BY <2>1, <2>2, <2>3 DEF Joint
<1>5. PICK pre, m, q : Confirmed(w, c, qc, s, qs, pre, m, q) BY <1>4
<1>6. /\ pre \in Seq(Late) /\ m \in Confirms /\ q \in Seq(Pdu) /\ qs = Mid(pre, m, q)
      /\ m.rw = w[Server] /\ m.ep = s.ep
      /\ Lone(w, c, qc, s, q) /\ Order(s, q, c) /\ After(q, Discs, Late)
      /\ s.state = "W4_REMOTE_DM" => Some(q, Discs)
  BY <1>5 DEF Confirmed
<1>7. pre \in Seq(Pdu) /\ m \in Pdu /\ q \in Seq(Pdu) BY <1>6, KindsArePdus, SeqMonotonic
<1>8. pre = <<>>
  <2>1. ASSUME pre # <<>> PROVE FALSE
    <3>1. Head(Mid(pre, m, q)) = Head(pre) BY <1>7, <2>1, MidTail
    <3> QED BY <1>0, <1>6, <2>1, <3>1
  <2> QED BY <2>1
<1>9. Head(Mid(pre, m, q)) = m /\ Tail(Mid(pre, m, q)) = q BY <1>7, <1>8, MidTail
<1>10. h = m /\ Tail(qs) = q BY <1>6, <1>9
<1>11. c.local_rw \in SeqNum /\ "CONNECTED" \in DLC_STATE BY ViewNumbers DEF DLC_STATE
<1>12. /\ c2 \in Views /\ c2.state = "CONNECTED" /\ c2.local_rw = c.local_rw /\ c2.remote_rw = h.rw /\ c2.ep = h.ep
       /\ c2.next_tx_seq = c.next_tx_seq /\ c2.rcvd_ack_seq = c.rcvd_ack_seq /\ c2.next_rx_seq = c.next_rx_seq
       /\ c2.i_xmit_q = c.i_xmit_q /\ c2.nsent = c.nsent /\ c2.nrcvd = c.nrcvd /\ c2.ncomplete = c.ncomplete
       /\ c2.sent_ack_seq = c.sent_ack_seq /\ c2.last_nr = c.last_nr
       /\ Blank(c2)
  BY <1>0, <1>2, <1>11, BegunIs
<1> HIDE DEF h
<1>13. /\ Open(s) /\ s.remote_rw = w[Client] /\ s.local_rw = w[Server]
       /\ All(qc, Plain) /\ All(q, Of(s.ep) \cup Dms)
       /\ Flow(c, qc, s, q) /\ Flow(s, q, c, qc)
       /\ Some(q, Discs) => s.state = "W4_REMOTE_DM"
  BY <1>6 DEF Lone
<1>14. Flow(c2, qc, s, q) /\ Flow(s, q, c2, qc) BY <1>12, <1>13, FlowsSame DEF Flows
<1>15. Sides(e, w, c, qc, s) BY DEF Joint
<1>16. c.local_rw = w[Client] /\ s.ep \in 1..e BY <1>13, <1>15 DEF Sides, Open
<1>17. Sides(e, w, c2, qc, s)
  <2>1. c2.ep = s.ep BY <1>6, <1>10, <1>12
  <2> QED BY <1>12, <1>15, <1>16, <2>1 DEF Sides
<1>18. /\ Plain \cap Acks = {} /\ Plain \cap Discs = {} /\ Plain \cap Infos = {} /\ Plain \cap Resps = {}
  BY DmIs, ConnectIs, UnionIs
<1>19. ~Some(qc, Acks) /\ ~Some(qc, Discs) /\ ~Some(qc, Infos) /\ ~Some(qc, Resps)
  <2>1. \A A : Plain \cap A = {} => ~Some(qc, A) BY <1>13, AllWeak
  <2> QED BY <1>18, <2>1
<1>20. ~Some(q, Connects) /\ ~Some(q, Resps) /\ All(q, Of(s.ep) \cup Connects \cup Dms \cup Resps) /\ All(q, Pdu \ Connects)
  <2>1. (Of(s.ep) \cup Dms) \cap Connects = {} /\ (Of(s.ep) \cup Dms) \cap Resps = {} BY OfIs, AckIs, DiscIs, DmIs
  <2>2. ~Some(q, Connects) /\ ~Some(q, Resps) BY <1>13, <2>1, AllWeak
  <2>3. All(q, Pdu \ Connects) BY <1>7, <2>2 DEF All, Some
  <2> QED BY <1>13, <2>2, <2>3, AllWeak
<1>21. Order(c2, qc, s)
  <2>1. Vs(c2) = 0
    <3>1. c2.i_xmit_q = <<>> /\ c2.nsent = 0 BY <1>12 DEF Blank
    <3>2. Len(<<>>) = 0 BY EmptySeq
    <3>3. Vs(c2) = 0 - 0 BY <3>1, <3>2, Zenon DEF Vs
    <3> QED BY <3>3
  <2>2. s.nrcvd \in Nat BY ViewNumbers
  <2> QED BY <1>19, <2>1, <2>2 DEF Order, Some
<1>22. Open(c2) BY <1>12 DEF Open
<1>23. Ending(c2, qc, s, q)
  <2>1. c2.remote_rw = s.local_rw BY <1>6, <1>10, <1>12, <1>13
  <2>2. All(qc, Of(c2.ep) \cup Connects \cup Dms \cup Resps)
    <3>1. Plain \subseteq Of(c2.ep) \cup Connects \cup Dms \cup Resps BY UnionIs
    <3> QED BY <1>13, <3>1, AllWeak
  <2>3. After(qc, Of(c2.ep) \cup Resps, Pdu \ Connects)
    <3>1. ~Some(qc, Of(c2.ep) \cup Resps) BY <1>19, OfIs DEF Some
    <3> QED BY <3>1, AllWeak
  <2>4. After(qc, Discs, Late \cup Resps) /\ After(qc, Resps, Late) BY <1>19, AllWeak
  <2> QED BY <1>12, <1>14, <1>19, <1>21, <1>22, <2>1, <2>2, <2>3, <2>4 DEF Ending
<1>24. Ending(s, q, c2, qc)
  <2>1. s.remote_rw = c2.local_rw BY <1>12, <1>13, <1>16
  <2>2. Order(s, q, c2) BY <1>6, <1>12, OrderSame
  <2>3. After(q, Of(s.ep) \cup Resps, Pdu \ Connects) BY <1>20, AllWeak
  <2>4. After(q, Resps, Late) BY <1>20, AllWeak
  <2>5. After(q, Discs, Late \cup Resps) BY <1>6 DEF After
  <2> QED BY <1>6, <1>13, <1>14, <1>19, <1>20, <2>1, <2>2, <2>3, <2>4, <2>5 DEF Ending
<1>25. c2.ep = s.ep BY <1>6, <1>10, <1>12
<1>26. Joined(c2, qc, s, q) BY <1>20, <1>23, <1>24, <1>25 DEF Joined, Pair
<1>27. Joint(e, w, c2, qc, s, q) BY <1>17, <1>26 DEF Joint
<1> QED BY <1>10, <1>27

(* The server that has no connection reads a CONNECT. *)
LEMMA ServerInvited ==
    ASSUME NEW e \in Nat, NEW w, NEW c \in Views, NEW s \in Views, s.state = "IDLE",
           NEW qc \in Seq(Pdu), NEW qs \in Seq(Pdu), qc # <<>>,
           Head(qc) \in Connects, Joint(e, w, c, qc, s, qs),
           NEW s2, s2 = Begun(NewView, "W4_LOCAL_RESP", 0, Head(qc))
    PROVE  Joint(e, w, c, Tail(qc), s2, qs)
<1> DEFINE h == Head(qc)
<1>0. h \in Pdu /\ h \notin Late /\ h = qc[1] /\ 1 \in DOMAIN qc BY ConnectIs, TailIs
<1>1. Nobody(c, qc, s, qs)
  <2>1. ~ServerCloses(c, qc, s, qs) BY <1>0, Shorter DEF ServerCloses, Closing
  <2> QED BY <2>1 DEF Joint, Invited, Lone, Confirmed, Joined, Pair, Ending, ClientCloses, Closing, Open
<1>2. 0 \in SeqNum /\ "W4_LOCAL_RESP" \in DLC_STATE BY SeqNumFacts DEF DLC_STATE
<1>3. /\ s2 \in Views /\ s2.state = "W4_LOCAL_RESP" /\ s2.remote_rw = h.rw /\ s2.ep = h.ep
      /\ s2.sent_ack_seq = NewView.sent_ack_seq /\ s2.last_nr = NewView.last_nr
  BY <1>0, <1>2, NewViewIs, BegunIs
<1> HIDE DEF h
<1>4. Sides(e, w, c, qc, s) BY DEF Joint
<1>5. h.rw = w[Client] /\ h.ep \in 1..e BY <1>0, <1>4 DEF Sides, h
<1>6. Sides(e, w, c, Tail(qc), s) BY <1>4, ServerReads
<1>7. Sides(e, w, c, Tail(qc), s2) BY <1>3, <1>5, <1>6, NewViewIs DEF Sides
<1>8. All(Tail(qc), Plain)
  <2>1. After(qc, Connects, Plain) BY <1>1 DEF Nobody
  <2> QED BY <2>1, Shorter
<1>9. Invited(w, c, Tail(qc), s2, qs) BY <1>1, <1>3, <1>5, <1>8 DEF Invited, Nobody
<1> QED BY <1>7, <1>9 DEF Joint

-----------------------------------------------------------------------------
(* The steps of either device.                                             *)

(* The peer sees the same. *)
LEMMA JointlyTurn ==
    ASSUME NEW n \in Node, NEW e, NEW v, NEW q, NEW o, NEW qo
    PROVE  Jointly(e, n, v, q, o, qo) <=> Jointly(e, Peer(n), o, qo, v, q)
BY NodeAssumption DEF Jointly, Peer, Node

(* A device sends, or does something else. *)
LEMMA NodeTalks ==
    ASSUME NEW n \in Node, NEW e \in Nat, NEW v \in Views, Local(v), NEW o \in Views,
           NEW q \in Seq(Pdu), NEW qo \in Seq(Pdu), NEW p, NEW v2, Talks(v, p, v2), Jointly(e, n, v, q, o, qo)
    PROVE  Jointly(e, n, v2, Append(q, p), o, qo)
BY ClientTalks, ServerTalks DEF Jointly

(* A device does something else. *)
LEMMA NodeRests ==
    ASSUME NEW n \in Node, NEW e \in Nat, NEW v \in Views, Local(v), NEW o \in Views,
           NEW q \in Seq(Pdu), NEW qo \in Seq(Pdu), NEW v2, Rests(v, v2), Jointly(e, n, v, q, o, qo)
    PROVE  Jointly(e, n, v2, q, o, qo)
BY ClientRests, ServerRests DEF Jointly

(* What a device may read. *)
LEMMA NodeHead ==
    ASSUME NEW n \in Node, NEW e \in Nat, NEW v \in Views, NEW o \in Views, NEW q \in Seq(Pdu), NEW qo \in Seq(Pdu), qo # <<>>,
           Jointly(e, n, v, q, o, qo)
    PROVE  /\ Head(qo) \in Acks \cup Dms \cup Confirms \cup Connects \cup Discs \cup Resps
           /\ Head(qo) \in Resps => v.state = "W4_REMOTE_DM"
           /\ Head(qo) \in Connects => n = Server
           /\ Head(qo) \in Confirms => n = Client
           /\ v.state = "W4_REMOTE_RESP" => n = Client
           /\ v.state = "W4_LOCAL_RESP" => n = Server
<1>1. n = Client \/ n = Server BY DEF Node
<1>2. CASE n = Client
  <2>1. Joint(e, RW, v, q, o, qo) BY <1>2 DEF Jointly
  <2>2. /\ Head(qo) \in Acks \cup Dms \cup Confirms \cup Discs \cup Resps
        /\ Head(qo) \in Resps => v.state = "W4_REMOTE_DM"
    BY <2>1, ClientHead
  <2>3. Head(qo) \notin Connects BY <2>2, AckIs, DmIs, ConfirmIs, DiscIs, RespIs
  <2>4. v.state # "W4_LOCAL_RESP" BY <2>1 DEF Joint, Sides
  <2> QED BY <1>2, <2>2, <2>3, <2>4
<1>3. CASE n # Client
  <2>1. Joint(e, RW, o, qo, v, q) BY <1>3 DEF Jointly
  <2>2. /\ Head(qo) \in Acks \cup Dms \cup Connects \cup Discs \cup Resps
        /\ Head(qo) \in Resps => v.state = "W4_REMOTE_DM"
    BY <2>1, ServerHead
  <2>3. Head(qo) \notin Confirms BY <2>2, AckIs, DmIs, ConnectIs, DiscIs, RespIs
  <2>4. v.state # "W4_REMOTE_RESP" BY <2>1 DEF Joint, Sides
  <2> QED BY <1>1, <1>3, <2>2, <2>3, <2>4
<1> QED BY <1>2, <1>3

(* A device reads what it ignores. *)
LEMMA NodeDrops ==
    ASSUME NEW n \in Node, NEW e \in Nat, NEW v \in Views, NEW o \in Views, NEW q \in Seq(Pdu), NEW qo \in Seq(Pdu), qo # <<>>,
           Jointly(e, n, v, q, o, qo),
           \/ Head(qo) \in Dms
           \/ Head(qo) \in Infos /\ v.state # "CONNECTED"
           \/ Head(qo) \in Acks /\ ~Open(v)
           \/ Head(qo) \in Discs /\ ~Open(v)
           \/ Head(qo) \in Confirms /\ v.state # "W4_REMOTE_RESP"
           \/ Head(qo) \in Connects /\ v.state # "IDLE"
    PROVE  Jointly(e, n, v, q, o, Tail(qo))
<1>1. CASE n = Client
  <2>1. Joint(e, RW, v, q, o, qo) BY <1>1 DEF Jointly
  <2>2. n # Server BY <1>1, NodeAssumption
  <2>3. Head(qo) \notin Connects BY <2>2, NodeHead
  <2>4. Joint(e, RW, v, q, o, Tail(qo)) BY <2>1, <2>3, ClientDrops
  <2> QED BY <1>1, <2>4 DEF Jointly
<1>2. CASE n # Client
  <2>1. Joint(e, RW, o, qo, v, q) BY <1>2 DEF Jointly
  <2>2. Head(qo) \notin Confirms BY <1>2, NodeHead
  <2>3. /\ Head(qo) \in Discs => Open(v)
        /\ Head(qo) \in Acks /\ Head(qo) \notin Infos => Open(v)
    BY <2>1, ServerHead
  <2>4. ~Open(v) => v.state # "CONNECTED" BY DEF Open
  <2>5. Joint(e, RW, o, Tail(qo), v, q) BY <2>1, <2>2, <2>3, <2>4, ServerDrops
  <2> QED BY <1>2, <2>5 DEF Jointly
<1> QED BY <1>1, <1>2

(* It reads an acknowledgement, which is in range. *)
LEMMA NodeAckRead ==
    ASSUME NEW n \in Node, NEW e \in Nat, NEW v \in Views, Local(v), NEW o \in Views, NEW q \in Seq(Pdu), NEW qo \in Seq(Pdu), qo # <<>>,
           Jointly(e, n, v, q, o, qo), Head(qo) \in Acks, Head(qo) \notin Infos,
           NEW v2, v2 = [v EXCEPT !.rcvd_ack_seq = Head(qo).nr]
    PROVE  AckRead(v, Head(qo), v2) /\ Jointly(e, n, v2, q, o, Tail(qo))
<1>1. CASE n = Client
  <2>1. Joint(e, RW, v, q, o, qo) BY <1>1 DEF Jointly
  <2>2. AckRead(v, Head(qo), v2) /\ Joint(e, RW, v2, q, o, Tail(qo)) BY <2>1, ClientAckRead
  <2> QED BY <1>1, <2>2 DEF Jointly
<1>2. CASE n # Client
  <2>1. Joint(e, RW, o, qo, v, q) BY <1>2 DEF Jointly
  <2>2. AckRead(v, Head(qo), v2) /\ Joint(e, RW, o, Tail(qo), v2, q) BY <2>1, ServerAckRead
  <2> QED BY <1>2, <2>2 DEF Jointly
<1> QED BY <1>1, <1>2

(* It accepts an I PDU, which passes every check. *)
LEMMA NodeTakes ==
    ASSUME NEW n \in Node, NEW e \in Nat, NEW v \in Views, Local(v), v.state = "CONNECTED", NEW o \in Views, Local(o),
           NEW q \in Seq(Pdu), NEW qo \in Seq(Pdu), qo # <<>>,
           Jointly(e, n, v, q, o, qo), Head(qo) \in Infos, NEW v2, v2 = Taken(v, Head(qo))
    PROVE  /\ Takes(v, Head(qo), v2) /\ Jointly(e, n, v2, q, o, Tail(qo))
           /\ Head(qo).ns = v.next_rx_seq /\ Head(qo).sdu = v.nrcvd + 1 /\ Head(qo).ep = v.ep
           /\ Dist(Head(qo).ns, v.sent_ack_seq) < v.local_rw
<1>1. CASE n = Client
  <2>1. Joint(e, RW, v, q, o, qo) BY <1>1 DEF Jointly
  <2>2. /\ Takes(v, Head(qo), v2) /\ Joint(e, RW, v2, q, o, Tail(qo))
        /\ Head(qo).ns = v.next_rx_seq /\ Head(qo).sdu = v.nrcvd + 1 /\ Head(qo).ep = v.ep
        /\ Dist(Head(qo).ns, v.sent_ack_seq) < v.local_rw
    BY <2>1, ClientTakes
  <2> QED BY <1>1, <2>2 DEF Jointly
<1>2. CASE n # Client
  <2>1. Joint(e, RW, o, qo, v, q) BY <1>2 DEF Jointly
  <2>2. /\ Takes(v, Head(qo), v2) /\ Joint(e, RW, o, Tail(qo), v2, q)
        /\ Head(qo).ns = v.next_rx_seq /\ Head(qo).sdu = v.nrcvd + 1 /\ Head(qo).ep = v.ep
        /\ Dist(Head(qo).ns, v.sent_ack_seq) < v.local_rw
    BY <2>1, ServerTakes
  <2> QED BY <1>2, <2>2 DEF Jointly
<1> QED BY <1>1, <1>2

(* It reads a DISC, and confirms it. *)
LEMMA NodeConfirms ==
    ASSUME NEW n \in Node, NEW e \in Nat, NEW v \in Views, NEW o \in Views, NEW q \in Seq(Pdu), NEW qo \in Seq(Pdu), qo # <<>>,
           Jointly(e, n, v, q, o, qo), Head(qo) \in Discs, NEW m \in Resps
    PROVE  /\ v.state = "CONNECTED" => Jointly(e, n, NewView, Append(q, m), o, Tail(qo))
           /\ v.state = "W4_REMOTE_DM" => Jointly(e, n, v, Append(q, m), o, Tail(qo))
BY ClientEnds, ServerEnds, ClientCrosses, ServerCrosses DEF Jointly

(* It reads the DM that confirms its own DISC. *)
LEMMA NodeLeaves ==
    ASSUME NEW n \in Node, NEW e \in Nat, NEW v \in Views, v.state = "W4_REMOTE_DM", NEW o \in Views,
           NEW q \in Seq(Pdu), NEW qo \in Seq(Pdu), qo # <<>>,
           Jointly(e, n, v, q, o, qo), Head(qo) \in Resps
    PROVE  Jointly(e, n, NewView, q, o, Tail(qo))
BY ClientLeaves, ServerLeaves DEF Jointly

(* The client reads, instead of a CC, a DM. *)
LEMMA NodeGivesUp ==
    ASSUME NEW n \in Node, NEW e \in Nat, NEW v \in Views, Local(v), v.state = "W4_REMOTE_RESP", NEW o \in Views,
           NEW q \in Seq(Pdu), NEW qo \in Seq(Pdu), qo # <<>>,
           Jointly(e, n, v, q, o, qo), Head(qo) \in Dms
    PROVE  Jointly(e, n, NewView, q, o, Tail(qo))
<1>1. n = Client BY NodeHead
<1>2. Jointly(e, n, v, q, o, Tail(qo)) BY NodeDrops
<1>3. Tail(qo) \in Seq(Pdu) /\ ~Open(v) BY Shorter DEF Open
<1>4. Joint(e, RW, NewView, q, o, Tail(qo)) BY <1>1, <1>2, <1>3, ClientGivesUp DEF Jointly
<1> QED BY <1>1, <1>4 DEF Jointly

(* A connection begins: the server reads a CONNECT, the client a CC. *)
LEMMA NodeBegins ==
    ASSUME NEW n \in Node, NEW e \in Nat, NEW v \in Views, Local(v), NEW o \in Views, RW[Server] \in SeqNum,
           NEW q \in Seq(Pdu), NEW qo \in Seq(Pdu), qo # <<>>, Jointly(e, n, v, q, o, qo)
    PROVE  /\ v.state = "IDLE" /\ Head(qo) \in Connects =>
                Jointly(e, n, Begun(NewView, "W4_LOCAL_RESP", 0, Head(qo)), q, o, Tail(qo))
           /\ v.state = "W4_REMOTE_RESP" /\ Head(qo) \in Confirms =>
                Jointly(e, n, Begun(v, "CONNECTED", v.local_rw, Head(qo)), q, o, Tail(qo))
<1>1. ASSUME v.state = "IDLE", Head(qo) \in Connects
      PROVE  Jointly(e, n, Begun(NewView, "W4_LOCAL_RESP", 0, Head(qo)), q, o, Tail(qo))
  <2>1. n = Server /\ n # Client BY <1>1, NodeHead, NodeAssumption
  <2>2. Joint(e, RW, o, qo, v, q) BY <2>1 DEF Jointly
  <2>3. Joint(e, RW, o, Tail(qo), Begun(NewView, "W4_LOCAL_RESP", 0, Head(qo)), q) BY <1>1, <2>2, ServerInvited
  <2> QED BY <2>1, <2>3 DEF Jointly
<1>2. ASSUME v.state = "W4_REMOTE_RESP", Head(qo) \in Confirms
      PROVE  Jointly(e, n, Begun(v, "CONNECTED", v.local_rw, Head(qo)), q, o, Tail(qo))
  <2>1. n = Client BY <1>2, NodeHead
  <2>2. Joint(e, RW, v, q, o, qo) BY <2>1 DEF Jointly
  <2>3. Joint(e, RW, Begun(v, "CONNECTED", v.local_rw, Head(qo)), q, o, Tail(qo)) BY <1>2, <2>2, ClientConnects
  <2> QED BY <2>1, <2>3 DEF Jointly
<1> QED BY <1>1, <1>2

-----------------------------------------------------------------------------
(* The handlers that send: from control block to control block.            *)

(* The view v and the stream q of n become v2 and q2, whatever the peer.   *)
Goes(n, v, q, v2, q2) ==
    v \in Views /\ q \in Seq(Pdu) /\ Local(v) =>
      /\ v2 \in Views /\ q2 \in Seq(Pdu) /\ Local(v2)
      /\ ~Open(v) => v2 = v /\ q2 = q
      /\ v2.state = v.state \/ (v.state = "CONNECTED" /\ v2.state = "W4_REMOTE_DM")
      /\ \A e \in Nat, o \in Views, qo \in Seq(Pdu) :
           (Reliable /\ Jointly(e, n, v, q, o, qo)) => Jointly(e, n, v2, q2, o, qo)

(* Nothing happens. *)
LEMMA GoesRefl == ASSUME NEW n, NEW v, NEW q PROVE Goes(n, v, q, v, q)
BY DEF Goes

(* One after the other. *)
LEMMA GoesTrans ==
    ASSUME NEW n, NEW v, NEW q, NEW v2, NEW q2, NEW v3, NEW q3, Goes(n, v, q, v2, q2), Goes(n, v2, q2, v3, q3)
    PROVE  Goes(n, v, q, v3, q3)
<1> SUFFICES ASSUME v \in Views, q \in Seq(Pdu), Local(v)
             PROVE  /\ v3 \in Views /\ q3 \in Seq(Pdu) /\ Local(v3)
                    /\ ~Open(v) => v3 = v /\ q3 = q
                    /\ v3.state = v.state \/ (v.state = "CONNECTED" /\ v3.state = "W4_REMOTE_DM")
                    /\ \A e \in Nat, o \in Views, qo \in Seq(Pdu) :
                         (Reliable /\ Jointly(e, n, v, q, o, qo)) => Jointly(e, n, v3, q3, o, qo)
  BY DEF Goes
<1>1. /\ v2 \in Views /\ q2 \in Seq(Pdu) /\ Local(v2)
      /\ ~Open(v) => v2 = v /\ q2 = q
      /\ v2.state = v.state \/ (v.state = "CONNECTED" /\ v2.state = "W4_REMOTE_DM")
      /\ \A e \in Nat, o \in Views, qo \in Seq(Pdu) :
           (Reliable /\ Jointly(e, n, v, q, o, qo)) => Jointly(e, n, v2, q2, o, qo)
  BY DEF Goes
<1>2. /\ v3 \in Views /\ q3 \in Seq(Pdu) /\ Local(v3)
      /\ ~Open(v2) => v3 = v2 /\ q3 = q2
      /\ v3.state = v2.state \/ (v2.state = "CONNECTED" /\ v3.state = "W4_REMOTE_DM")
      /\ \A e \in Nat, o \in Views, qo \in Seq(Pdu) :
           (Reliable /\ Jointly(e, n, v2, q2, o, qo)) => Jointly(e, n, v3, q3, o, qo)
  BY <1>1 DEF Goes
<1>3. ~Open(v) => v3 = v /\ q3 = q BY <1>1, <1>2
<1>4. v3.state = v.state \/ (v.state = "CONNECTED" /\ v3.state = "W4_REMOTE_DM") BY <1>1, <1>2
<1> QED BY <1>1, <1>2, <1>3, <1>4

(* An acknowledgement, an I PDU or a DISC is added to the stream. *)
Works(v, p, v2) == Acked(v, p, v2) \/ Informed(v, p, v2) \/ Disconnects(v, p, v2)

(* A PDU of an open connection goes from one joint state to another. *)
LEMMA GoesWorks ==
    ASSUME NEW n \in Node, NEW v, NEW q, NEW p, NEW v2, v \in Views /\ Local(v) => Works(v, p, v2)
    PROVE  Goes(n, v, q, v2, Append(q, p))
<1> SUFFICES ASSUME v \in Views, q \in Seq(Pdu), Local(v)
             PROVE  /\ v2 \in Views /\ Append(q, p) \in Seq(Pdu) /\ Local(v2)
                    /\ Open(v)
                    /\ v2.state = v.state \/ (v.state = "CONNECTED" /\ v2.state = "W4_REMOTE_DM")
                    /\ \A e \in Nat, o \in Views, qo \in Seq(Pdu) :
                         Jointly(e, n, v, q, o, qo) => Jointly(e, n, v2, Append(q, p), o, qo)
  BY DEF Goes
<1>1. Works(v, p, v2) OBVIOUS
<1>2. Talks(v, p, v2) BY <1>1 DEF Works, Talks
<1>3. Unread(v, v2) /\ Local(v2) /\ p \in Pdu BY <1>2, TalksIs
<1>4. Open(v) BY <1>1, InformedIs DEF Works, Acked, Disconnects, Open
<1>5. \A e \in Nat, o \in Views, qo \in Seq(Pdu) :
        Jointly(e, n, v, q, o, qo) => Jointly(e, n, v2, Append(q, p), o, qo)
  BY <1>2, NodeTalks
<1>6. Append(q, p) \in Seq(Pdu) BY <1>3
<1> QED BY <1>3, <1>4, <1>5, <1>6 DEF Unread

(* Nothing is. *)
LEMMA GoesRests ==
    ASSUME NEW n \in Node, NEW v, NEW q, NEW v2, v \in Views /\ Local(v) => Rests(v, v2)
    PROVE  Goes(n, v, q, v2, q)
<1> SUFFICES ASSUME v \in Views, q \in Seq(Pdu), Local(v)
             PROVE  /\ v2 \in Views /\ Local(v2)
                    /\ ~Open(v) => v2 = v
                    /\ v2.state = v.state
                    /\ \A e \in Nat, o \in Views, qo \in Seq(Pdu) :
                         Jointly(e, n, v, q, o, qo) => Jointly(e, n, v2, q, o, qo)
  BY DEF Goes
<1>1. Rests(v, v2) OBVIOUS
<1>2. Unread(v, v2) /\ Local(v2) /\ v2.state = v.state /\ (~Open(v) => v2 = v) BY <1>1, RestsIs
<1>3. \A e \in Nat, o \in Views, qo \in Seq(Pdu) :
        Jointly(e, n, v, q, o, qo) => Jointly(e, n, v2, q, o, qo)
  BY <1>1, NodeRests
<1> QED BY <1>2, <1>3 DEF Unread

(* A PDU is not sent, since no buffer is left. *)
LEMMA GoesUnreliable ==
    ASSUME NEW n, NEW v, NEW q, NEW v2, ~Reliable, v2 \in Views,
           v.state = "CONNECTED", v2.state \in {"CONNECTED", "W4_REMOTE_DM"},
           v2.remote_rw = v.remote_rw, v2.next_tx_seq = v.next_tx_seq, v2.rcvd_ack_seq = v.rcvd_ack_seq,
           v2.i_xmit_q = v.i_xmit_q, v2.nsent = v.nsent
    PROVE  Goes(n, v, q, v2, q)
<1> SUFFICES ASSUME v \in Views, q \in Seq(Pdu), Local(v) PROVE Local(v2) /\ Open(v)
  BY DEF Goes
<1>1. Open(v) /\ Open(v2) BY DEF Open
<1>2. Vs(v2) = Vs(v) BY DEF Vs
<1> QED BY <1>1, <1>2 DEF Local

(* From s to t a device adds to its stream, which begins with pre. *)
Moves(n, s, t) ==
    \A pre \in Seq(Pdu) : Goes(n, View(s), pre \o s.sig_xmit_q, View(t), pre \o t.sig_xmit_q)
(* The view and the streams are what they were. *)
Same(s, t) == View(t) = View(s) /\ t.sig_xmit_q = s.sig_xmit_q /\ t.out = s.out

(* What Same is for. *)
LEMMA SameMoves == ASSUME NEW n, NEW s, NEW t, Same(s, t) PROVE Moves(n, s, t)
BY GoesRefl DEF Same, Moves

(* One after the other. *)
LEMMA MovesTrans == ASSUME NEW n, NEW s, NEW t, NEW u, Moves(n, s, t), Moves(n, t, u) PROVE Moves(n, s, u)
<1> SUFFICES ASSUME NEW pre \in Seq(Pdu)
             PROVE  Goes(n, View(s), pre \o s.sig_xmit_q, View(u), pre \o u.sig_xmit_q)
  BY DEF Moves
<1>1. /\ Goes(n, View(s), pre \o s.sig_xmit_q, View(t), pre \o t.sig_xmit_q)
      /\ Goes(n, View(t), pre \o t.sig_xmit_q, View(u), pre \o u.sig_xmit_q)
  BY DEF Moves
<1> QED BY <1>1, GoesTrans

(* The view of a control block, and its stream. *)
LEMMA ViewIs ==
    ASSUME NEW s \in ControlBlock
    PROVE  /\ View(s) \in Views /\ s.sig_xmit_q \in Seq(Pdu) /\ Wire(s) \in Seq(Pdu) /\ Stream(s) \in Seq(Pdu)
           /\ View(s).state = s.state /\ View(s).ep = s.ep /\ View(s).local_rw = s.local_rw
           /\ View(s).remote_rw = s.remote_rw
           /\ View(s).next_tx_seq = s.next_tx_seq /\ View(s).rcvd_ack_seq = s.rcvd_ack_seq
           /\ View(s).next_rx_seq = s.next_rx_seq /\ View(s).sent_ack_seq = s.sent_ack_seq
           /\ View(s).i_xmit_q = s.i_xmit_q /\ View(s).nsent = s.nsent /\ View(s).nrcvd = s.nrcvd
           /\ View(s).ncomplete = s.ncomplete /\ View(s).last_nr = s.last_nr
           /\ NothingPending(View(s)) <=> NothingPending(s)
           /\ \A nr : NrInRange(View(s), nr) <=> NrInRange(s, nr)
<1>1. View(s) \in Views BY DEF View, Views, ControlBlock
<1>2. s.sig_xmit_q \in Seq(Pdu) /\ s.out \in Seq(Frame) BY DEF ControlBlock
<1>3. Wire(s) \in Seq(Pdu)
  <2>1. CASE s.out = <<>> BY <2>1 DEF Wire
  <2>2. CASE s.out # <<>>
    <3>1. s.out[1] \in Frame BY <1>2, <2>2, TailIs
    <3> QED BY <2>2, <3>1 DEF Wire, Frame
  <2> QED BY <2>1, <2>2
<1>4. Stream(s) \in Seq(Pdu) BY <1>2, <1>3 DEF Stream
<1>5. /\ View(s).state = s.state /\ View(s).ep = s.ep /\ View(s).local_rw = s.local_rw
      /\ View(s).remote_rw = s.remote_rw
      /\ View(s).next_tx_seq = s.next_tx_seq /\ View(s).rcvd_ack_seq = s.rcvd_ack_seq
      /\ View(s).next_rx_seq = s.next_rx_seq /\ View(s).sent_ack_seq = s.sent_ack_seq
      /\ View(s).i_xmit_q = s.i_xmit_q /\ View(s).nsent = s.nsent /\ View(s).nrcvd = s.nrcvd
      /\ View(s).ncomplete = s.ncomplete /\ View(s).last_nr = s.last_nr
  BY DEF View
<1>6. NothingPending(View(s)) <=> NothingPending(s) BY <1>5 DEF NothingPending
<1>7. \A nr : NrInRange(View(s), nr) <=> NrInRange(s, nr) BY <1>5 DEF NrInRange
<1> QED BY <1>1, <1>2, <1>3, <1>4, <1>5, <1>6, <1>7

(* A PDU of the connection is added to the signalling queue. *)
LEMMA WorksMoves ==
    ASSUME NEW n \in Node, NEW s \in ControlBlock, NEW t, NEW p \in Pdu,
           Works(View(s), p, View(t)), t.sig_xmit_q = Append(s.sig_xmit_q, p)
    PROVE  Moves(n, s, t)
<1> SUFFICES ASSUME NEW pre \in Seq(Pdu)
             PROVE  Goes(n, View(s), pre \o s.sig_xmit_q, View(t), pre \o t.sig_xmit_q)
  BY DEF Moves
<1>1. s.sig_xmit_q \in Seq(Pdu) BY ViewIs
<1>2. pre \o Append(s.sig_xmit_q, p) = Append(pre \o s.sig_xmit_q, p) BY <1>1
<1>3. Goes(n, View(s), pre \o s.sig_xmit_q, View(t), Append(pre \o s.sig_xmit_q, p)) BY GoesWorks
<1> QED BY <1>2, <1>3

(* The stream of a device that moves. *)
LEMMA MovesGoes ==
    ASSUME NEW n, NEW s \in ControlBlock, NEW t, Moves(n, s, t), t.out = s.out
    PROVE  Goes(n, View(s), Stream(s), View(t), Stream(t))
<1>1. Wire(s) \in Seq(Pdu) /\ Wire(t) = Wire(s) BY ViewIs DEF Wire
<1> QED BY <1>1 DEF Moves, Stream

-----------------------------------------------------------------------------
(* What each operator of the sender does to the view and the stream.       *)

(* The congestion status and the flags are not part of the view. *)
LEMMA FlagSame == ASSUME NEW s \in ControlBlock, NEW f PROVE Same(s, SetFlag(s, f)) /\ Same(s, ClearFlag(s, f))
BY DEF Same, View, SetFlag, ClearFlag, ControlBlock

(* Fields of the view that an operator of the sender sets. *)
LEMMA ViewExcept ==
    ASSUME NEW s \in ControlBlock
    PROVE  /\ \A x : View([s EXCEPT !.state = x]) = [View(s) EXCEPT !.state = x]
           /\ \A x : View([s EXCEPT !.ncomplete = x]) = [View(s) EXCEPT !.ncomplete = x]
           /\ \A x : View([s EXCEPT !.sent_ack_seq = x]) = [View(s) EXCEPT !.sent_ack_seq = x]
           /\ \A x : View([s EXCEPT !.last_nr = x]) = [View(s) EXCEPT !.last_nr = x]
           /\ \A x : View([s EXCEPT !.rcvd_ack_seq = x]) = [View(s) EXCEPT !.rcvd_ack_seq = x]
           /\ \A x : View([s EXCEPT !.sig_xmit_q = x]) = View(s)
<1>1. ASSUME NEW x PROVE View([s EXCEPT !.state = x]) = [View(s) EXCEPT !.state = x]
  <2> DEFINE t == [s EXCEPT !.state = x]
  <2>1. t.state = x /\ t.ep = s.ep /\ t.local_rw = s.local_rw /\ t.remote_rw = s.remote_rw /\ t.next_tx_seq = s.next_tx_seq /\ t.rcvd_ack_seq = s.rcvd_ack_seq /\ t.next_rx_seq = s.next_rx_seq /\ t.sent_ack_seq = s.sent_ack_seq /\ t.i_xmit_q = s.i_xmit_q /\ t.nsent = s.nsent /\ t.nrcvd = s.nrcvd /\ t.ncomplete = s.ncomplete /\ t.last_nr = s.last_nr BY DEF ControlBlock
  <2> HIDE DEF t
  <2> QED BY <2>1 DEF View
<1>2. ASSUME NEW x PROVE View([s EXCEPT !.ncomplete = x]) = [View(s) EXCEPT !.ncomplete = x]
  <2> DEFINE t == [s EXCEPT !.ncomplete = x]
  <2>1. t.state = s.state /\ t.ep = s.ep /\ t.local_rw = s.local_rw /\ t.remote_rw = s.remote_rw /\ t.next_tx_seq = s.next_tx_seq /\ t.rcvd_ack_seq = s.rcvd_ack_seq /\ t.next_rx_seq = s.next_rx_seq /\ t.sent_ack_seq = s.sent_ack_seq /\ t.i_xmit_q = s.i_xmit_q /\ t.nsent = s.nsent /\ t.nrcvd = s.nrcvd /\ t.ncomplete = x /\ t.last_nr = s.last_nr BY DEF ControlBlock
  <2> HIDE DEF t
  <2> QED BY <2>1 DEF View
<1>3. ASSUME NEW x PROVE View([s EXCEPT !.sent_ack_seq = x]) = [View(s) EXCEPT !.sent_ack_seq = x]
  <2> DEFINE t == [s EXCEPT !.sent_ack_seq = x]
  <2>1. t.state = s.state /\ t.ep = s.ep /\ t.local_rw = s.local_rw /\ t.remote_rw = s.remote_rw /\ t.next_tx_seq = s.next_tx_seq /\ t.rcvd_ack_seq = s.rcvd_ack_seq /\ t.next_rx_seq = s.next_rx_seq /\ t.sent_ack_seq = x /\ t.i_xmit_q = s.i_xmit_q /\ t.nsent = s.nsent /\ t.nrcvd = s.nrcvd /\ t.ncomplete = s.ncomplete /\ t.last_nr = s.last_nr BY DEF ControlBlock
  <2> HIDE DEF t
  <2> QED BY <2>1 DEF View
<1>4. ASSUME NEW x PROVE View([s EXCEPT !.last_nr = x]) = [View(s) EXCEPT !.last_nr = x]
  <2> DEFINE t == [s EXCEPT !.last_nr = x]
  <2>1. t.state = s.state /\ t.ep = s.ep /\ t.local_rw = s.local_rw /\ t.remote_rw = s.remote_rw /\ t.next_tx_seq = s.next_tx_seq /\ t.rcvd_ack_seq = s.rcvd_ack_seq /\ t.next_rx_seq = s.next_rx_seq /\ t.sent_ack_seq = s.sent_ack_seq /\ t.i_xmit_q = s.i_xmit_q /\ t.nsent = s.nsent /\ t.nrcvd = s.nrcvd /\ t.ncomplete = s.ncomplete /\ t.last_nr = x BY DEF ControlBlock
  <2> HIDE DEF t
  <2> QED BY <2>1 DEF View
<1>5. ASSUME NEW x PROVE View([s EXCEPT !.rcvd_ack_seq = x]) = [View(s) EXCEPT !.rcvd_ack_seq = x]
  <2> DEFINE t == [s EXCEPT !.rcvd_ack_seq = x]
  <2>1. t.state = s.state /\ t.ep = s.ep /\ t.local_rw = s.local_rw /\ t.remote_rw = s.remote_rw /\ t.next_tx_seq = s.next_tx_seq /\ t.rcvd_ack_seq = x /\ t.next_rx_seq = s.next_rx_seq /\ t.sent_ack_seq = s.sent_ack_seq /\ t.i_xmit_q = s.i_xmit_q /\ t.nsent = s.nsent /\ t.nrcvd = s.nrcvd /\ t.ncomplete = s.ncomplete /\ t.last_nr = s.last_nr BY DEF ControlBlock
  <2> HIDE DEF t
  <2> QED BY <2>1 DEF View
<1>6. ASSUME NEW x PROVE View([s EXCEPT !.sig_xmit_q = x]) = View(s) BY DEF View, ControlBlock
<1> QED BY <1>1, <1>2, <1>3, <1>4, <1>5, <1>6

(* What Same adds up to. *)
LEMMA SameTrans ==
    ASSUME NEW s, NEW t, NEW u
    PROVE  /\ Same(s, s)
           /\ Same(s, t) /\ Same(t, u) => Same(s, u)
BY DEF Same

(* llcp_link_check_congestion. *)
LEMMA CheckCongestionSame == ASSUME NEW s \in ControlBlock PROVE Same(s, CheckCongestion(s))
<1>1. Same(s, [s EXCEPT !.overall_tx_congested = TRUE]) BY DEF Same, View, ControlBlock
<1>2. Same(s, [s EXCEPT !.overall_tx_congested = TRUE, !.is_tx_congested = TRUE, !.told = TRUE])
  BY DEF Same, View, ControlBlock
<1> QED BY <1>1, <1>2, SameTrans DEF CheckCongestion

(* llcp_link_check_uncongested. *)
LEMMA CheckUncongestedSame == ASSUME NEW s \in ControlBlock PROVE Same(s, CheckUncongested(s))
<1> DEFINE s1 == [s EXCEPT !.overall_tx_congested = FALSE]
           s2 == [s1 EXCEPT !.is_tx_congested = FALSE, !.told = @ /\ s.remote_busy]
<1>1. Same(s, s1) /\ s1 \in ControlBlock BY DEF Same, View, ControlBlock
<1>2. CheckUncongested(s) \in {s, s1, s2} BY DEF CheckUncongested
<1> HIDE DEF s1
<1>3. Same(s1, s2) BY <1>1, ZenonT(60) DEF Same, View, ControlBlock
<1> HIDE DEF s2
<1> QED BY <1>1, <1>2, <1>3, SameTrans

(* A missing buffer. *)
LEMMA NoBuffer == ASSUME NEW ok \in PoolOutcomes, ~ok PROVE ~Reliable
BY Zenon DEF Reliable

(* llcp_dlc_send_rr_rnr: an acknowledgement of what was received. *)
LEMMA SendRrRnrMoves ==
    ASSUME NEW n \in Node, NEW s \in ControlBlock, Connected(s), NEW ok \in PoolOutcomes
    PROVE  Moves(n, s, SendRrRnr(s, ok)) /\ SendRrRnr(s, ok).out = s.out
<1> DEFINE pend == "PENDING_RR_RNR" \in s.flags
           unacked == s.sent_ack_seq # s.next_rx_seq
           s1 == IF RxFlowOff(s) THEN s ELSE [s EXCEPT !.sent_ack_seq = s.next_rx_seq]
           p == [NewPdu(IF RxFlowOff(s) THEN "RNR" ELSE "RR", s.ep) EXCEPT !.nr = s1.sent_ack_seq]
           t == [Enqueue(ClearFlag(s1, "PENDING_RR_RNR"), p) EXCEPT !.last_nr = s1.sent_ack_seq]
<1>1. \/ ~ok /\ SendRrRnr(s, ok) = s1
      \/ SendRrRnr(s, ok) = s
      \/ SendRrRnr(s, ok) = t
  BY DEF SendRrRnr
<1>2. s1 \in ControlBlock BY DEF ControlBlock
<1>3. /\ s1.sent_ack_seq \in {s.sent_ack_seq, s.next_rx_seq} /\ s1.sent_ack_seq \in SeqNum
      /\ s1.state = s.state /\ s1.out = s.out
      /\ s1.sig_xmit_q = s.sig_xmit_q
  BY DEF ControlBlock
<1>a. View(s1) = [View(s) EXCEPT !.sent_ack_seq = s1.sent_ack_seq]
  <2>1. CASE RxFlowOff(s)
    <3>1. s1 = s /\ View(s).sent_ack_seq = s.sent_ack_seq BY <2>1, ViewIs
    <3> HIDE DEF s1
    <3> QED BY <3>1 DEF View
  <2>2. CASE ~RxFlowOff(s)
    <3>1. s1 = [s EXCEPT !.sent_ack_seq = s.next_rx_seq] /\ s1.sent_ack_seq = s.next_rx_seq BY <2>2 DEF ControlBlock
    <3> HIDE DEF s1
    <3> QED BY <3>1, ViewExcept
  <2> QED BY <2>1, <2>2
<1>4. p \in Acks /\ p \notin Infos /\ p.ep = s.ep /\ p.nr = s1.sent_ack_seq /\ p \in Pdu
  <2>1. s.ep \in Nat BY DEF ControlBlock
  <2>2. \A y \in {"RR", "RNR"} : NewPdu(y, s.ep) \in Pdu /\ NewPdu(y, s.ep).ep = s.ep /\ NewPdu(y, s.ep).ptype = y
    BY <2>1, NewPduType DEF PTYPE, NewPdu
  <2>3. \A y \in {"RR", "RNR"}, r \in SeqNum :
          LET z == [NewPdu(y, s.ep) EXCEPT !.nr = r]
          IN z \in Pdu /\ z.ep = s.ep /\ z.ptype = y /\ z.nr = r
    BY <2>2 DEF Pdu
  <2>4. p \in Pdu /\ p.ep = s.ep /\ p.ptype \in {"RR", "RNR"} /\ p.nr = s1.sent_ack_seq BY <1>3, <2>3
  <2> QED BY <2>4 DEF Acks, Infos
<1> HIDE DEF s1, p
<1>5. /\ View(t) = [View(s) EXCEPT !.sent_ack_seq = s1.sent_ack_seq, !.last_nr = s1.sent_ack_seq]
      /\ t.sig_xmit_q = Append(s.sig_xmit_q, p) /\ t.out = s.out
  <2> DEFINE s2 == ClearFlag(s1, "PENDING_RR_RNR")
             s3 == Enqueue(s2, p)
  <2>1. Same(s1, s2) /\ s2 \in ControlBlock BY <1>2, FlagSame, ClearFlagStays, StaysType
  <2> HIDE DEF s2
  <2>2. s3 \in ControlBlock BY <1>4, <2>1, EnqueueStays, StaysType
  <2>3. View(s3) = View(s2) /\ s3.sig_xmit_q = Append(s2.sig_xmit_q, p) /\ s3.out = s2.out
    BY <2>1, ViewExcept DEF Enqueue, ControlBlock
  <2> HIDE DEF s3
  <2>4. t = [s3 EXCEPT !.last_nr = s1.sent_ack_seq] BY DEF s2, s3
  <2> HIDE DEF t
  <2>5. View(t) = [View(s3) EXCEPT !.last_nr = s1.sent_ack_seq] BY <2>2, <2>4, ViewExcept
  <2>6. t.sig_xmit_q = s3.sig_xmit_q /\ t.out = s3.out BY <2>2, <2>4 DEF ControlBlock
  <2>7. View(s3) = [View(s) EXCEPT !.sent_ack_seq = s1.sent_ack_seq] BY <1>a, <2>1, <2>3 DEF Same
  <2>8. View(t) = [View(s) EXCEPT !.sent_ack_seq = s1.sent_ack_seq, !.last_nr = s1.sent_ack_seq] BY <2>5, <2>7 DEF View
  <2> QED BY <1>3, <2>1, <2>3, <2>6, <2>8 DEF Same
<1> HIDE DEF t
<1>6. Acked(View(s), p, View(t))
  <2>1. /\ View(s).state = s.state /\ View(s).ep = s.ep
        /\ View(s).sent_ack_seq = s.sent_ack_seq /\ View(s).next_rx_seq = s.next_rx_seq
    BY ViewIs
  <2> QED BY <1>3, <1>4, <1>5, <2>1 DEF Acked, Connected
<1>7. Moves(n, s, t) BY <1>4, <1>5, <1>6, WorksMoves DEF Works
<1>8. ASSUME ~ok PROVE Moves(n, s, s1)
  <2>1. ~Reliable BY <1>8, NoBuffer
  <2>2. View(s1) \in Views /\ View(s).state = "CONNECTED" /\ View(s1).state = "CONNECTED" BY <1>2, <1>3, ViewIs DEF Connected
  <2>3. /\ View(s1).remote_rw = View(s).remote_rw /\ View(s1).next_tx_seq = View(s).next_tx_seq
        /\ View(s1).rcvd_ack_seq = View(s).rcvd_ack_seq
        /\ View(s1).i_xmit_q = View(s).i_xmit_q /\ View(s1).nsent = View(s).nsent
    BY <1>a, ViewIs DEF View
  <2>4. \A q : Goes(n, View(s), q, View(s1), q) BY <2>1, <2>2, <2>3, GoesUnreliable
  <2> QED BY <1>3, <2>4 DEF Moves
<1>9. Moves(n, s, s) BY SameTrans, SameMoves
<1> QED BY <1>1, <1>3, <1>5, <1>7, <1>8, <1>9

(* llcp_dlc_sm_connected: the DISC. *)
LEMMA EnterMoves ==
    ASSUME NEW n \in Node, NEW s \in ControlBlock, Connected(s), NEW ok \in PoolOutcomes, ok \in BOOLEAN
    PROVE  /\ Moves(n, s, EnterW4RemoteDm(s, ok)) /\ EnterW4RemoteDm(s, ok).out = s.out
           /\ View(EnterW4RemoteDm(s, ok)) = [View(s) EXCEPT !.state = "W4_REMOTE_DM"]
<1> DEFINE s1 == [s EXCEPT !.state = "W4_REMOTE_DM"]
           p == [NewPdu("DISC", s.ep) EXCEPT !.sdu = IF NothingPending(s) THEN s.nsent ELSE 0]
           t == Enqueue(s1, p)
<1>1. EnterW4RemoteDm(s, ok) = IF ok THEN t ELSE s1 BY DEF EnterW4RemoteDm
<1>2. s1 \in ControlBlock /\ s1.sig_xmit_q = s.sig_xmit_q /\ s1.out = s.out /\ View(s1) = [View(s) EXCEPT !.state = "W4_REMOTE_DM"]
  BY ViewExcept DEF ControlBlock, DLC_STATE
<1>3. p \in Discs /\ p.ep = s.ep /\ p.sdu = (IF NothingPending(s) THEN s.nsent ELSE 0) /\ p \in Pdu
  <2>1. s.ep \in Nat /\ s.nsent \in Nat BY DEF ControlBlock
  <2>2. NewPdu("DISC", s.ep) \in Pdu /\ NewPdu("DISC", s.ep).ep = s.ep /\ NewPdu("DISC", s.ep).ptype = "DISC"
    BY <2>1, NewPduType DEF PTYPE, NewPdu
  <2>3. \A k \in Nat : LET z == [NewPdu("DISC", s.ep) EXCEPT !.sdu = k]
                       IN z \in Pdu /\ z.ep = s.ep /\ z.ptype = "DISC" /\ z.sdu = k
    BY <2>2 DEF Pdu
  <2>4. (IF NothingPending(s) THEN s.nsent ELSE 0) \in Nat BY <2>1
  <2> QED BY <2>3, <2>4 DEF Discs
<1> HIDE DEF s1, p
<1>4. View(t) = [View(s) EXCEPT !.state = "W4_REMOTE_DM"] /\ t.sig_xmit_q = Append(s.sig_xmit_q, p) /\ t.out = s.out
  BY <1>2 DEF View, Enqueue, ControlBlock
<1> HIDE DEF t
<1>5. Disconnects(View(s), p, View(t))
  <2>1. View(s).state = s.state /\ View(s).ep = s.ep /\ View(s).nsent = s.nsent /\ (NothingPending(View(s)) <=> NothingPending(s))
    BY ViewIs
  <2> QED BY <1>3, <1>4, <2>1 DEF Disconnects, Connected
<1>6. Moves(n, s, t) BY <1>3, <1>4, <1>5, WorksMoves DEF Works
<1>7. ASSUME ~ok PROVE Moves(n, s, s1)
  <2>1. ~Reliable BY <1>7, NoBuffer
  <2>2. View(s1) \in Views /\ View(s).state = "CONNECTED" BY <1>2, ViewIs DEF Connected
  <2>3. /\ View(s1).remote_rw = View(s).remote_rw /\ View(s1).next_tx_seq = View(s).next_tx_seq
        /\ View(s1).rcvd_ack_seq = View(s).rcvd_ack_seq
        /\ View(s1).i_xmit_q = View(s).i_xmit_q /\ View(s1).nsent = View(s).nsent
        /\ View(s1).state = "W4_REMOTE_DM"
    BY <1>2 DEF View
  <2>4. \A q : Goes(n, View(s), q, View(s1), q) BY <2>1, <2>2, <2>3, GoesUnreliable
  <2> QED BY <1>2, <2>4 DEF Moves
<1> QED BY <1>1, <1>2, <1>4, <1>6, <1>7

(* llcp_dlc_check_to_send_rr_rnr and the tail of llcp_dlc_get_next_pdu: the DISC that waited. *)
LEMMA PendingDiscMoves ==
    ASSUME NEW n \in Node, NEW s \in ControlBlock, NEW ok \in PoolOutcomes, ok \in BOOLEAN
    PROVE  /\ Moves(n, s, PendingDisc(s, ok)) /\ PendingDisc(s, ok).out = s.out
           /\ View(PendingDisc(s, ok)) \in {View(s), [View(s) EXCEPT !.state = "W4_REMOTE_DM"]}
<1> DEFINE s1 == ClearFlag(s, "PENDING_DISC")
<1>1. \/ PendingDisc(s, ok) = s \/ PendingDisc(s, ok) = s1
      \/ Connected(s1) /\ PendingDisc(s, ok) = EnterW4RemoteDm(s1, ok)
  BY DEF PendingDisc, Connected, ClearFlag, ControlBlock
<1>2. Same(s, s1) /\ s1 \in ControlBlock BY FlagSame, ClearFlagStays, StaysType
<1>3. Same(s, s) BY SameTrans
<1> HIDE DEF s1
<1>4. CASE Connected(s1) /\ PendingDisc(s, ok) = EnterW4RemoteDm(s1, ok)
  <2>1. /\ Moves(n, s1, EnterW4RemoteDm(s1, ok)) /\ EnterW4RemoteDm(s1, ok).out = s1.out
        /\ View(EnterW4RemoteDm(s1, ok)) = [View(s1) EXCEPT !.state = "W4_REMOTE_DM"]
    BY <1>2, <1>4, EnterMoves
  <2>2. Moves(n, s, s1) BY <1>2, SameMoves
  <2> QED BY <1>2, <1>4, <2>1, <2>2, MovesTrans DEF Same
<1>5. CASE PendingDisc(s, ok) \in {s, s1} BY <1>2, <1>3, <1>5, SameMoves DEF Same
<1> QED BY <1>1, <1>4, <1>5

(* And the report that everything has arrived. *)
LEMMA NotifyWhenDoneMoves ==
    ASSUME NEW n \in Node, NEW s \in ControlBlock, NEW ok \in PoolOutcomes, ok \in BOOLEAN
    PROVE  Moves(n, s, NotifyWhenDone(s, ok)) /\ NotifyWhenDone(s, ok).out = s.out
<1> DEFINE s1 == PendingDisc(s, ok)
           s2 == ClearFlag(s1, "NOTIFY_TX_DONE")
           s3 == [s2 EXCEPT !.ncomplete = s.nsent]
<1>1. NotifyWhenDone(s, ok) = s1 \/ (NothingPending(s) /\ NotifyWhenDone(s, ok) = s3) BY DEF NotifyWhenDone
<1>2. /\ Moves(n, s, s1) /\ s1.out = s.out
      /\ View(s1) \in {View(s), [View(s) EXCEPT !.state = "W4_REMOTE_DM"]}
  BY PendingDiscMoves
<1>3. s1 \in ControlBlock BY PendingDiscStays, StaysType
<1> HIDE DEF s1
<1>4. Same(s1, s2) /\ s2 \in ControlBlock BY <1>3, FlagSame, ClearFlagStays, StaysType
<1> HIDE DEF s2
<1>5. s.nsent \in Nat BY DEF ControlBlock
<1>6. View(s3) = [View(s2) EXCEPT !.ncomplete = s.nsent] /\ s3.sig_xmit_q = s2.sig_xmit_q /\ s3.out = s2.out
  BY <1>4, ViewExcept DEF ControlBlock
<1> HIDE DEF s3
<1>7. ASSUME NothingPending(s) PROVE Moves(n, s1, s3)
  <2>1. NothingPending(View(s2)) /\ View(s2).nsent = s.nsent
    <3>1. /\ View(s2).i_xmit_q = s.i_xmit_q /\ View(s2).next_rx_seq = s.next_rx_seq /\ View(s2).sent_ack_seq = s.sent_ack_seq
          /\ View(s2).next_tx_seq = s.next_tx_seq /\ View(s2).rcvd_ack_seq = s.rcvd_ack_seq /\ View(s2).nsent = s.nsent
      BY <1>2, <1>4 DEF Same, View
    <3> QED BY <1>7, <3>1 DEF NothingPending
  <2>2. Completed(View(s2), View(s3)) BY <1>6, <2>1 DEF Completed
  <2>3. \A q : Goes(n, View(s2), q, View(s3), q) BY <2>2, GoesRests DEF Rests
  <2>4. Moves(n, s2, s3) BY <1>6, <2>3 DEF Moves
  <2> QED BY <1>4, <2>4, SameMoves, MovesTrans
<1> QED BY <1>1, <1>2, <1>4, <1>6, <1>7, MovesTrans DEF Same

(* llcp_dlc_check_to_send_rr_rnr. *)
LEMMA CheckToSendRrRnrMoves ==
    ASSUME NEW n \in Node, NEW s \in ControlBlock, NEW c \in Choice
    PROVE  Moves(n, s, CheckToSendRrRnr(s, c)) /\ CheckToSendRrRnr(s, c).out = s.out
<1>1. c.rr \in PoolOutcomes /\ c.disc \in PoolOutcomes /\ c.rr \in BOOLEAN /\ c.disc \in BOOLEAN BY ChoiceType DEF Choice
<1>2. CASE Connected(s)
  <2>1. Moves(n, s, SendRrRnr(s, c.rr)) /\ SendRrRnr(s, c.rr).out = s.out BY <1>1, <1>2, SendRrRnrMoves
  <2>2. SendRrRnr(s, c.rr) \in ControlBlock BY <1>1, SendRrRnrStays, StaysType
  <2>3. /\ Moves(n, SendRrRnr(s, c.rr), PendingDisc(SendRrRnr(s, c.rr), c.disc))
        /\ PendingDisc(SendRrRnr(s, c.rr), c.disc).out = SendRrRnr(s, c.rr).out
    BY <1>1, <2>2, PendingDiscMoves
  <2> QED BY <1>2, <2>1, <2>3, MovesTrans DEF CheckToSendRrRnr
<1>3. CASE ~Connected(s) BY <1>3, SameTrans, SameMoves DEF CheckToSendRrRnr
<1> QED BY <1>2, <1>3

-----------------------------------------------------------------------------
(* The I PDUs of one build, one by one.                                    *)

(* Sequence numbers a little beyond the modulus. *)
LEMMA ModStep ==
    ASSUME NEW x \in SeqNum, NEW j \in Nat, j + 1 < LLCP_SEQ_MODULO
    PROVE  /\ (x + j) % LLCP_SEQ_MODULO \in SeqNum
           /\ Inc((x + j) % LLCP_SEQ_MODULO) = (x + (j + 1)) % LLCP_SEQ_MODULO
           /\ x % LLCP_SEQ_MODULO = x
<1> DEFINE M == LLCP_SEQ_MODULO  y == x + j
<1>1. M \in Nat /\ M > 1 /\ x \in Nat /\ x < M /\ y \in Nat /\ y + 1 < 2 * M /\ x + (j + 1) = y + 1 BY SeqAssumption DEF SeqNum
<1>2. Inc(y % M) = ((y % M) + 1) % M BY DEF Inc
<1>3. SeqNum = 0..(M - 1) BY DEF SeqNum
<1> HIDE DEF M, y
<1>4. y % M = IF y < M THEN y ELSE y - M
  <2>1. y < M => y % M = y BY <1>1
  <2>2. y >= M => y % M = y - M BY <1>1
  <2> QED BY <1>1, <2>1, <2>2
<1>5. (y + 1) % M = IF y + 1 < M THEN y + 1 ELSE y + 1 - M
  <2>1. y + 1 < M => (y + 1) % M = y + 1 BY <1>1
  <2>2. y + 1 >= M => (y + 1) % M = y + 1 - M BY <1>1
  <2> QED BY <1>1, <2>1, <2>2
<1>6. ((y % M) + 1) % M = (y + 1) % M
  <2> DEFINE z == (y % M) + 1
  <2>1. z \in Nat /\ z <= M /\ (z = M <=> y + 1 = M \/ y + 1 = 2 * M) /\ z = IF y < M THEN y + 1 ELSE y + 1 - M BY <1>1, <1>4
  <2> HIDE DEF z
  <2>2. z < M => z % M = z BY <1>1, <2>1
  <2>3. z = M => z % M = 0 BY <1>1, <2>1
  <2> QED BY <1>1, <1>5, <2>1, <2>2, <2>3 DEF z
<1>7. y % M \in 0..(M - 1) BY <1>1, <1>4
<1>8. x % M = x BY <1>1
<1> QED BY <1>1, <1>2, <1>3, <1>6, <1>7, <1>8 DEF M, y

(* The queue without its first SDUs. *)
LEMMA SubSeqStep ==
    ASSUME NEW T, NEW q \in Seq(T), NEW j \in Nat, j < Len(q)
    PROVE  /\ Head(SubSeq(q, j + 1, Len(q))) = q[j + 1]
           /\ Tail(SubSeq(q, j + 1, Len(q))) = SubSeq(q, (j + 1) + 1, Len(q))
           /\ SubSeq(q, j + 1, Len(q)) # <<>>
           /\ SubSeq(q, 0 + 1, Len(q)) = q
<1>1. Len(q) \in Nat BY LenProperties
<1>2. j + 1 \in 1..Len(q) /\ Len(q) \in (j + 1)..Len(q) BY <1>1
<1>3. /\ Head(SubSeq(q, j + 1, Len(q))) = q[j + 1]
      /\ Tail(SubSeq(q, j + 1, Len(q))) = SubSeq(q, (j + 1) + 1, Len(q))
  BY <1>1, <1>2, HeadTailOfSubSeq
<1>4. SubSeq(q, 1, Len(q)) = q BY SubSeqFull
<1>5. SubSeq(q, j + 1, Len(q)) # <<>>
  <2>1. Len(SubSeq(q, j + 1, Len(q))) = Len(q) - j /\ Len(q) - j >= 1
    <3>1. \A i \in (j + 1)..Len(q) : q[i] \in T BY <1>1, ElementOfSeq
    <3> QED BY <1>1, <3>1, SubSeqProperties
  <2>2. Len(<<>>) = 0 BY EmptySeq
  <2> QED BY <1>1, <2>1, <2>2
<1> QED BY <1>3, <1>4, <1>5

(* The view after j I PDUs with the N(R) nr, and the j-th of them. *)
Sending(v, nr, j) ==
    IF j = 0 THEN v
    ELSE [v EXCEPT !.i_xmit_q = SubSeq(@, j + 1, Len(@)), !.next_tx_seq = (@ + j) % LLCP_SEQ_MODULO,
                   !.sent_ack_seq = nr, !.last_nr = nr]
InfoPdu(v, nr, j) ==
    [NewPdu("I", v.ep) EXCEPT !.ns = (v.next_tx_seq + j - 1) % LLCP_SEQ_MODULO, !.nr = nr, !.sdu = v.i_xmit_q[j]]

SendingWith(v, nr, j, ack, last) ==
    [v EXCEPT !.i_xmit_q = SubSeq(v.i_xmit_q, j + 1, Len(v.i_xmit_q)),
              !.next_tx_seq = (v.next_tx_seq + j) % LLCP_SEQ_MODULO, !.sent_ack_seq = ack, !.last_nr = last]

(* The fields of that view. *)
LEMMA SendingIs ==
    ASSUME NEW v \in Views, NEW nr \in SeqNum, NEW j \in Nat, j < Len(v.i_xmit_q), j + 1 < LLCP_SEQ_MODULO
    PROVE  /\ Sending(v, nr, j) =
                SendingWith(v, nr, j, IF j = 0 THEN v.sent_ack_seq ELSE nr, IF j = 0 THEN v.last_nr ELSE nr)
           /\ Sending(v, nr, j + 1) = SendingWith(v, nr, j + 1, nr, nr)
<1>1. v.i_xmit_q \in Seq(Nat) /\ v.next_tx_seq \in SeqNum BY DEF Views
<1>2. j + 1 # 0 OBVIOUS
<1>3. Sending(v, nr, j + 1) = SendingWith(v, nr, j + 1, nr, nr) BY <1>2 DEF Sending, SendingWith
<1>4. CASE j = 0
  <2> DEFINE a == SubSeq(v.i_xmit_q, j + 1, Len(v.i_xmit_q))
             b == (v.next_tx_seq + j) % LLCP_SEQ_MODULO
  <2>1. a = v.i_xmit_q BY <1>1, <1>4, SubSeqStep
  <2>2. b = v.next_tx_seq
    <3>0. v.next_tx_seq \in Nat BY <1>1, SeqNumFacts
    <3>1. v.next_tx_seq + j = v.next_tx_seq BY <3>0, <1>4
    <3>2. v.next_tx_seq % LLCP_SEQ_MODULO = v.next_tx_seq BY <1>1, ModStep
    <3> QED BY <3>1, <3>2
  <2> HIDE DEF a, b
  <2>3. Sending(v, nr, j) = v BY <1>4 DEF Sending
  <2>4. v = [v EXCEPT !.i_xmit_q = a, !.next_tx_seq = b, !.sent_ack_seq = v.sent_ack_seq, !.last_nr = v.last_nr]
    BY <2>1, <2>2 DEF Views
  <2>5. v = SendingWith(v, nr, j, v.sent_ack_seq, v.last_nr) BY <2>4 DEF a, b, SendingWith
  <2> QED BY <1>3, <1>4, <2>3, <2>5
<1>5. CASE j # 0 BY <1>3, <1>5 DEF Sending, SendingWith
<1> QED BY <1>4, <1>5

(* One I PDU more. *)
LEMMA SendingStep ==
    ASSUME NEW v \in Views, NEW nr \in {v.sent_ack_seq, v.next_rx_seq}, NEW j \in Nat, j < Len(v.i_xmit_q),
           j + 1 < LLCP_SEQ_MODULO, Dist(Sending(v, nr, j).next_tx_seq, v.rcvd_ack_seq) < v.remote_rw
    PROVE  Informed(Sending(v, nr, j), InfoPdu(v, nr, j + 1), Sending(v, nr, j + 1))
<1> DEFINE x == Sending(v, nr, j)
           y == Sending(v, nr, j + 1)
           p == InfoPdu(v, nr, j + 1)
           a == SubSeq(v.i_xmit_q, j + 1, Len(v.i_xmit_q))
           b == SubSeq(v.i_xmit_q, (j + 1) + 1, Len(v.i_xmit_q))
           k == (v.next_tx_seq + j) % LLCP_SEQ_MODULO
           l == (v.next_tx_seq + (j + 1)) % LLCP_SEQ_MODULO
           ack == IF j = 0 THEN v.sent_ack_seq ELSE nr
           last == IF j = 0 THEN v.last_nr ELSE nr
<1>1. v.i_xmit_q \in Seq(Nat) /\ v.next_tx_seq \in SeqNum /\ nr \in SeqNum /\ v.ep \in Nat /\ Len(v.i_xmit_q) \in Nat
  BY LenProperties DEF Views
<1>2. /\ x = [v EXCEPT !.i_xmit_q = a, !.next_tx_seq = k, !.sent_ack_seq = ack, !.last_nr = last]
      /\ y = [v EXCEPT !.i_xmit_q = b, !.next_tx_seq = l, !.sent_ack_seq = nr, !.last_nr = nr]
  <2>1. x = SendingWith(v, nr, j, ack, last) /\ y = SendingWith(v, nr, j + 1, nr, nr) BY <1>1, SendingIs
  <2> HIDE DEF x, y, ack, last
  <2> QED BY <2>1 DEF SendingWith
<1>3. Head(a) = v.i_xmit_q[j + 1] /\ Tail(a) = b /\ a # <<>> BY <1>1, SubSeqStep
<1>4. k \in SeqNum /\ Inc(k) = l BY <1>1, ModStep
<1>5. p \in Infos /\ p.ep = v.ep /\ p.nr = nr /\ p.ns = k /\ p.sdu = v.i_xmit_q[j + 1]
  <2> DEFINE z == (v.next_tx_seq + (j + 1) - 1) % LLCP_SEQ_MODULO
  <2>1. z = k
    <3>1. v.next_tx_seq + (j + 1) - 1 = v.next_tx_seq + j BY <1>1, SeqNumFacts
    <3> QED BY <3>1
  <2>2. p = [NewPdu("I", v.ep) EXCEPT !.ns = z, !.nr = nr, !.sdu = v.i_xmit_q[j + 1]] BY DEF InfoPdu
  <2> DEFINE N == NewPdu("I", v.ep)
             U(f, g, h) == [N EXCEPT !.ns = f, !.nr = g, !.sdu = h]
  <2>7. p = U(z, nr, v.i_xmit_q[j + 1]) BY <2>2
  <2> HIDE DEF z, k
  <2>3. v.i_xmit_q[j + 1] \in Nat
    <3>1. j + 1 \in 1..Len(v.i_xmit_q) BY <1>1
    <3> QED BY <1>1, <3>1, ElementOfSeq
  <2>4. N \in Pdu /\ N.ep = v.ep /\ N.ptype = "I"
    BY <1>1, NewPduType DEF PTYPE, NewPdu
  <2>5. \A f \in SeqNum, g \in SeqNum, h \in Nat :
          /\ U(f, g, h) \in Pdu /\ U(f, g, h).ep = v.ep /\ U(f, g, h).ptype = "I"
          /\ U(f, g, h).ns = f /\ U(f, g, h).nr = g /\ U(f, g, h).sdu = h
    <3> HIDE DEF N
    <3> QED BY <2>4 DEF Pdu
  <2> HIDE DEF p, U, N
  <2>6. p \in Pdu /\ p.ep = v.ep /\ p.ptype = "I" /\ p.ns = k /\ p.nr = nr /\ p.sdu = v.i_xmit_q[j + 1]
    BY <1>1, <1>4, <2>1, <2>7, <2>3, <2>5
  <2> QED BY <2>6 DEF Infos
<1>6. Dist(k, v.rcvd_ack_seq) < v.remote_rw
  <2> HIDE DEF a, k, ack, last
  <2>1. x.next_tx_seq = k BY <1>2 DEF Views
  <2> QED BY <2>1
<1> HIDE DEF x, y, p, a, b, k, l, ack, last
<1>7. /\ x.i_xmit_q = a /\ x.next_tx_seq = k /\ x.rcvd_ack_seq = v.rcvd_ack_seq /\ x.remote_rw = v.remote_rw
      /\ x.ep = v.ep /\ x.sent_ack_seq = ack /\ x.next_rx_seq = v.next_rx_seq
  BY <1>2 DEF Views
<1>8. nr \in {x.sent_ack_seq, x.next_rx_seq} BY <1>7 DEF ack
<1>9. y = [x EXCEPT !.i_xmit_q = b, !.next_tx_seq = l, !.sent_ack_seq = nr, !.last_nr = nr] BY <1>2 DEF Views
<1>10. y = [x EXCEPT !.i_xmit_q = Tail(@), !.next_tx_seq = Inc(@), !.sent_ack_seq = p.nr, !.last_nr = p.nr]
  <2>1. Tail(x.i_xmit_q) = b /\ Inc(x.next_tx_seq) = l BY <1>3, <1>4, <1>7
  <2> QED BY <1>5, <1>9, <2>1
<1>11. Informed(x, p, y) BY <1>3, <1>5, <1>6, <1>7, <1>8, <1>10 DEF Informed
<1> QED BY <1>11 DEF x, y, p

InfoPdus(v, nr, m) == [j \in 1..m |-> InfoPdu(v, nr, j)]

(* They are a sequence that grows. *)
LEMMA InfoPdusStep ==
    ASSUME NEW v, NEW nr, NEW j \in Nat, InfoPdus(v, nr, j) \in Seq(Pdu), InfoPdu(v, nr, j + 1) \in Pdu, NEW q \in Seq(Pdu)
    PROVE  /\ InfoPdus(v, nr, j + 1) \in Seq(Pdu)
           /\ q \o InfoPdus(v, nr, j + 1) = Append(q \o InfoPdus(v, nr, j), InfoPdu(v, nr, j + 1))
<1> DEFINE D == InfoPdus(v, nr, j)  E == InfoPdus(v, nr, j + 1)  p == InfoPdu(v, nr, j + 1)
<1>1. Len(D) = j /\ \A i \in 1..j : D[i] = InfoPdu(v, nr, i)
  <2>1. D = [i \in 1..j |-> InfoPdu(v, nr, i)] BY DEF InfoPdus
  <2>2. DOMAIN D = 1..j /\ \A i \in 1..j : D[i] = InfoPdu(v, nr, i) BY <2>1
  <2>3. DOMAIN D = 1..Len(D) /\ Len(D) \in Nat BY LenProperties
  <2> HIDE DEF D
  <2> QED BY <2>2, <2>3
<1>2. E = [i \in 1..(j + 1) |-> InfoPdu(v, nr, i)] BY DEF InfoPdus
<1> HIDE DEF D, E
<1>3. /\ Append(D, p) \in Seq(Pdu) /\ DOMAIN Append(D, p) = 1..(j + 1)
      /\ \A i \in 1..j : Append(D, p)[i] = InfoPdu(v, nr, i)
      /\ Append(D, p)[j + 1] = InfoPdu(v, nr, j + 1)
  <2>1. D \in Seq(Pdu) /\ p \in Pdu BY DEF D
  <2> HIDE DEF p
  <2> QED BY <1>1, <2>1, AppendIs DEF p
<1>4. Append(D, p) = E
  <2> HIDE DEF p
  <2>1. \A i \in 1..(j + 1) : Append(D, p)[i] = InfoPdu(v, nr, i)
    <3> SUFFICES ASSUME NEW i \in 1..(j + 1) PROVE Append(D, p)[i] = InfoPdu(v, nr, i) OBVIOUS
    <3>1. i = j + 1 \/ i \in 1..j OBVIOUS
    <3> QED BY <1>3, <3>1
  <2> DEFINE A == Append(D, p)
  <2>2. A \in Seq(Pdu) /\ DOMAIN A = 1..(j + 1) /\ \A i \in 1..(j + 1) : A[i] = InfoPdu(v, nr, i) BY <1>3, <2>1
  <2> HIDE DEF A
  <2>3. Len(A) = j + 1
    <3>1. DOMAIN A = 1..Len(A) /\ Len(A) \in Nat BY <2>2, LenProperties
    <3> QED BY <2>2, <3>1
  <2>4. \A i \in 1..(j + 1) : InfoPdu(v, nr, i) \in Pdu BY <2>2, <2>3, ElementOfSeq
  <2>5. E \in Seq(Pdu) BY <1>2, <2>4, SeqDef
  <2>6. Len(E) = j + 1 /\ \A i \in 1..(j + 1) : E[i] = InfoPdu(v, nr, i)
    <3>1. DOMAIN E = 1..Len(E) /\ Len(E) \in Nat BY <2>5, LenProperties
    <3>2. DOMAIN E = 1..(j + 1) /\ \A i \in 1..(j + 1) : E[i] = InfoPdu(v, nr, i) BY <1>2
    <3> HIDE DEF E
    <3>4. 1..Len(E) = 1..(j + 1) BY <3>1, <3>2
    <3> DEFINE l == Len(E)
    <3>5. l \in Nat /\ 1..l = 1..(j + 1) BY <3>1, <3>4
    <3> HIDE DEF l
    <3>6. j + 1 \in 1..l /\ (l >= 1 => l \in 1..(j + 1)) BY <3>5
    <3>7. l = j + 1 BY <3>5, <3>6
    <3>3. Len(E) = j + 1 BY <3>7 DEF l
    <3> QED BY <3>2, <3>3
  <2>7. A = E BY <2>2, <2>3, <2>5, <2>6, SeqEqual
  <2> QED BY <2>7 DEF A
<1>5. q \o Append(D, p) = Append(q \o D, p) BY DEF D
<1> QED BY <1>3, <1>4, <1>5 DEF D, E, p

(* llcp_dlc_get_next_pdu, as often as the window and the queue allow. *)
LEMMA SendingGoes ==
    ASSUME NEW n \in Node, NEW v \in Views, NEW nr \in {v.sent_ack_seq, v.next_rx_seq}, NEW q \in Seq(Pdu), Local(v),
           NEW m \in Nat, m <= Len(v.i_xmit_q), m <= v.remote_rw - Dist(v.next_tx_seq, v.rcvd_ack_seq)
    PROVE  Goes(n, v, q, Sending(v, nr, m), q \o InfoPdus(v, nr, m)) /\ InfoPdus(v, nr, m) \in Seq(Pdu)
<1> DEFINE S(j) == Sending(v, nr, j)
           D(j) == InfoPdus(v, nr, j)
           Fine(j) == /\ Goes(n, v, q, S(j), q \o D(j)) /\ D(j) \in Seq(Pdu)
                      /\ S(j).rcvd_ack_seq = v.rcvd_ack_seq
                      /\ Dist(S(j).next_tx_seq, v.rcvd_ack_seq) = Dist(v.next_tx_seq, v.rcvd_ack_seq) + j
           P == {j \in 0..m : Fine(j)}
<1>1. /\ v.next_tx_seq \in SeqNum /\ v.rcvd_ack_seq \in SeqNum /\ v.remote_rw \in Nat /\ v.remote_rw < LLCP_SEQ_MODULO
      /\ Len(v.i_xmit_q) \in Nat /\ LLCP_SEQ_MODULO \in Nat
  <2>1. v.remote_rw \in SeqNum BY ViewNumbers
  <2> QED BY <2>1, ViewNumbers, SeqAssumption DEF SeqNum
<1>2. Dist(v.next_tx_seq, v.rcvd_ack_seq) \in Nat BY <1>1, DistNat
<1>3. Fine(0)
  <2>1. S(0) = v BY DEF Sending
  <2>2. D(0) = <<>> BY DEF InfoPdus
  <2>3. q \o <<>> = q /\ <<>> \in Seq(Pdu) OBVIOUS
  <2> HIDE DEF S, D
  <2>4. Goes(n, v, q, v, q) BY GoesRefl
  <2>5. Goes(n, v, q, S(0), q \o D(0)) BY <2>1, <2>2, <2>3, <2>4
  <2>6. S(0).rcvd_ack_seq = v.rcvd_ack_seq /\ S(0).next_tx_seq = v.next_tx_seq BY <2>1
  <2>7. Dist(S(0).next_tx_seq, v.rcvd_ack_seq) = Dist(v.next_tx_seq, v.rcvd_ack_seq) + 0 BY <1>2, <2>6
  <2>8. D(0) \in Seq(Pdu) BY <2>2, <2>3
  <2> QED BY <2>5, <2>6, <2>7, <2>8
<1>4. ASSUME NEW j \in 0..(m - 1), Fine(j) PROVE Fine(j + 1)
  <2>1. j \in Nat /\ j < m /\ j < Len(v.i_xmit_q) /\ j + 1 < LLCP_SEQ_MODULO
        /\ Dist(v.next_tx_seq, v.rcvd_ack_seq) + j < v.remote_rw
    BY <1>1, <1>2
  <2> DEFINE p == InfoPdu(v, nr, j + 1)
  <2>2. Informed(S(j), p, S(j + 1)) BY <1>4, <2>1, SendingStep
  <2>3. S(j) \in Views /\ Local(S(j)) BY <1>4 DEF Goes
  <2> HIDE DEF S, D, p
  <2>4. /\ S(j + 1).rcvd_ack_seq = S(j).rcvd_ack_seq
        /\ Dist(S(j + 1).next_tx_seq, S(j + 1).rcvd_ack_seq) = Dist(S(j).next_tx_seq, S(j).rcvd_ack_seq) + 1
    BY <2>2, <2>3, InformedIs
  <2>5. p \in Pdu BY <2>2 DEF Informed, Infos
  <2>6. D(j + 1) \in Seq(Pdu) /\ q \o D(j + 1) = Append(q \o D(j), p) BY <1>4, <2>1, <2>5, InfoPdusStep DEF D, p
  <2>7. Goes(n, S(j), q \o D(j), S(j + 1), Append(q \o D(j), p)) BY <2>2, GoesWorks DEF Works
  <2>8. Goes(n, v, q, S(j + 1), Append(q \o D(j), p)) BY <1>4, <2>7, GoesTrans
  <2>9. Dist(S(j + 1).next_tx_seq, v.rcvd_ack_seq) = Dist(v.next_tx_seq, v.rcvd_ack_seq) + (j + 1)
    BY <1>2, <1>4, <2>1, <2>4
  <2> QED BY <1>4, <2>4, <2>6, <2>8, <2>9
<1>5. 0 \in P /\ \A k \in 1..m : k - 1 \in P => k \in P
  <2> HIDE DEF Fine
  <2>1. 0 \in P BY <1>3
  <2>2. ASSUME NEW k \in 1..m, k - 1 \in P PROVE k \in P
    <3>1. k - 1 \in 0..(m - 1) /\ k = (k - 1) + 1 /\ k \in 0..m OBVIOUS
    <3>2. Fine(k - 1) BY <2>2
    <3>3. Fine((k - 1) + 1) BY <1>4, <3>1, <3>2
    <3>4. Fine(k) BY <3>1, <3>3
    <3> QED BY <3>1, <3>4
  <2> QED BY <2>1, <2>2
<1>6. m \in P
  <2>1. 0..m \subseteq P
    <3> HIDE DEF P
    <3> QED BY <1>5, UpTo
  <2>2. m \in 0..m OBVIOUS
  <2> QED BY <2>1, <2>2
<1> QED BY <1>6

(* One build of I PDUs, as llcp_link_get_next_pdu asks for them. *)
LEMMA BuildInfoPdusGoes ==
    ASSUME NEW n \in Node, NEW s \in ControlBlock, NEW m \in Nat, m <= SendableIPdus(s), NEW q \in Seq(Pdu)
    PROVE  /\ Goes(n, View(s), q, View(BuildInfoPdus(s, m).s), q \o BuildInfoPdus(s, m).pdus)
           /\ BuildInfoPdus(s, m).s.sig_xmit_q = s.sig_xmit_q /\ BuildInfoPdus(s, m).s.out = s.out
           /\ m = 0 => BuildInfoPdus(s, m).pdus = <<>>
<1> DEFINE v == View(s)
           nr == IF RxFlowOff(s) THEN s.sent_ack_seq ELSE s.next_rx_seq
           a == SubSeq(s.i_xmit_q, m + 1, Len(s.i_xmit_q))
           x == (s.next_tx_seq + m) % LLCP_SEQ_MODULO
           t == [s EXCEPT !.i_xmit_q = a, !.next_tx_seq = x, !.sent_ack_seq = nr, !.last_nr = nr]
           b == BuildInfoPdus(s, m)
<1>1. b.s = (IF m = 0 THEN s ELSE t) BY DEF BuildInfoPdus
<1>2. b.pdus = InfoPdus(v, nr, m)
  <2>1. v.ep = s.ep /\ v.next_tx_seq = s.next_tx_seq /\ v.i_xmit_q = s.i_xmit_q BY ViewIs
  <2> HIDE DEF v
  <2> QED BY <2>1 DEF BuildInfoPdus, InfoPdus, InfoPdu
<1>3. nr \in {s.sent_ack_seq, s.next_rx_seq} /\ v \in Views /\ v.sent_ack_seq = s.sent_ack_seq /\ v.next_rx_seq = s.next_rx_seq
      /\ v.next_tx_seq = s.next_tx_seq /\ v.rcvd_ack_seq = s.rcvd_ack_seq /\ v.i_xmit_q = s.i_xmit_q /\ v.remote_rw = s.remote_rw
  BY ViewIs
<1> HIDE DEF nr
<1>4. CASE m = 0
  <2>1. InfoPdus(v, nr, 0) = <<>> BY DEF InfoPdus
  <2>2. q \o <<>> = q OBVIOUS
  <2>3. Goes(n, v, q, v, q) BY GoesRefl
  <2> HIDE DEF b, t
  <2> QED BY <1>1, <1>2, <1>4, <2>1, <2>2, <2>3 DEF b
<1>5. CASE m # 0
  <2>1. m <= Len(v.i_xmit_q) /\ m <= v.remote_rw - Dist(v.next_tx_seq, v.rcvd_ack_seq)
    <3>1. /\ s.next_tx_seq \in SeqNum /\ s.rcvd_ack_seq \in SeqNum /\ s.remote_rw \in Nat /\ Len(s.i_xmit_q) \in Nat
      BY SeqNumFacts, LenProperties DEF ControlBlock
    <3>2. Dist(s.next_tx_seq, s.rcvd_ack_seq) \in Nat BY <3>1, DistNat
    <3>3. m <= Len(s.i_xmit_q) /\ m <= s.remote_rw - Dist(s.next_tx_seq, s.rcvd_ack_seq)
      BY <1>5, <3>1, <3>2 DEF SendableIPdus, MinNat
    <3> QED BY <1>3, <3>3
  <2>2. /\ t.state = s.state /\ t.ep = s.ep /\ t.local_rw = s.local_rw /\ t.remote_rw = s.remote_rw
        /\ t.next_tx_seq = x /\ t.rcvd_ack_seq = s.rcvd_ack_seq /\ t.next_rx_seq = s.next_rx_seq /\ t.sent_ack_seq = nr
        /\ t.i_xmit_q = a /\ t.nsent = s.nsent /\ t.nrcvd = s.nrcvd /\ t.ncomplete = s.ncomplete /\ t.last_nr = nr
        /\ t.sig_xmit_q = s.sig_xmit_q /\ t.out = s.out
    <3> HIDE DEF a, x
    <3> QED BY DEF ControlBlock
  <2> HIDE DEF t
  <2>3. View(t) = [v EXCEPT !.i_xmit_q = a, !.next_tx_seq = x, !.sent_ack_seq = nr, !.last_nr = nr]
    <3> DEFINE u == [state |-> s.state, ep |-> s.ep, local_rw |-> s.local_rw, remote_rw |-> s.remote_rw,
                     next_tx_seq |-> x, rcvd_ack_seq |-> s.rcvd_ack_seq,
                     next_rx_seq |-> s.next_rx_seq, sent_ack_seq |-> nr,
                     i_xmit_q |-> a, nsent |-> s.nsent, nrcvd |-> s.nrcvd, ncomplete |-> s.ncomplete,
                     last_nr |-> nr]
    <3> HIDE DEF a, x
    <3>1. View(t) = u BY <2>2 DEF View
    <3>2. [v EXCEPT !.i_xmit_q = a, !.next_tx_seq = x, !.sent_ack_seq = nr, !.last_nr = nr] = u
      <4> DEFINE v1 == [v EXCEPT !.i_xmit_q = a]  v2 == [v1 EXCEPT !.next_tx_seq = x]
                 v3 == [v2 EXCEPT !.sent_ack_seq = nr]  v4 == [v3 EXCEPT !.last_nr = nr]
      <4>1. v1 = [View(s) EXCEPT !.i_xmit_q = a] OBVIOUS
      <4>2. v4 = [v EXCEPT !.i_xmit_q = a, !.next_tx_seq = x, !.sent_ack_seq = nr, !.last_nr = nr]
        <5> HIDE DEF v
        <5> QED OBVIOUS
      <4> HIDE DEF v1
      <4>3. v1 = [state |-> s.state, ep |-> s.ep, local_rw |-> s.local_rw, remote_rw |-> s.remote_rw,
                     next_tx_seq |-> s.next_tx_seq, rcvd_ack_seq |-> s.rcvd_ack_seq,
                     next_rx_seq |-> s.next_rx_seq, sent_ack_seq |-> s.sent_ack_seq,
                     i_xmit_q |-> a, nsent |-> s.nsent, nrcvd |-> s.nrcvd, ncomplete |-> s.ncomplete,
                     last_nr |-> s.last_nr]
        BY <4>1 DEF View
      <4>4. v2 = [state |-> s.state, ep |-> s.ep, local_rw |-> s.local_rw, remote_rw |-> s.remote_rw,
                     next_tx_seq |-> x, rcvd_ack_seq |-> s.rcvd_ack_seq,
                     next_rx_seq |-> s.next_rx_seq, sent_ack_seq |-> s.sent_ack_seq,
                     i_xmit_q |-> a, nsent |-> s.nsent, nrcvd |-> s.nrcvd, ncomplete |-> s.ncomplete,
                     last_nr |-> s.last_nr]
        BY <4>3
      <4> HIDE DEF v2
      <4>5. v3 = [state |-> s.state, ep |-> s.ep, local_rw |-> s.local_rw, remote_rw |-> s.remote_rw,
                     next_tx_seq |-> x, rcvd_ack_seq |-> s.rcvd_ack_seq,
                     next_rx_seq |-> s.next_rx_seq, sent_ack_seq |-> nr,
                     i_xmit_q |-> a, nsent |-> s.nsent, nrcvd |-> s.nrcvd, ncomplete |-> s.ncomplete,
                     last_nr |-> s.last_nr]
        BY <4>4
      <4> HIDE DEF v3
      <4>6. v4 = u BY <4>5
      <4> HIDE DEF v4, v, u
      <4> QED BY <4>2, <4>6
    <3> HIDE DEF u, v
    <3> QED BY <3>1, <3>2
  <2>4. View(t) = Sending(v, nr, m)
    <3> HIDE DEF v
    <3> QED BY <1>3, <1>5, <2>3 DEF Sending
  <2> HIDE DEF v
  <2>5. ASSUME Local(v) PROVE Goes(n, v, q, Sending(v, nr, m), q \o InfoPdus(v, nr, m))
    <3>1. nr \in {v.sent_ack_seq, v.next_rx_seq} BY <1>3
    <3> QED BY <1>3, <2>1, <2>5, <3>1, SendingGoes
  <2>6. ASSUME ~Local(v) PROVE Goes(n, v, q, Sending(v, nr, m), q \o InfoPdus(v, nr, m)) BY <2>6 DEF Goes
  <2> HIDE DEF b
  <2> QED BY <1>1, <1>2, <1>5, <2>2, <2>4, <2>5, <2>6 DEF v, b
<1> QED BY <1>4, <1>5

(* A transmission under construction grows; what it holds goes before what *)
(* is still queued.                                                        *)
Grows(n, b, b2) ==
    /\ Goes(n, View(b.s), b.pdus \o b.s.sig_xmit_q, View(b2.s), b2.pdus \o b2.s.sig_xmit_q)
    /\ b2.s.out = b.s.out

(* Parts of a stream may be joined in any order. *)
LEMMA JoinTwice ==
    ASSUME NEW a \in Seq(Pdu), NEW b \in Seq(Pdu), NEW c \in Seq(Pdu) PROVE (a \o b) \o c = a \o (b \o c)
<1> DEFINE S == Pdu
<1>1. a \in Seq(S) /\ b \in Seq(S) /\ c \in Seq(S) OBVIOUS
<1> HIDE DEF S
<1> QED BY <1>1, ConcatAssociative

(* A sequence in two parts. *)
LEMMA TwoParts ==
    ASSUME NEW q \in Seq(Pdu), NEW j \in Nat, j <= Len(q)
    PROVE  /\ SubSeq(q, 1, j) \in Seq(Pdu) /\ SubSeq(q, j + 1, Len(q)) \in Seq(Pdu)
           /\ SubSeq(q, 1, j) \o SubSeq(q, j + 1, Len(q)) = q
           /\ j = Len(q) => SubSeq(q, 1, j) = q /\ SubSeq(q, j + 1, Len(q)) = <<>>
<1>1. Len(q) \in Nat BY LenProperties
<1>2. SubSeq(q, 1, j) \in Seq(Pdu) /\ SubSeq(q, j + 1, Len(q)) \in Seq(Pdu) BY SubSeqType
<1>3. SubSeq(q, 1, Len(q)) = q BY SubSeqFull
<1>4. j = Len(q) => SubSeq(q, j + 1, Len(q)) = <<>> BY <1>1, SubSeqEmpty
<1>5. SubSeq(q, 1, j) \o SubSeq(q, j + 1, Len(q)) = q
  <2>1. CASE j = 0
    <3>1. SubSeq(q, 1, 0) = <<>> BY SubSeqEmpty
    <3>2. <<>> \o q = q OBVIOUS
    <3>3. j + 1 = 1 BY <2>1
    <3> QED BY <1>3, <2>1, <3>1, <3>2, <3>3
  <2>2. CASE j # 0 /\ j # Len(q)
    <3>1. 1 \in 1..(Len(q) + 1) /\ j \in 1..Len(q) /\ Len(q) \in j..Len(q) BY <1>1, <2>2
    <3>2. SubSeq(q, 1, j) \o SubSeq(q, j + 1, Len(q)) = SubSeq(q, 1, Len(q)) BY <1>1, <3>1, ConcatAdjacentSubSeq
    <3> QED BY <1>3, <3>2
  <2>3. CASE j = Len(q)
    <3>1. q \o <<>> = q OBVIOUS
    <3> QED BY <1>3, <1>4, <2>3, <3>1
  <2> QED BY <2>1, <2>2, <2>3
<1> QED BY <1>2, <1>3, <1>4, <1>5

(* llcp_link_get_next_pdu: signalling PDUs first, then I PDUs. *)
LEMMA AddPdusGrows ==
    ASSUME NEW n \in Node, NEW s \in ControlBlock, NEW pdus \in Seq(Pdu), NEW k \in Nat
    PROVE  Grows(n, [pdus |-> pdus, s |-> s], AddPdus([pdus |-> pdus, s |-> s], k))
<1> DEFINE sig == s.sig_xmit_q
           nsig == MinNat(k, Len(sig))
           sigs == SubSeq(sig, 1, nsig)
           rest == SubSeq(sig, nsig + 1, Len(sig))
           s1 == [s EXCEPT !.sig_xmit_q = rest]
           m == MinNat(k - nsig, SendableIPdus(s))
           info == BuildInfoPdus(s1, m)
<1>1. AddPdus([pdus |-> pdus, s |-> s], k) = [pdus |-> pdus \o sigs \o info.pdus, s |-> info.s] BY DEF AddPdus
<1>2. sig \in Seq(Pdu) /\ Len(sig) \in Nat BY LenProperties DEF ControlBlock
<1>3. nsig \in Nat /\ nsig <= Len(sig) /\ k - nsig \in Nat /\ (k - nsig # 0 => nsig = Len(sig)) BY <1>2 DEF MinNat
<1>4. sigs \in Seq(Pdu) /\ rest \in Seq(Pdu) /\ sigs \o rest = sig /\ (nsig = Len(sig) => sigs = sig /\ rest = <<>>)
  BY <1>2, <1>3, TwoParts
<1>5. m \in Nat /\ m <= SendableIPdus(s) /\ (k - nsig = 0 => m = 0)
  <2>1. SendableIPdus(s) \in Nat BY SendableType
  <2> QED BY <1>3, <2>1 DEF MinNat
<1> HIDE DEF nsig, sigs, rest, m
<1>6. /\ s1 \in ControlBlock /\ s1.sig_xmit_q = rest /\ s1.out = s.out
      /\ SendableIPdus(s1) = SendableIPdus(s)
  <2>1. /\ s1 \in ControlBlock /\ s1.sig_xmit_q = rest /\ s1.out = s.out /\ s1.state = s.state /\ s1.remote_busy = s.remote_busy
        /\ s1.next_tx_seq = s.next_tx_seq /\ s1.rcvd_ack_seq = s.rcvd_ack_seq /\ s1.i_xmit_q = s.i_xmit_q /\ s1.remote_rw = s.remote_rw
    BY <1>4 DEF ControlBlock
  <2> HIDE DEF s1
  <2> QED BY <2>1 DEF SendableIPdus
<1>7. View(s1) = View(s) BY ViewExcept
<1> HIDE DEF s1
<1>8. pdus \o sig \in Seq(Pdu) BY <1>2
<1>9. /\ Goes(n, View(s1), pdus \o sig, View(info.s), (pdus \o sig) \o info.pdus)
      /\ info.s.sig_xmit_q = rest /\ info.s.out = s.out
      /\ m = 0 => info.pdus = <<>>
  BY <1>5, <1>6, <1>8, BuildInfoPdusGoes
<1>10. info.pdus \in Seq(Pdu)
  <2>1. m <= Len(s1.i_xmit_q)
    <3>1. SendableIPdus(s1) \in Nat /\ SendableIPdus(s1) <= Len(s1.i_xmit_q) BY <1>6, SendableType
    <3>2. Len(s1.i_xmit_q) \in Nat BY <1>6, LenProperties DEF ControlBlock
    <3> QED BY <1>5, <1>6, <3>1, <3>2
  <2> QED BY <1>5, <1>6, <2>1, BuildInfoPdusType
<1> HIDE DEF info, sig
<1>11. (pdus \o sigs \o info.pdus) \o rest = (pdus \o sig) \o info.pdus
  <2>1. CASE m = 0
    <3> DEFINE i == info.pdus
    <3>1. i = <<>> /\ pdus \o sigs \in Seq(Pdu) BY <1>4, <1>9, <2>1
    <3>2. (pdus \o sigs) \o <<>> = pdus \o sigs /\ (pdus \o sig) \o <<>> = pdus \o sig BY <1>2, <3>1
    <3>3. (pdus \o sigs) \o rest = pdus \o (sigs \o rest) BY <1>4, JoinTwice
    <3> HIDE DEF i
    <3>4. (pdus \o sigs \o i) \o rest = (pdus \o sig) \o i BY <1>4, <3>1, <3>2, <3>3
    <3> QED BY <3>4 DEF i
  <2>2. CASE m # 0
    <3>1. sigs = sig /\ rest = <<>> BY <1>3, <1>4, <1>5, <2>2
    <3>2. pdus \o sig \o info.pdus \in Seq(Pdu) BY <1>2, <1>8, <1>10
    <3>3. (pdus \o sig \o info.pdus) \o <<>> = pdus \o sig \o info.pdus BY <3>2
    <3> QED BY <3>1, <3>3
  <2> QED BY <2>1, <2>2
<1>12. Goes(n, View(s), pdus \o sig, View(info.s), (pdus \o sigs \o info.pdus) \o info.s.sig_xmit_q)
  BY <1>7, <1>9, <1>11
<1> DEFINE b == [pdus |-> pdus, s |-> s]  b2 == AddPdus(b, k)
<1>15. b.pdus = pdus /\ b.s = s OBVIOUS
<1>16. b2 = [pdus |-> pdus \o sigs \o info.pdus, s |-> info.s] BY <1>1
<1> HIDE DEF b, b2
<1>13. b.pdus = pdus /\ b.s = s /\ b2.pdus = pdus \o sigs \o info.pdus /\ b2.s = info.s BY <1>15, <1>16
<1> HIDE DEF b, b2
<1>14. Grows(n, b, b2) BY <1>9, <1>12, <1>13 DEF Grows, sig
<1> QED BY <1>14 DEF b, b2

(* llcp_link_build_next_pdu. *)
LEMMA BuildNextPduGrows ==
    ASSUME NEW n \in Node, NEW s \in ControlBlock, NEW pdus \in Seq(Pdu), NEW k \in Nat, NEW ok \in PoolOutcomes, ok \in BOOLEAN
    PROVE  Grows(n, [pdus |-> pdus, s |-> s], BuildNextPdu([pdus |-> pdus, s |-> s], k, ok))
<1> DEFINE b == [pdus |-> pdus, s |-> s]
           t == NotifyWhenDone(s, ok)
           d == [b EXCEPT !.s = NotifyWhenDone(b.s, ok)]
<1>1. \A j \in Nat : Grows(n, b, AddPdus(b, j)) BY AddPdusGrows
<1>2. ASSUME pdus = <<>> PROVE Grows(n, b, d)
  <2>1. Moves(n, s, t) /\ t.out = s.out BY NotifyWhenDoneMoves
  <2> HIDE DEF t
  <2>2. pdus \o s.sig_xmit_q = pdus \o s.sig_xmit_q /\ Goes(n, View(s), pdus \o s.sig_xmit_q, View(t), pdus \o t.sig_xmit_q)
    BY <2>1 DEF Moves
  <2>3. b.pdus = pdus /\ b.s = s /\ d.pdus = pdus /\ d.s = t BY DEF t
  <2> HIDE DEF b, d
  <2> QED BY <2>1, <2>2, <2>3 DEF Grows
<1>3. BuildNextPdu(b, k, ok) \in {AddPdus(b, IF k = 0 THEN 1 ELSE k), AddPdus(b, k)} \/ (pdus = <<>> /\ BuildNextPdu(b, k, ok) = d)
  BY DEF BuildNextPdu
<1>4. (IF k = 0 THEN 1 ELSE k) \in Nat OBVIOUS
<1> HIDE DEF b, d
<1>5. Grows(n, b, BuildNextPdu(b, k, ok)) BY <1>1, <1>2, <1>3, <1>4
<1> QED BY <1>5 DEF b

(* Growing twice. *)
LEMMA GrowsTrans ==
    ASSUME NEW n, NEW a, NEW b, NEW d, Grows(n, a, b), Grows(n, b, d) PROVE Grows(n, a, d)
<1>1. Goes(n, View(a.s), a.pdus \o a.s.sig_xmit_q, View(d.s), d.pdus \o d.s.sig_xmit_q) BY GoesTrans DEF Grows
<1> QED BY <1>1 DEF Grows

(* From s to t a device sends. *)
Sends(n, s, t) == Goes(n, View(s), Stream(s), View(t), Stream(t))

(* What Same, and Sends twice, are. *)
LEMMA SendsTrans ==
    ASSUME NEW n, NEW s, NEW t, NEW u
    PROVE  /\ Same(s, t) => Sends(n, s, t)
           /\ Sends(n, s, t) /\ Sends(n, t, u) => Sends(n, s, u)
<1>1. ASSUME Same(s, t) PROVE Sends(n, s, t)
  <2>1. View(t) = View(s) /\ Stream(t) = Stream(s) BY <1>1 DEF Same, Stream, Wire
  <2> QED BY <2>1, GoesRefl DEF Sends
<1>2. ASSUME Sends(n, s, t), Sends(n, t, u) PROVE Sends(n, s, u) BY <1>2, GoesTrans DEF Sends
<1> QED BY <1>1, <1>2

(* A frame is handed down: what it holds was taken from the queues. *)
LEMMA SendToLowerIs ==
    ASSUME NEW s \in ControlBlock, NEW pdus \in Seq(Pdu)
    PROVE  View(SendToLower(s, pdus)) = View(s) /\ Stream(SendToLower(s, pdus)) = pdus \o s.sig_xmit_q
<1> DEFINE f == [agf |-> Len(pdus) > 1, pdus |-> pdus]
           o == <<f>>
           t == SendToLower(s, pdus)
<1>1. o # <<>> /\ o[1].pdus = pdus OBVIOUS
<1>2. t = [s EXCEPT !.symm_state = "REMOTE_XMIT_NEXT", !.out = o] BY DEF SendToLower
<1> HIDE DEF o, t
<1>3. /\ t.state = s.state /\ t.ep = s.ep /\ t.local_rw = s.local_rw /\ t.remote_rw = s.remote_rw
      /\ t.next_tx_seq = s.next_tx_seq /\ t.rcvd_ack_seq = s.rcvd_ack_seq /\ t.next_rx_seq = s.next_rx_seq
      /\ t.sent_ack_seq = s.sent_ack_seq /\ t.i_xmit_q = s.i_xmit_q /\ t.nsent = s.nsent /\ t.nrcvd = s.nrcvd
      /\ t.ncomplete = s.ncomplete /\ t.last_nr = s.last_nr /\ t.sig_xmit_q = s.sig_xmit_q /\ t.out = o
  BY <1>2 DEF ControlBlock
<1>4. View(t) = View(s) BY <1>3 DEF View
<1>5. Stream(t) = pdus \o s.sig_xmit_q BY <1>1, <1>3 DEF Stream, Wire
<1> QED BY <1>4, <1>5 DEF t

(* llcp_link_check_send_data. *)
LEMMA CheckSendDataSends ==
    ASSUME NEW n \in Node, NEW s \in ControlBlock, NEW c \in Choice
    PROVE  /\ (s.symm_state = "LOCAL_XMIT_NEXT" => s.out = <<>>) => Sends(n, s, CheckSendData(s, c))
           /\ s.symm_state # "LOCAL_XMIT_NEXT" => Same(s, CheckSendData(s, c))
<1> DEFINE s0 == CheckCongestion(s)
           b0 == [pdus |-> <<>>, s |-> s0]
           b1 == BuildNextPdu(b0, c.k1, c.disc)
           b1a == [b1 EXCEPT !.s = CheckToSendRrRnr(b1.s, c)]
           b2 == BuildNextPdu(b1a, c.k2, c.disc)
           t == CheckUncongested(SendToLower(b2.s, b2.pdus))
<1>0. CheckSendData(s, c) =
        IF s.symm_state # "LOCAL_XMIT_NEXT" THEN s0
        ELSE IF b2.pdus = <<>> THEN b2.s
        ELSE t
  BY DEF CheckSendData
<1>1. Same(s, s0) /\ s0 \in ControlBlock BY CheckCongestionSame, CheckCongestionStays, StaysType
<1> HIDE DEF s0
<1>2. /\ c.disc \in PoolOutcomes /\ c.disc \in BOOLEAN /\ c.k1 \in Nat /\ c.k2 \in Nat
  <2>1. c.disc \in PoolOutcomes BY DEF Choice
  <2> QED BY <2>1, ChoiceType
<1>3. /\ Grows(n, b0, b1)
      /\ \E pdus, x : pdus \in Seq(Pdu) /\ b1 = [pdus |-> pdus, s |-> x] /\ Stays(s0, x)
  <2>1. <<>> \in Seq(Pdu) OBVIOUS
  <2>2. Grows(n, b0, b1)
    <3> DEFINE e == <<>>
    <3>1. e \in Seq(Pdu) OBVIOUS
    <3> HIDE DEF e
    <3>2. Grows(n, [pdus |-> e, s |-> s0], BuildNextPdu([pdus |-> e, s |-> s0], c.k1, c.disc)) BY <1>1, <1>2, <3>1, BuildNextPduGrows
    <3> QED BY <3>2 DEF e
  <2>3. Built(s0, b0) BY <1>1, <2>1, StaysRefl DEF Built
  <2> HIDE DEF b0
  <2>4. Built(s0, b1) BY <1>1, <1>2, <2>3, BuildNextPduType
  <2> HIDE DEF b1
  <2> QED BY <2>2, <2>4 DEF Built
<1>4. b0.pdus = <<>> /\ b0.s = s0 OBVIOUS
<1> HIDE DEF b0, b1
<1>5. PICK p1, x1 : p1 \in Seq(Pdu) /\ b1 = [pdus |-> p1, s |-> x1] /\ Stays(s0, x1) BY <1>3
<1>6. x1 \in ControlBlock BY <1>5, StaysType
<1> DEFINE x2 == CheckToSendRrRnr(x1, c)
<1>7. b1a = [pdus |-> p1, s |-> x2] BY <1>5
<1>8. Moves(n, x1, x2) /\ x2.out = x1.out BY <1>6, CheckToSendRrRnrMoves
<1>9. x2 \in ControlBlock /\ Stays(x1, x2) BY <1>6, CheckToSendRrRnrStays, StaysType
<1> HIDE DEF x2, b1a
<1>10. Grows(n, b1, b1a)
  <2>1. Goes(n, View(x1), p1 \o x1.sig_xmit_q, View(x2), p1 \o x2.sig_xmit_q) BY <1>5, <1>8 DEF Moves
  <2>2. b1.pdus = p1 /\ b1.s = x1 /\ b1a.pdus = p1 /\ b1a.s = x2 BY <1>5, <1>7
  <2> QED BY <1>8, <2>1, <2>2 DEF Grows
<1>11. Grows(n, b1a, b2) /\ b2.pdus \in Seq(Pdu) /\ b2.s \in ControlBlock
  <2>1. Grows(n, [pdus |-> p1, s |-> x2], BuildNextPdu([pdus |-> p1, s |-> x2], c.k2, c.disc)) BY <1>2, <1>5, <1>9, BuildNextPduGrows
  <2>2. Built(x2, [pdus |-> p1, s |-> x2]) BY <1>5, <1>9, StaysRefl DEF Built
  <2>3. Built(x2, b2) BY <1>2, <1>7, <1>9, <2>2, BuildNextPduType
  <2> HIDE DEF b2
  <2>4. b2.pdus \in Seq(Pdu) /\ b2.s \in ControlBlock BY <2>3, StaysType DEF Built
  <2> QED BY <1>7, <2>1, <2>4 DEF b2
<1> HIDE DEF b2, t
<1>12. Grows(n, b0, b2) BY <1>3, <1>10, <1>11, GrowsTrans
<1>13. Goes(n, View(s0), <<>> \o s0.sig_xmit_q, View(b2.s), b2.pdus \o b2.s.sig_xmit_q) /\ b2.s.out = s0.out
  BY <1>4, <1>12 DEF Grows
<1>14. ASSUME s.out = <<>> PROVE Sends(n, s, b2.s) \/ b2.pdus # <<>>
  <2>1. Stream(s) = <<>> \o s0.sig_xmit_q /\ View(s) = View(s0) BY <1>1, <1>14 DEF Same, Stream, Wire
  <2>2. ASSUME b2.pdus = <<>> PROVE Stream(b2.s) = b2.pdus \o b2.s.sig_xmit_q BY <1>1, <1>13, <1>14, <2>2 DEF Same, Stream, Wire
  <2> QED BY <1>13, <2>1, <2>2 DEF Sends
<1>15. ASSUME s.out = <<>>, s.symm_state = "LOCAL_XMIT_NEXT" PROVE Sends(n, s, t)
  <2> DEFINE u == SendToLower(b2.s, b2.pdus)
  <2>1. Stream(s) = <<>> \o s0.sig_xmit_q /\ View(s) = View(s0) BY <1>1, <1>15 DEF Same, Stream, Wire
  <2>2. View(u) = View(b2.s) /\ Stream(u) = b2.pdus \o b2.s.sig_xmit_q BY <1>11, SendToLowerIs
  <2>3. u \in ControlBlock
    <3>1. b2.s.symm_state = "LOCAL_XMIT_NEXT"
      <4>1. s0.symm_state = s.symm_state BY CheckCongestionStays DEF Stays, s0
      <4>2. x1.symm_state = s0.symm_state /\ x2.symm_state = x1.symm_state BY <1>5, <1>9 DEF Stays
      <4>3. Built(x2, b2)
        <5>1. Built(x2, [pdus |-> p1, s |-> x2]) BY <1>5, <1>9, StaysRefl DEF Built
        <5> QED BY <1>2, <1>7, <1>9, <5>1, BuildNextPduType DEF b2
      <4>4. b2.s.symm_state = x2.symm_state BY <4>3 DEF Built, Stays
      <4> QED BY <1>15, <4>1, <4>2, <4>4
    <3>2. Sent(b2.s, u) BY <1>11, <3>1, SendToLowerSent
    <3> QED BY <3>2 DEF Sent
  <2>4. Same(u, t) BY <2>3, CheckUncongestedSame DEF t
  <2> HIDE DEF u
  <2>5. Sends(n, s, u) BY <1>13, <2>1, <2>2 DEF Sends
  <2> QED BY <2>4, <2>5, SendsTrans
<1>16. Sends(n, s, s0) BY <1>1, SendsTrans
<1> QED BY <1>0, <1>1, <1>14, <1>15, <1>16

-----------------------------------------------------------------------------
(* The end of a connection and its beginning, and the PDUs in between.     *)

(* llcp_util_check_rx_congested_status: congestion and flags only. *)
LEMMA CheckRxSame == ASSUME NEW s \in ControlBlock PROVE Same(s, CheckRxCongestedStatus(s))
<1> DEFINE b == ~s.overall_rx_congested
           s1 == [s EXCEPT !.overall_rx_congested = b]
<1>1. s1 \in ControlBlock BY DEF ControlBlock
<1>2. Same(s, s1) BY DEF Same, View, ControlBlock
<1>3. CheckRxCongestedStatus(s) \in {s, s1, SetFlag(s1, "PENDING_RR_RNR"), SetFlag(s, "PENDING_RR_RNR")}
  BY DEF CheckRxCongestedStatus
<1> HIDE DEF s1
<1> QED BY <1>1, <1>2, <1>3, FlagSame, SameTrans

(* The receive queue is not part of the view. *)
LEMMA FlushSame == ASSUME NEW s \in ControlBlock PROVE Same(s, FlushDataLinkRxData(s))
<1> DEFINE s1 == [s EXCEPT !.i_rx_q = <<>>, !.num_rx_i_pdu = 0, !.ind = FALSE]
           s2 == [s1 EXCEPT !.is_rx_congested = FALSE]
           s3 == SetFlag(s2, "PENDING_RR_RNR")
<1>1. FlushDataLinkRxData(s) \in {CheckRxCongestedStatus(s1), CheckRxCongestedStatus(s3)} BY DEF FlushDataLinkRxData
<1>2. s1 \in ControlBlock
  <2>1. ASSUME NEW z \in Seq(Buffer), NEW i \in Int PROVE [s EXCEPT !.i_rx_q = z, !.num_rx_i_pdu = i, !.ind = FALSE] \in ControlBlock
    BY DEF ControlBlock
  <2>2. <<>> \in Seq(Buffer) /\ 0 \in Int OBVIOUS
  <2> QED BY <2>1, <2>2, Zenon
<1>3. Same(s, s1) BY DEF Same, View, ControlBlock
<1> HIDE DEF s1
<1>4. s2 \in ControlBlock BY <1>2 DEF ControlBlock
<1>5. Same(s1, s2) BY <1>2 DEF Same, View, ControlBlock
<1> HIDE DEF s2
<1>6. s3 \in ControlBlock /\ Same(s2, s3) BY <1>4, FlagSame, SetFlagStays, StaysType DEF FLAG
<1> HIDE DEF s3
<1>7. Same(s, s3) BY <1>3, <1>5, <1>6, SameTrans
<1> QED BY <1>1, <1>2, <1>3, <1>6, <1>7, CheckRxSame, SameTrans

(* llcp_util_deallocate_data_link: nothing is left of the connection, the  *)
(* queue of signalling PDUs stays.                                         *)
LEMMA DeallocateIs ==
    ASSUME NEW s \in ControlBlock
    PROVE  /\ DeallocateDataLink(s).sig_xmit_q = s.sig_xmit_q /\ DeallocateDataLink(s).out = s.out
           /\ Stream(DeallocateDataLink(s)) = Stream(s)
           /\ View(DeallocateDataLink(s)) = IF s.state = "IDLE" THEN View(s) ELSE NewView
<1> DEFINE s1 == [s EXCEPT !.i_xmit_q = <<>>]
           s2 == FlushDataLinkRxData(s1)
           s3 == ResetDlcb(s2)
           k == IF s3.num_data_link_connection > 0 THEN s3.num_data_link_connection - 1 ELSE s3.num_data_link_connection
           t == [s3 EXCEPT !.num_data_link_connection = k]
<1>1. DeallocateDataLink(s) = IF s.state = "IDLE" THEN s ELSE t BY DEF DeallocateDataLink
<1>2. s1 \in ControlBlock /\ s1.sig_xmit_q = s.sig_xmit_q /\ s1.out = s.out
  <2>1. <<>> \in Seq(Nat) OBVIOUS
  <2> QED BY <2>1 DEF ControlBlock
<1> HIDE DEF s1
<1>3. s2 \in ControlBlock /\ s2.sig_xmit_q = s.sig_xmit_q /\ s2.out = s.out BY <1>2, FlushSame, FlushStays, StaysType DEF Same
<1> HIDE DEF s2
<1>4. View(s3) = NewView /\ s3.sig_xmit_q = s2.sig_xmit_q /\ s3.out = s2.out BY DEF View, NewView, ResetDlcb, NewBlock
<1>5. s3 \in ControlBlock BY <1>3, ResetStays, StaysType
<1> HIDE DEF s3, k
<1>6. View(t) = View(s3) /\ t.sig_xmit_q = s3.sig_xmit_q /\ t.out = s3.out BY <1>5 DEF View, ControlBlock
<1> HIDE DEF t
<1> QED BY <1>1, <1>3, <1>4, <1>6 DEF Stream, Wire

(* llcp_util_allocate_data_link: a control block without a connection. *)
LEMMA AllocateIs ==
    ASSUME NEW s \in ControlBlock
    PROVE  /\ AllocateDataLink(s).sig_xmit_q = s.sig_xmit_q /\ AllocateDataLink(s).out = s.out
           /\ Stream(AllocateDataLink(s)) = Stream(s) /\ View(AllocateDataLink(s)) = NewView
<1> DEFINE s3 == ResetDlcb(s)
           k == s3.num_data_link_connection + 1
           t == [s3 EXCEPT !.num_data_link_connection = k]
<1>1. AllocateDataLink(s) = t BY DEF AllocateDataLink
<1>4. View(s3) = NewView /\ s3.sig_xmit_q = s.sig_xmit_q /\ s3.out = s.out BY DEF View, NewView, ResetDlcb, NewBlock
<1>5. s3 \in ControlBlock BY ResetStays, StaysType
<1> HIDE DEF s3, k
<1>6. View(t) = View(s3) /\ t.sig_xmit_q = s3.sig_xmit_q /\ t.out = s3.out BY <1>5 DEF View, ControlBlock
<1> HIDE DEF t
<1> QED BY <1>1, <1>4, <1>6 DEF Stream, Wire

(* A signalling PDU is queued. *)
LEMMA EnqueueIs ==
    ASSUME NEW s \in ControlBlock, NEW p \in Pdu
    PROVE  /\ Enqueue(s, p) \in ControlBlock /\ View(Enqueue(s, p)) = View(s) /\ Enqueue(s, p).out = s.out
           /\ Enqueue(s, p).symm_state = s.symm_state
           /\ Stream(Enqueue(s, p)) = Append(Stream(s), p)
<1>1. Enqueue(s, p) \in ControlBlock /\ Enqueue(s, p).symm_state = s.symm_state BY EnqueueStays DEF Stays
<1>2. View(Enqueue(s, p)) = View(s) BY ViewExcept DEF Enqueue
<1>3. Enqueue(s, p).sig_xmit_q = Append(s.sig_xmit_q, p) /\ Enqueue(s, p).out = s.out BY DEF Enqueue, ControlBlock
<1>4. s.sig_xmit_q \in Seq(Pdu) /\ Wire(s) \in Seq(Pdu) BY ViewIs
<1>5. Wire(Enqueue(s, p)) = Wire(s) BY <1>3 DEF Wire
<1>6. Wire(s) \o Append(s.sig_xmit_q, p) = Append(Wire(s) \o s.sig_xmit_q, p) BY <1>4
<1> QED BY <1>1, <1>2, <1>3, <1>5, <1>6 DEF Stream

(* Without the turn a signalling PDU is queued, if there is a buffer. *)
LEMMA SendSigIs ==
    ASSUME NEW s \in ControlBlock, NEW p \in Pdu, NEW c \in Choice, s.symm_state # "LOCAL_XMIT_NEXT"
    PROVE  /\ SendSig(s, p, c) \in ControlBlock /\ View(SendSig(s, p, c)) = View(s)
           /\ Stream(SendSig(s, p, c)) \in {Stream(s), Append(Stream(s), p)}
           /\ Reliable => Stream(SendSig(s, p, c)) = Append(Stream(s), p)
<1> DEFINE s1 == Enqueue(s, p)  t == CheckSendData(s1, c)
<1>1. /\ s1 \in ControlBlock /\ View(s1) = View(s) /\ s1.symm_state # "LOCAL_XMIT_NEXT"
      /\ Stream(s1) = Append(Stream(s), p)
  BY EnqueueIs
<1>2. c.pdu \in PoolOutcomes /\ c.pdu \in BOOLEAN
  <2>1. c.pdu \in PoolOutcomes BY DEF Choice
  <2> QED BY <2>1, ChoiceType
<1>3. SendSig(s, p, c) = IF c.pdu THEN t ELSE s BY DEF SendSig
<1> HIDE DEF s1
<1>4. Same(s1, t) /\ t \in ControlBlock
  <2>0. Client \in Node BY DEF Node
  <2>1. Same(s1, t) BY <1>1, <2>0, CheckSendDataSends
  <2>2. t \in ControlBlock
    <3>1. Handled(s1, t) BY <1>1, CheckSendDataHandled
    <3> QED BY <3>1, HandledType
  <2> QED BY <2>1, <2>2
<1> HIDE DEF t
<1>5. View(t) = View(s) /\ Stream(t) = Append(Stream(s), p) BY <1>1, <1>4 DEF Same, Stream, Wire
<1>6. Reliable => c.pdu BY <1>2, NoBuffer
<1> QED BY <1>2, <1>3, <1>4, <1>5, <1>6

-----------------------------------------------------------------------------
(* The handlers of received PDUs.                                          *)

(* p is the next PDU that n reads. *)
Reading(n, e, v, q, o, qo, p) ==
    /\ e \in Nat /\ v \in Views /\ Local(v) /\ q \in Seq(Pdu) /\ o \in Views /\ Local(o) /\ qo \in Seq(Pdu)
    /\ qo # <<>> /\ Head(qo) = p
    /\ Reliable /\ Jointly(e, n, v, q, o, qo)
(* From s to t the device n reads p. *)
Reads(n, s, p, t) ==
    /\ Local(View(s)) => Local(View(t))
    /\ \A e, o, qo : Reading(n, e, View(s), Stream(s), o, qo, p) => Jointly(e, n, View(t), Stream(t), o, Tail(qo))

(* A PDU that a device in this state ignores. *)
Dropped(v, p) ==
    \/ p \in Dms
    \/ p \in Infos /\ v.state # "CONNECTED"
    \/ p \in Acks /\ ~Open(v)
    \/ p \in Discs /\ ~Open(v)
    \/ p \in Confirms /\ v.state # "W4_REMOTE_RESP"
    \/ p \in Connects /\ v.state # "IDLE"

(* It is ignored. *)
LEMMA DropsReads ==
    ASSUME NEW n \in Node, NEW s \in ControlBlock, NEW p, Dropped(View(s), p) PROVE Reads(n, s, p, s)
<1> DEFINE v == View(s)  q == Stream(s)
<1>1. ASSUME NEW e, NEW o, NEW qo, Reading(n, e, v, q, o, qo, p) PROVE Jointly(e, n, v, q, o, Tail(qo))
  <2>1. /\ e \in Nat /\ v \in Views /\ o \in Views /\ q \in Seq(Pdu) /\ qo \in Seq(Pdu) /\ qo # <<>> /\ Head(qo) = p
        /\ Jointly(e, n, v, q, o, qo)
    BY <1>1 DEF Reading
  <2> HIDE DEF v, q
  <2>2. Dropped(v, Head(qo)) BY <2>1 DEF v
  <2> QED BY <2>1, <2>2, NodeDrops DEF Dropped
<1> QED BY <1>1 DEF Reads

(* It is answered with a DM. *)
LEMMA DmReads ==
    ASSUME NEW n \in Node, NEW s \in ControlBlock, s.symm_state # "LOCAL_XMIT_NEXT", NEW p, Dropped(View(s), p),
           NEW m \in Dms, NEW c \in Choice
    PROVE  Reads(n, s, p, SendSig(s, m, c))
<1> DEFINE v == View(s)  q == Stream(s)  t == SendSig(s, m, c)
<1>1. m \in Pdu BY DmIs
<1>2. View(t) = v /\ (Reliable => Stream(t) = Append(q, m)) BY <1>1, SendSigIs
<1> HIDE DEF t
<1>3. ASSUME NEW e, NEW o, NEW qo, Reading(n, e, v, q, o, qo, p) PROVE Jointly(e, n, View(t), Stream(t), o, Tail(qo))
  <2>1. Jointly(e, n, v, q, o, Tail(qo)) BY <1>3, DropsReads DEF Reads
  <2>2. /\ e \in Nat /\ v \in Views /\ Local(v) /\ o \in Views /\ q \in Seq(Pdu) /\ Tail(qo) \in Seq(Pdu) /\ Reliable
    <3>1. qo \in Seq(Pdu) /\ qo # <<>> BY <1>3 DEF Reading
    <3> QED BY <1>3, <3>1, TailIs DEF Reading
  <2> HIDE DEF v, q
  <2>3. Talks(v, m, v) BY DEF Talks
  <2>4. Jointly(e, n, v, Append(q, m), o, Tail(qo)) BY <2>1, <2>2, <2>3, NodeTalks
  <2> QED BY <1>2, <2>2, <2>4
<1> QED BY <1>2, <1>3 DEF Reads, t

(* Views are equal field by field. *)
LEMMA ViewsEqual ==
    ASSUME NEW x \in Views, NEW y \in Views,
           x.state = y.state, x.ep = y.ep, x.local_rw = y.local_rw, x.remote_rw = y.remote_rw,
           x.next_tx_seq = y.next_tx_seq, x.rcvd_ack_seq = y.rcvd_ack_seq, x.next_rx_seq = y.next_rx_seq,
           x.sent_ack_seq = y.sent_ack_seq, x.i_xmit_q = y.i_xmit_q, x.nsent = y.nsent, x.nrcvd = y.nrcvd,
           x.ncomplete = y.ncomplete, x.last_nr = y.last_nr
    PROVE  x = y
BY DEF Views

(* A connection begins: the fields. *)
LEMMA BegunFields ==
    ASSUME NEW v \in Views, NEW state \in DLC_STATE, NEW rw \in SeqNum, NEW p \in Pdu
    PROVE  LET x == Begun(v, state, rw, p)
           IN  /\ x \in Views /\ x.state = state /\ x.ep = p.ep /\ x.local_rw = rw /\ x.remote_rw = p.rw
               /\ x.next_tx_seq = v.next_tx_seq /\ x.rcvd_ack_seq = v.rcvd_ack_seq /\ x.next_rx_seq = v.next_rx_seq
               /\ x.sent_ack_seq = v.sent_ack_seq /\ x.i_xmit_q = v.i_xmit_q /\ x.nsent = v.nsent /\ x.nrcvd = v.nrcvd
               /\ x.ncomplete = v.ncomplete /\ x.last_nr = v.last_nr
<1>1. p.rw \in SeqNum /\ p.ep \in Nat BY DEF Pdu
<1> QED BY <1>1 DEF Begun, Views

(* A DM of any reason but the confirmation of a DISC. *)
LEMMA NewDm ==
    ASSUME NEW k \in Nat
    PROVE  /\ \A r \in REASON \ {"RESP_DISC"} : [NewPdu("DM", k) EXCEPT !.reason = r] \in Dms
           /\ [NewPdu("DM", k) EXCEPT !.reason = "RESP_DISC"] \in Resps
<1>1. NewPdu("DM", k) \in Pdu /\ NewPdu("DM", k).ptype = "DM" BY NewPduType DEF PTYPE, NewPdu
<1>2. \A r \in REASON : LET z == [NewPdu("DM", k) EXCEPT !.reason = r] IN z \in Pdu /\ z.ptype = "DM" /\ z.reason = r
  BY <1>1 DEF Pdu
<1>3. "RESP_DISC" \in REASON BY DEF REASON
<1> QED BY <1>2, <1>3 DEF Dms, Resps

(* llcp_dlc_proc_connect_pdu. *)
LEMMA ProcConnectReads ==
    ASSUME NEW n \in Node, NEW s \in ControlBlock, s.symm_state # "LOCAL_XMIT_NEXT", NEW p \in Connects,
           NEW c \in Choice, RW[Server] \in SeqNum
    PROVE  Reads(n, s, p, ProcConnect(s, p, c))
<1> DEFINE v == View(s)  q == Stream(s)
<1>1. p \in Pdu /\ v.state = s.state BY ViewIs, ConnectIs
<1>2. CASE s.state # "IDLE"
  <2> DEFINE m == [NewPdu("DM", p.ep) EXCEPT !.reason = "REJECT"]
  <2>1. ProcConnect(s, p, c) = SendSig(s, m, c) BY <1>2 DEF ProcConnect, SendDm
  <2>2. m \in Dms BY <1>1, PduNumbers, NewDm DEF REASON
  <2> HIDE DEF m
  <2>3. Dropped(View(s), p) BY <1>1, <1>2 DEF Dropped
  <2> QED BY <2>1, <2>2, <2>3, DmReads
<1>3. CASE s.state = "IDLE"
  <2> DEFINE a == AllocateDataLink(s)
             t == [a EXCEPT !.state = "W4_LOCAL_RESP", !.remote_rw = p.rw, !.ep = p.ep]
  <2>1. ProcConnect(s, p, c) = t BY <1>3 DEF ProcConnect
  <2>2. View(a) = NewView /\ Stream(a) = q /\ a \in ControlBlock BY AllocateIs, AllocateStays, StaysType
  <2> HIDE DEF a
  <2>3. View(t) = Begun(NewView, "W4_LOCAL_RESP", 0, p) /\ Stream(t) = Stream(a)
    <3>1. /\ t.state = "W4_LOCAL_RESP" /\ t.ep = p.ep /\ t.local_rw = a.local_rw /\ t.remote_rw = p.rw
          /\ t.next_tx_seq = a.next_tx_seq /\ t.rcvd_ack_seq = a.rcvd_ack_seq /\ t.next_rx_seq = a.next_rx_seq
          /\ t.sent_ack_seq = a.sent_ack_seq /\ t.i_xmit_q = a.i_xmit_q /\ t.nsent = a.nsent /\ t.nrcvd = a.nrcvd
          /\ t.ncomplete = a.ncomplete /\ t.last_nr = a.last_nr /\ t.sig_xmit_q = a.sig_xmit_q /\ t.out = a.out
      BY <2>2 DEF ControlBlock
    <3> HIDE DEF t
    <3>2. Stream(t) = Stream(a) BY <3>1 DEF Stream, Wire
    <3>3. a.local_rw = 0
      <4>1. View(a).local_rw = a.local_rw /\ NewView.local_rw = 0 BY DEF View, NewView, NewBlock
      <4> QED BY <2>2, <4>1
    <3>4. View(t) = Begun(View(a), "W4_LOCAL_RESP", 0, p)
      <4> DEFINE y == Begun(View(a), "W4_LOCAL_RESP", 0, p)  x == View(t)
      <4>1. "W4_LOCAL_RESP" \in DLC_STATE /\ 0 \in SeqNum /\ View(a) \in Views BY <2>2, SeqNumFacts, ViewIs DEF DLC_STATE
      <4>2. /\ y \in Views /\ y.state = "W4_LOCAL_RESP" /\ y.ep = p.ep /\ y.local_rw = 0 /\ y.remote_rw = p.rw
            /\ y.next_tx_seq = a.next_tx_seq /\ y.rcvd_ack_seq = a.rcvd_ack_seq /\ y.next_rx_seq = a.next_rx_seq
            /\ y.sent_ack_seq = a.sent_ack_seq /\ y.i_xmit_q = a.i_xmit_q /\ y.nsent = a.nsent /\ y.nrcvd = a.nrcvd
            /\ y.ncomplete = a.ncomplete /\ y.last_nr = a.last_nr
        <5>1. /\ y \in Views /\ y.state = "W4_LOCAL_RESP" /\ y.ep = p.ep /\ y.local_rw = 0 /\ y.remote_rw = p.rw
              /\ y.next_tx_seq = View(a).next_tx_seq /\ y.rcvd_ack_seq = View(a).rcvd_ack_seq
              /\ y.next_rx_seq = View(a).next_rx_seq /\ y.sent_ack_seq = View(a).sent_ack_seq
              /\ y.i_xmit_q = View(a).i_xmit_q /\ y.nsent = View(a).nsent /\ y.nrcvd = View(a).nrcvd
              /\ y.ncomplete = View(a).ncomplete /\ y.last_nr = View(a).last_nr
          BY <1>1, <4>1, BegunFields
        <5>2. a \in ControlBlock BY <2>2
        <5> HIDE DEF y
        <5> QED BY <5>1, <5>2, ViewIs
      <4> HIDE DEF y
      <4>3. /\ x.state = "W4_LOCAL_RESP" /\ x.ep = p.ep /\ x.local_rw = 0 /\ x.remote_rw = p.rw
            /\ x.next_tx_seq = a.next_tx_seq /\ x.rcvd_ack_seq = a.rcvd_ack_seq /\ x.next_rx_seq = a.next_rx_seq
            /\ x.sent_ack_seq = a.sent_ack_seq /\ x.i_xmit_q = a.i_xmit_q /\ x.nsent = a.nsent /\ x.nrcvd = a.nrcvd
            /\ x.ncomplete = a.ncomplete /\ x.last_nr = a.last_nr
        BY <3>1, <3>3 DEF View
      <4>4. x \in Views
        <5>1. ProcConnect(s, p, c) \in ControlBlock
          <6>1. s.symm_state = "REMOTE_XMIT_NEXT" BY DEF ControlBlock, SYMM_STATE
          <6> QED BY <1>1, <6>1, ProcConnectStays, StaysType
        <5> QED BY <2>1, <5>1, ViewIs
      <4> HIDE DEF x
      <4>5. x = y BY <4>2, <4>3, <4>4, ViewsEqual
      <4> QED BY <4>5 DEF x, y
    <3> QED BY <2>2, <3>2, <3>4
  <2> HIDE DEF t
  <2>4. Local(View(t))
    <3>1. "W4_LOCAL_RESP" \in DLC_STATE /\ 0 \in SeqNum BY SeqNumFacts DEF DLC_STATE
    <3> QED BY <1>1, <2>3, <3>1, BegunIs, NewViewIs
  <2>5. ASSUME NEW e, NEW o, NEW qo, Reading(n, e, v, q, o, qo, p) PROVE Jointly(e, n, View(t), Stream(t), o, Tail(qo))
    <3>1. /\ e \in Nat /\ v \in Views /\ Local(v) /\ o \in Views /\ q \in Seq(Pdu) /\ qo \in Seq(Pdu) /\ qo # <<>> /\ Head(qo) = p
          /\ Jointly(e, n, v, q, o, qo)
      BY <2>5 DEF Reading
    <3>2. v.state = "IDLE" /\ Head(qo) \in Connects BY <1>1, <1>3, <3>1
    <3> HIDE DEF v, q
    <3>3. Jointly(e, n, Begun(NewView, "W4_LOCAL_RESP", 0, Head(qo)), q, o, Tail(qo)) BY <3>1, <3>2, NodeBegins
    <3> QED BY <2>2, <2>3, <3>1, <3>3
  <2> QED BY <2>1, <2>4, <2>5 DEF Reads
<1> QED BY <1>2, <1>3

(* llcp_dlc_proc_cc_pdu. *)
LEMMA ProcCcReads ==
    ASSUME NEW n \in Node, NEW s \in ControlBlock, NEW p \in Confirms, RW[Server] \in SeqNum
    PROVE  Reads(n, s, p, ProcCc(s, p))
<1> DEFINE v == View(s)  q == Stream(s)
<1>1. p \in Pdu /\ v.state = s.state /\ v \in Views BY ViewIs, ConfirmIs
<1>2. CASE s.state # "W4_REMOTE_RESP"
  <2>1. Dropped(View(s), p) BY <1>1, <1>2 DEF Dropped
  <2> QED BY <1>2, <2>1, DropsReads DEF ProcCc
<1>3. CASE s.state = "W4_REMOTE_RESP"
  <2> DEFINE a == [s EXCEPT !.state = "CONNECTED", !.remote_rw = p.rw, !.ep = p.ep]
             t == ProcCc(s, p)
  <2>1. t \in {a, SetFlag(a, "PENDING_RR_RNR")} BY <1>3 DEF ProcCc
  <2>2. a \in ControlBlock
    <3>1. \A rw \in SeqNum, k \in Nat : [s EXCEPT !.state = "CONNECTED", !.remote_rw = rw, !.ep = k] \in ControlBlock
      BY DEF ControlBlock, DLC_STATE
    <3>2. p.rw \in SeqNum /\ p.ep \in Nat BY <1>1 DEF Pdu
    <3> QED BY <3>1, <3>2
  <2>3. View(a) = Begun(v, "CONNECTED", v.local_rw, p) /\ Stream(a) = q
    <3>1. /\ a.state = "CONNECTED" /\ a.ep = p.ep /\ a.local_rw = s.local_rw /\ a.remote_rw = p.rw
          /\ a.next_tx_seq = s.next_tx_seq /\ a.rcvd_ack_seq = s.rcvd_ack_seq /\ a.next_rx_seq = s.next_rx_seq
          /\ a.sent_ack_seq = s.sent_ack_seq /\ a.i_xmit_q = s.i_xmit_q /\ a.nsent = s.nsent /\ a.nrcvd = s.nrcvd
          /\ a.ncomplete = s.ncomplete /\ a.last_nr = s.last_nr /\ a.sig_xmit_q = s.sig_xmit_q /\ a.out = s.out
      BY DEF ControlBlock
    <3> HIDE DEF a
    <3>2. Stream(a) = q BY <3>1 DEF Stream, Wire
    <3>3. v.local_rw = s.local_rw BY ViewIs
    <3>4. View(a) = Begun(v, "CONNECTED", s.local_rw, p)
      <4> DEFINE y == Begun(v, "CONNECTED", s.local_rw, p)  x == View(a)
      <4>1. "CONNECTED" \in DLC_STATE /\ s.local_rw \in SeqNum BY <1>1, <3>3, ViewNumbers DEF DLC_STATE
      <4>2. /\ y \in Views /\ y.state = "CONNECTED" /\ y.ep = p.ep /\ y.local_rw = s.local_rw /\ y.remote_rw = p.rw
            /\ y.next_tx_seq = s.next_tx_seq /\ y.rcvd_ack_seq = s.rcvd_ack_seq /\ y.next_rx_seq = s.next_rx_seq
            /\ y.sent_ack_seq = s.sent_ack_seq /\ y.i_xmit_q = s.i_xmit_q /\ y.nsent = s.nsent /\ y.nrcvd = s.nrcvd
            /\ y.ncomplete = s.ncomplete /\ y.last_nr = s.last_nr
        BY <1>1, <4>1, BegunFields, ViewIs
      <4> HIDE DEF y
      <4>3. /\ x.state = "CONNECTED" /\ x.ep = p.ep /\ x.local_rw = s.local_rw /\ x.remote_rw = p.rw
            /\ x.next_tx_seq = s.next_tx_seq /\ x.rcvd_ack_seq = s.rcvd_ack_seq /\ x.next_rx_seq = s.next_rx_seq
            /\ x.sent_ack_seq = s.sent_ack_seq /\ x.i_xmit_q = s.i_xmit_q /\ x.nsent = s.nsent /\ x.nrcvd = s.nrcvd
            /\ x.ncomplete = s.ncomplete /\ x.last_nr = s.last_nr
        BY <3>1 DEF View
      <4>4. x \in Views BY <2>2, ViewIs DEF a
      <4> HIDE DEF x
      <4>5. x = y BY <4>2, <4>3, <4>4, ViewsEqual
      <4> QED BY <4>5 DEF x, y
    <3> QED BY <3>2, <3>3, <3>4
  <2> HIDE DEF a, t
  <2>4. Same(a, t) BY <2>1, <2>2, FlagSame, SameTrans
  <2>5. View(t) = Begun(v, "CONNECTED", v.local_rw, p) /\ Stream(t) = q BY <2>3, <2>4 DEF Same, Stream, Wire
  <2>6. ASSUME Local(v) PROVE Local(View(t))
    <3>1. "CONNECTED" \in DLC_STATE /\ v.local_rw \in SeqNum BY <1>1, ViewNumbers DEF DLC_STATE
    <3>2. Blank(v) BY <1>1, <1>3, <2>6 DEF Local, Open
    <3> HIDE DEF v
    <3> QED BY <1>1, <2>5, <3>1, <3>2, BegunIs
  <2>7. ASSUME NEW e, NEW o, NEW qo, Reading(n, e, v, q, o, qo, p) PROVE Jointly(e, n, View(t), Stream(t), o, Tail(qo))
    <3>1. /\ e \in Nat /\ v \in Views /\ Local(v) /\ o \in Views /\ q \in Seq(Pdu) /\ qo \in Seq(Pdu) /\ qo # <<>> /\ Head(qo) = p
          /\ Jointly(e, n, v, q, o, qo)
      BY <2>7 DEF Reading
    <3>2. v.state = "W4_REMOTE_RESP" /\ Head(qo) \in Confirms BY <1>1, <1>3, <3>1
    <3> HIDE DEF v, q
    <3>3. Jointly(e, n, Begun(v, "CONNECTED", v.local_rw, Head(qo)), q, o, Tail(qo)) BY <3>1, <3>2, NodeBegins
    <3> QED BY <2>5, <3>1, <3>3
  <2> QED BY <2>6, <2>7 DEF Reads, t
<1> QED BY <1>2, <1>3

(* The facts of Reading. *)
LEMMA ReadingIs ==
    ASSUME NEW n, NEW e, NEW v, NEW q, NEW o, NEW qo, NEW p, Reading(n, e, v, q, o, qo, p)
    PROVE  /\ e \in Nat /\ v \in Views /\ Local(v) /\ q \in Seq(Pdu) /\ o \in Views /\ Local(o) /\ qo \in Seq(Pdu)
           /\ qo # <<>> /\ Head(qo) = p /\ Reliable /\ Jointly(e, n, v, q, o, qo) /\ Tail(qo) \in Seq(Pdu)
BY TailIs DEF Reading

(* llcp_util_send_dm. *)
LEMMA SendDmIs ==
    ASSUME NEW s \in ControlBlock, NEW r \in REASON, NEW k \in Nat, NEW c \in Choice, s.symm_state # "LOCAL_XMIT_NEXT"
    PROVE  LET m == [NewPdu("DM", k) EXCEPT !.reason = r]
           IN  /\ SendDm(s, r, k, c) \in ControlBlock /\ View(SendDm(s, r, k, c)) = View(s)
               /\ Reliable => Stream(SendDm(s, r, k, c)) = Append(Stream(s), m)
<1>1. [NewPdu("DM", k) EXCEPT !.reason = r] \in Pdu
  <2>1. NewPdu("DM", k) \in Pdu BY NewPduType DEF PTYPE
  <2> QED BY <2>1 DEF Pdu
<1> QED BY <1>1, SendSigIs DEF SendDm

(* A PDU that cannot come in this state, whatever the device makes of it.  *)
LEMMA NeverReads ==
    ASSUME NEW n, NEW s, NEW p, NEW t, Local(View(t)),
           \A e, o, qo : ~Reading(n, e, View(s), Stream(s), o, qo, p)
    PROVE  Reads(n, s, p, t)
BY DEF Reads

(* llcp_dlc_proc_disc_pdu: the end of the connection is confirmed. *)
LEMMA ProcDiscReads ==
    ASSUME NEW n \in Node, NEW s \in ControlBlock, s.symm_state # "LOCAL_XMIT_NEXT", NEW p \in Discs, NEW c \in Choice
    PROVE  Reads(n, s, p, ProcDisc(s, c))
<1> DEFINE v == View(s)  q == Stream(s)
           m == [NewPdu("DM", s.ep) EXCEPT !.reason = "RESP_DISC"]
           a == SendDm(s, "RESP_DISC", s.ep, c)
<1>1. v.state = s.state /\ v \in Views /\ s.ep \in Nat BY ViewIs DEF ControlBlock
<1>2. m \in Resps BY <1>1, NewDm
<1>3. a \in ControlBlock /\ View(a) = v /\ (Reliable => Stream(a) = Append(q, m)) BY <1>1, SendDmIs DEF REASON
<1> HIDE DEF m
<1>4. CASE s.state \notin {"CONNECTED", "W4_REMOTE_DM"}
  <2>1. Dropped(View(s), p) /\ ProcDisc(s, c) = s BY <1>1, <1>4 DEF Dropped, Open, ProcDisc
  <2> QED BY <2>1, DropsReads
<1>5. CASE s.state = "W4_REMOTE_DM"
  <2>1. ProcDisc(s, c) = a BY <1>5 DEF ProcDisc
  <2> HIDE DEF a
  <2>2. ASSUME NEW e, NEW o, NEW qo, Reading(n, e, v, q, o, qo, p) PROVE Jointly(e, n, View(a), Stream(a), o, Tail(qo))
    <3>1. v.state = "W4_REMOTE_DM" BY <1>1, <1>5
    <3> HIDE DEF v, q
    <3>2. Jointly(e, n, v, Append(q, m), o, Tail(qo)) BY <1>2, <2>2, <3>1, ReadingIs, NodeConfirms
    <3> QED BY <1>3, <2>2, <3>2, ReadingIs
  <2> QED BY <1>3, <2>1, <2>2 DEF Reads
<1>6. CASE s.state = "CONNECTED"
  <2> DEFINE t == DeallocateDataLink(a)
  <2>1. ProcDisc(s, c) = t BY <1>6 DEF ProcDisc
  <2> HIDE DEF a
  <2>2. View(t) = NewView /\ Stream(t) = Stream(a)
    <3>1. a.state = "CONNECTED" BY <1>1, <1>3, <1>6, ViewIs
    <3> QED BY <1>3, <3>1, DeallocateIs
  <2> HIDE DEF t
  <2>3. ASSUME NEW e, NEW o, NEW qo, Reading(n, e, v, q, o, qo, p) PROVE Jointly(e, n, View(t), Stream(t), o, Tail(qo))
    <3>1. v.state = "CONNECTED" BY <1>1, <1>6
    <3> HIDE DEF v, q
    <3>2. Jointly(e, n, NewView, Append(q, m), o, Tail(qo)) BY <1>2, <2>3, <3>1, ReadingIs, NodeConfirms
    <3>3. Stream(t) = Append(q, m) BY <1>3, <2>2, <2>3, ReadingIs
    <3> QED BY <2>2, <3>2, <3>3
  <2> QED BY <2>1, <2>2, <2>3, NewViewIs DEF Reads
<1> QED BY <1>4, <1>5, <1>6

(* llcp_dlc_proc_dm_pdu. *)
LEMMA ProcDmReads ==
    ASSUME NEW n \in Node, NEW s \in ControlBlock, NEW p \in Dms \cup Resps
    PROVE  Reads(n, s, p, ProcDm(s, p))
<1> DEFINE v == View(s)  q == Stream(s)
<1>1. v.state = s.state /\ v \in Views BY ViewIs
<1>2. p \in Dms <=> p.reason # "RESP_DISC" BY DEF Dms, Resps
<1>3. CASE ~(s.state = "W4_REMOTE_RESP" \/ (s.state = "W4_REMOTE_DM" /\ p.reason = "RESP_DISC"))
  <2>1. ProcDm(s, p) = s BY <1>3 DEF ProcDm
  <2>2. CASE p \in Dms
    <3>1. Dropped(View(s), p) BY <2>2 DEF Dropped
    <3> QED BY <2>1, <3>1, DropsReads
  <2>3. CASE p \in Resps /\ s.state # "W4_REMOTE_DM"
    <3>1. ASSUME NEW e, NEW o, NEW qo, Reading(n, e, v, q, o, qo, p) PROVE FALSE
      <4> HIDE DEF v, q
      <4> QED BY <1>1, <2>3, <3>1, ReadingIs, NodeHead
    <3> QED BY <2>1, <3>1 DEF Reads
  <2> QED BY <1>2, <1>3, <2>2, <2>3
<1>4. CASE s.state = "W4_REMOTE_RESP" \/ (s.state = "W4_REMOTE_DM" /\ p.reason = "RESP_DISC")
  <2> DEFINE t == DeallocateDataLink(s)
  <2>1. ProcDm(s, p) = t BY <1>4 DEF ProcDm
  <2>2. View(t) = NewView /\ Stream(t) = q BY <1>4, DeallocateIs
  <2> HIDE DEF t
  <2>3. ASSUME NEW e, NEW o, NEW qo, Reading(n, e, v, q, o, qo, p) PROVE Jointly(e, n, NewView, q, o, Tail(qo))
    <3>1. v.state = "W4_REMOTE_RESP" \/ (v.state = "W4_REMOTE_DM" /\ p \in Resps) BY <1>1, <1>2, <1>4
    <3> HIDE DEF v, q
    <3>2. CASE v.state = "W4_REMOTE_DM" /\ p \in Resps BY <2>3, <3>2, ReadingIs, NodeLeaves
    <3>3. CASE v.state = "W4_REMOTE_RESP"
      <4>1. p \in Dms BY <2>3, <3>3, ReadingIs, NodeHead
      <4> QED BY <2>3, <3>3, <4>1, ReadingIs, NodeGivesUp
    <3> QED BY <3>1, <3>2, <3>3
  <2> QED BY <2>1, <2>2, <2>3, NewViewIs DEF Reads
<1> QED BY <1>3, <1>4

(* A PDU of none of these kinds, and the answer to a frame error.  *)
LEMMA ErrorReads ==
    ASSUME NEW n, NEW s \in ControlBlock, s.symm_state # "LOCAL_XMIT_NEXT", s.state # "IDLE", NEW c \in Choice, NEW p,
           \A e, o, qo : ~Reading(n, e, View(s), Stream(s), o, qo, p)
    PROVE  Reads(n, s, p, FrameError(s, c))
<1> DEFINE a == SendSig(s, NewPdu("FRMR", s.ep), c)
<1>1. NewPdu("FRMR", s.ep) \in Pdu
  <2>1. s.ep \in Nat BY DEF ControlBlock
  <2> QED BY <2>1, NewPduType DEF PTYPE
<1>2. a \in ControlBlock /\ View(a) = View(s) BY <1>1, SendSigIs
<1>3. FrameError(s, c) = DeallocateDataLink(a) BY DEF FrameError
<1> HIDE DEF a
<1>4. a.state # "IDLE" BY <1>2, ViewIs
<1>5. View(FrameError(s, c)) = NewView BY <1>2, <1>3, <1>4, DeallocateIs
<1> QED BY <1>5, NewViewIs, NeverReads

(* What an accepted I PDU leaves: the fields. *)
LEMMA TakenFields ==
    ASSUME NEW x \in Views, NEW p \in Pdu
    PROVE  LET y == Taken(x, p)
           IN  /\ y \in Views
               /\ y.state = x.state /\ y.ep = x.ep /\ y.local_rw = x.local_rw /\ y.remote_rw = x.remote_rw
               /\ y.next_tx_seq = x.next_tx_seq /\ y.rcvd_ack_seq = p.nr /\ y.next_rx_seq = Inc(x.next_rx_seq)
               /\ y.sent_ack_seq = x.sent_ack_seq /\ y.i_xmit_q = x.i_xmit_q /\ y.nsent = x.nsent
               /\ y.nrcvd = x.nrcvd + 1 /\ y.ncomplete = x.ncomplete /\ y.last_nr = x.last_nr
<1> DEFINE y == [x EXCEPT !.next_rx_seq = Inc(x.next_rx_seq), !.rcvd_ack_seq = p.nr, !.nrcvd = x.nrcvd + 1]
<1>1. \A r, t \in SeqNum, k \in Nat : [x EXCEPT !.next_rx_seq = t, !.rcvd_ack_seq = r, !.nrcvd = k] \in Views BY DEF Views
<1>2. p.nr \in SeqNum /\ x.nrcvd + 1 \in Nat /\ Inc(x.next_rx_seq) \in SeqNum BY PduNumbers, ViewNumbers, IncType
<1>3. y \in Views BY <1>1, <1>2
<1>4. /\ y.state = x.state /\ y.ep = x.ep /\ y.local_rw = x.local_rw /\ y.remote_rw = x.remote_rw
      /\ y.next_tx_seq = x.next_tx_seq /\ y.rcvd_ack_seq = p.nr /\ y.next_rx_seq = Inc(x.next_rx_seq)
      /\ y.sent_ack_seq = x.sent_ack_seq /\ y.i_xmit_q = x.i_xmit_q /\ y.nsent = x.nsent
      /\ y.nrcvd = x.nrcvd + 1 /\ y.ncomplete = x.ncomplete /\ y.last_nr = x.last_nr
  BY DEF Views
<1>5. Taken(x, p) = y BY DEF Taken
<1> QED BY <1>3, <1>4, <1>5

(* The receive queue is not part of the view. *)
LEMMA StoreSame ==
    ASSUME NEW s \in ControlBlock, NEW p \in Pdu, NEW agf, NEW c PROVE Same(s, StoreSdu(s, p, agf, c))
<1> DEFINE q == s.i_rx_q
           q1 == [q EXCEPT ![Len(q)] = Append(q[Len(q)], p.sdu)]
           q2 == Append(q, <<p.sdu>>)
           t1 == [s EXCEPT !.i_rx_q = q1]
           t2 == [s EXCEPT !.i_rx_q = q2]
<1>1. StoreSdu(s, p, agf, c) \in {s, t1, CheckRxCongestedStatus(t2)} BY DEF StoreSdu
<1>2. ASSUME NEW z PROVE Same(s, [s EXCEPT !.i_rx_q = z]) BY DEF Same, View, ControlBlock
<1>3. t2 \in ControlBlock
  <2>1. q \in Seq(Buffer) /\ <<p.sdu>> \in Buffer BY DEF ControlBlock, Pdu, Buffer
  <2> HIDE DEF q
  <2>2. q2 \in Seq(Buffer) BY <2>1
  <2> HIDE DEF q2
  <2> QED BY <2>2 DEF ControlBlock
<1>4. Same(s, t1) /\ Same(s, t2)
  <2> HIDE DEF q1, q2
  <2> QED BY <1>2
<1> HIDE DEF t1, t2
<1> QED BY <1>1, <1>3, <1>4, CheckRxSame, SameTrans

(* llcp_dlc_proc_i_pdu, of an I PDU that is accepted. *)
LEMMA AcceptIPduIs ==
    ASSUME NEW s \in ControlBlock, NEW p \in Pdu, NEW agf, NEW c
    PROVE  /\ View(AcceptIPdu(s, p, agf, c)) = Taken(View(s), p)
           /\ Stream(AcceptIPdu(s, p, agf, c)) = Stream(s)
<1> DEFINE s1 == [s EXCEPT !.next_rx_seq = Inc(@), !.rcvd_ack_seq = p.nr, !.nrcvd = @ + 1]
           s2 == StoreSdu(s1, p, agf, c)
           s3 == [s2 EXCEPT !.num_rx_i_pdu = @ + 1,
                            !.ind = @ \/ (~s.local_busy /\ s.num_rx_i_pdu = 0)]
           s4 == [s3 EXCEPT !.is_rx_congested = TRUE]
           t == AcceptIPdu(s, p, agf, c)
<1>1. t \in {s3, SetFlag(s4, "PENDING_RR_RNR")} BY DEF AcceptIPdu
<1>2. s1 \in ControlBlock
  <2>1. \A r, i \in SeqNum, k \in Nat : [s EXCEPT !.next_rx_seq = i, !.rcvd_ack_seq = r, !.nrcvd = k] \in ControlBlock
    BY DEF ControlBlock
  <2>2. p.nr \in SeqNum /\ s.nrcvd + 1 \in Nat /\ Inc(s.next_rx_seq) \in SeqNum BY PduNumbers, IncType DEF ControlBlock
  <2> QED BY <2>1, <2>2
<1>3. View(s1) = Taken(View(s), p) /\ Stream(s1) = Stream(s)
  <2> DEFINE x == View(s)
  <2>1. /\ s1.state = s.state /\ s1.ep = s.ep /\ s1.local_rw = s.local_rw /\ s1.remote_rw = s.remote_rw
        /\ s1.next_tx_seq = s.next_tx_seq /\ s1.rcvd_ack_seq = p.nr /\ s1.next_rx_seq = Inc(s.next_rx_seq)
        /\ s1.sent_ack_seq = s.sent_ack_seq /\ s1.i_xmit_q = s.i_xmit_q /\ s1.nsent = s.nsent
        /\ s1.nrcvd = s.nrcvd + 1 /\ s1.ncomplete = s.ncomplete /\ s1.last_nr = s.last_nr
        /\ s1.out = s.out /\ s1.sig_xmit_q = s.sig_xmit_q
    BY DEF ControlBlock
  <2> HIDE DEF s1
  <2>2. Stream(s1) = Stream(s) BY <2>1 DEF Stream, Wire
  <2>3. View(s1) \in Views /\ View(s) \in Views BY <1>2, ViewIs
  <2>4. LET y == Taken(View(s), p)
        IN  /\ y \in Views
            /\ y.state = s.state /\ y.ep = s.ep /\ y.local_rw = s.local_rw /\ y.remote_rw = s.remote_rw
            /\ y.next_tx_seq = s.next_tx_seq /\ y.rcvd_ack_seq = p.nr /\ y.next_rx_seq = Inc(s.next_rx_seq)
            /\ y.sent_ack_seq = s.sent_ack_seq /\ y.i_xmit_q = s.i_xmit_q /\ y.nsent = s.nsent
            /\ y.nrcvd = s.nrcvd + 1 /\ y.ncomplete = s.ncomplete /\ y.last_nr = s.last_nr
    <3>1. LET y == Taken(x, p)
          IN  /\ y \in Views
              /\ y.state = x.state /\ y.ep = x.ep /\ y.local_rw = x.local_rw /\ y.remote_rw = x.remote_rw
              /\ y.next_tx_seq = x.next_tx_seq /\ y.rcvd_ack_seq = p.nr /\ y.next_rx_seq = Inc(x.next_rx_seq)
              /\ y.sent_ack_seq = x.sent_ack_seq /\ y.i_xmit_q = x.i_xmit_q /\ y.nsent = x.nsent
              /\ y.nrcvd = x.nrcvd + 1 /\ y.ncomplete = x.ncomplete /\ y.last_nr = x.last_nr
      BY <2>3, TakenFields
    <3> QED BY <3>1, ViewIs
  <2>5. View(s1).state = s1.state /\ View(s1).ep = s1.ep /\ View(s1).local_rw = s1.local_rw
        /\ View(s1).remote_rw = s1.remote_rw
        /\ View(s1).next_tx_seq = s1.next_tx_seq /\ View(s1).rcvd_ack_seq = s1.rcvd_ack_seq
        /\ View(s1).next_rx_seq = s1.next_rx_seq /\ View(s1).sent_ack_seq = s1.sent_ack_seq
        /\ View(s1).i_xmit_q = s1.i_xmit_q /\ View(s1).nsent = s1.nsent /\ View(s1).nrcvd = s1.nrcvd
        /\ View(s1).ncomplete = s1.ncomplete /\ View(s1).last_nr = s1.last_nr
    BY DEF View
  <2>6. View(s1) = Taken(View(s), p) BY <2>1, <2>3, <2>4, <2>5, ViewsEqual
  <2> QED BY <2>2, <2>6
<1> HIDE DEF s1
<1>4. Same(s1, s2) /\ s2 \in ControlBlock BY <1>2, StoreSame, StoreSduStays, StaysType
<1> HIDE DEF s2
<1>5. ASSUME NEW i, NEW b PROVE Same(s2, [s2 EXCEPT !.num_rx_i_pdu = i, !.ind = b])
  BY <1>4 DEF Same, View, ControlBlock
<1>6. Same(s2, s3) /\ s3 \in ControlBlock
  <2>1. s2.num_rx_i_pdu \in Int /\ s2.ind \in BOOLEAN BY <1>4 DEF ControlBlock
  <2>2. ASSUME NEW i \in Int, NEW b \in BOOLEAN PROVE [s2 EXCEPT !.num_rx_i_pdu = i, !.ind = b] \in ControlBlock
    BY <1>4 DEF ControlBlock
  <2>3. s2.num_rx_i_pdu + 1 \in Int BY <2>1
  <2>4. (s2.ind \/ (~s.local_busy /\ s.num_rx_i_pdu = 0)) \in BOOLEAN OBVIOUS
  <2> QED BY <1>5, <2>2, <2>3, <2>4
<1> HIDE DEF s3
<1>7. Same(s3, s4) /\ s4 \in ControlBlock BY <1>6 DEF Same, View, ControlBlock
<1> HIDE DEF s4
<1>8. Same(s1, t) BY <1>1, <1>4, <1>6, <1>7, FlagSame, SameTrans
<1> HIDE DEF t
<1>9. View(t) = View(s1) /\ Stream(t) = Stream(s1) BY <1>8 DEF Same, Stream, Wire
<1> QED BY <1>3, <1>9 DEF t

(* llcp_dlc_proc_i_pdu. *)
LEMMA ProcIReads ==
    ASSUME NEW n \in Node, NEW s \in ControlBlock, s.symm_state # "LOCAL_XMIT_NEXT", NEW p \in Infos, NEW agf,
           NEW c \in Choice
    PROVE  Reads(n, s, p, ProcI(s, p, agf, c))
<1> DEFINE v == View(s)  q == Stream(s)
<1>1. v.state = s.state /\ v \in Views /\ p \in Pdu BY ViewIs, InfoIs
<1>2. CASE ~Connected(s)
  <2> DEFINE m == [NewPdu("DM", p.ep) EXCEPT !.reason = "NO_ACTIVE_CONNECTION"]
  <2>1. ProcI(s, p, agf, c) = SendSig(s, m, c) BY <1>2 DEF ProcI, SendDm
  <2>2. m \in Dms BY <1>1, PduNumbers, NewDm DEF REASON
  <2> HIDE DEF m
  <2>3. Dropped(View(s), p) BY <1>1, <1>2 DEF Dropped, Connected
  <2> QED BY <2>1, <2>2, <2>3, DmReads
<1>3. CASE Connected(s)
  <2> DEFINE fits == p.ns = s.next_rx_seq /\ Dist(p.ns, s.sent_ack_seq) < s.local_rw /\ NrInRange(s, p.nr)
             t == AcceptIPdu(s, p, agf, c)
  <2>1. ProcI(s, p, agf, c) = IF fits THEN t ELSE FrameError(s, c) BY <1>3 DEF ProcI
  <2>2. fits <=> p.ns = v.next_rx_seq /\ Dist(p.ns, v.sent_ack_seq) < v.local_rw /\ NrInRange(v, p.nr) BY ViewIs
  <2> HIDE DEF fits
  <2>3. ASSUME NEW e, NEW o, NEW qo, Reading(n, e, v, q, o, qo, p)
        PROVE  fits /\ Jointly(e, n, Taken(v, p), q, o, Tail(qo))
    <3>1. v.state = "CONNECTED" BY <1>1, <1>3 DEF Connected
    <3> HIDE DEF v, q
    <3>2. /\ Takes(v, p, Taken(v, p)) /\ Jointly(e, n, Taken(v, p), q, o, Tail(qo))
          /\ p.ns = v.next_rx_seq /\ Dist(p.ns, v.sent_ack_seq) < v.local_rw
      BY <2>3, <3>1, ReadingIs, NodeTakes
    <3> QED BY <2>2, <3>2 DEF Takes
  <2>4. CASE ~fits
    <3>1. s.state # "IDLE" BY <1>3 DEF Connected
    <3> QED BY <2>1, <2>3, <2>4, <3>1, ErrorReads
  <2>5. CASE fits
    <3>1. View(t) = Taken(v, p) /\ Stream(t) = q BY <1>1, AcceptIPduIs
    <3> HIDE DEF t
    <3>2. ASSUME Local(v) PROVE Local(Taken(v, p))
      <4>1. Takes(v, p, Taken(v, p)) BY <1>1, <1>3, <2>2, <2>5 DEF Takes, Connected
      <4> HIDE DEF v
      <4> QED BY <1>1, <3>2, <4>1, TakesIs
    <3> QED BY <2>1, <2>3, <2>5, <3>1, <3>2 DEF Reads
  <2> QED BY <2>4, <2>5
<1> QED BY <1>2, <1>3

(* llcp_dlc_proc_rr_rnr_pdu, of a PDU that is accepted. *)
LEMMA AcceptRrRnrIs ==
    ASSUME NEW s \in ControlBlock, NEW p \in Pdu
    PROVE  /\ AcceptRrRnr(s, p) \in ControlBlock
           /\ View(AcceptRrRnr(s, p)) = [View(s) EXCEPT !.rcvd_ack_seq = p.nr] /\ Stream(AcceptRrRnr(s, p)) = Stream(s)
<1> DEFINE busy == p.ptype = "RNR"
           b == IF s.remote_busy # busy /\ ~s.is_tx_congested THEN busy ELSE s.told
           s1 == [s EXCEPT !.rcvd_ack_seq = p.nr]
           t == [s1 EXCEPT !.remote_busy = busy, !.told = b]
<1>1. busy \in BOOLEAN /\ b \in BOOLEAN BY DEF ControlBlock
<1>2. AcceptRrRnr(s, p) = t
  <2>1. AcceptRrRnr(s, p) = [s EXCEPT !.rcvd_ack_seq = p.nr, !.remote_busy = busy, !.told = b] BY Zenon DEF AcceptRrRnr
  <2> HIDE DEF busy, b
  <2> QED BY <2>1
<1> HIDE DEF busy, b
<1>3. s1 \in ControlBlock /\ View(s1) = [View(s) EXCEPT !.rcvd_ack_seq = p.nr] /\ s1.sig_xmit_q = s.sig_xmit_q /\ s1.out = s.out
  <2>1. p.nr \in SeqNum BY PduNumbers
  <2> QED BY <2>1, ViewExcept DEF ControlBlock
<1> HIDE DEF s1
<1>4. t \in ControlBlock BY <1>1, <1>3, ZenonT(60) DEF ControlBlock
<1>5. Same(s1, t) BY <1>3 DEF Same, View, ControlBlock
<1> HIDE DEF t
<1>6. View(t) = View(s1) /\ Stream(t) = Stream(s) BY <1>3, <1>5 DEF Same, Stream, Wire
<1> QED BY <1>2, <1>3, <1>4, <1>6, Zenon

(* llcp_dlc_proc_rr_rnr_pdu. *)
LEMMA ProcRrRnrReads ==
    ASSUME NEW n \in Node, NEW s \in ControlBlock, s.symm_state # "LOCAL_XMIT_NEXT", NEW p \in Acks, p \notin Infos,
           NEW c \in Choice
    PROVE  Reads(n, s, p, ProcRrRnr(s, p, c))
<1> DEFINE v == View(s)  q == Stream(s)
<1>1. v.state = s.state /\ v \in Views /\ p \in Pdu BY ViewIs, AckIs
<1>2. CASE s.state = "IDLE"
  <2>1. Dropped(View(s), p) /\ ProcRrRnr(s, p, c) = s BY <1>1, <1>2 DEF Dropped, Open, ProcRrRnr
  <2> QED BY <2>1, DropsReads
<1>3. CASE s.state # "IDLE"
  <2> DEFINE a == AcceptRrRnr(s, p)
             t == PendingDisc(a, c.disc)
             v2 == [v EXCEPT !.rcvd_ack_seq = p.nr]
  <2>1. ProcRrRnr(s, p, c) = IF NrInRange(s, p.nr) THEN t ELSE FrameError(s, c) BY <1>3 DEF ProcRrRnr
  <2>2. NrInRange(s, p.nr) <=> NrInRange(v, p.nr) BY ViewIs
  <2>3. ASSUME NEW e, NEW o, NEW qo, Reading(n, e, v, q, o, qo, p)
        PROVE  AckRead(v, p, v2) /\ Jointly(e, n, v2, q, o, Tail(qo))
    <3> HIDE DEF v, q
    <3> QED BY <2>3, ReadingIs, NodeAckRead
  <2>4. CASE ~NrInRange(s, p.nr)
    <3>1. \A e, o, qo : ~Reading(n, e, v, q, o, qo, p) BY <2>2, <2>3, <2>4 DEF AckRead
    <3> QED BY <1>3, <2>1, <2>4, <3>1, ErrorReads
  <2>5. CASE NrInRange(s, p.nr)
    <3>1. a \in ControlBlock /\ View(a) = v2 /\ Stream(a) = q BY <1>1, AcceptRrRnrIs
    <3> HIDE DEF a
    <3>2. Goes(n, View(a), Stream(a), View(t), Stream(t))
      <4>1. c.disc \in PoolOutcomes /\ c.disc \in BOOLEAN
        <5>1. c.disc \in PoolOutcomes BY DEF Choice
        <5> QED BY <5>1, ChoiceType
      <4> QED BY <3>1, <4>1, PendingDiscMoves, MovesGoes
    <3>3. Goes(n, v2, q, View(t), Stream(t)) BY <3>1, <3>2
    <3> HIDE DEF t
    <3>4. ASSUME Local(v) PROVE v2 \in Views /\ Local(v2)
      <4>1. AckRead(v, p, v2) BY <2>2, <2>5 DEF AckRead
      <4> HIDE DEF v, v2
      <4> QED BY <1>1, <3>4, <4>1, AckReadIs
    <3>5. q \in Seq(Pdu) BY ViewIs
    <3> HIDE DEF v2
    <3>6. ASSUME NEW e, NEW o, NEW qo, Reading(n, e, v, q, o, qo, p) PROVE Jointly(e, n, View(t), Stream(t), o, Tail(qo))
      <4> HIDE DEF v, q
      <4>1. Jointly(e, n, v2, q, o, Tail(qo)) BY <2>3, <3>6
      <4>2. /\ e \in Nat /\ o \in Views /\ Tail(qo) \in Seq(Pdu) /\ Reliable /\ Local(v) BY <3>6, ReadingIs
      <4> QED BY <3>3, <3>4, <3>5, <4>1, <4>2 DEF Goes
    <3>7. Local(v) => Local(View(t)) BY <3>3, <3>4, <3>5 DEF Goes
    <3> QED BY <2>1, <2>5, <3>6, <3>7 DEF Reads
  <2> QED BY <2>4, <2>5
<1> QED BY <1>2, <1>3

(* llcp_dlc_proc_rx_pdu and llcp_dlc_proc_i_pdu, of every PDU. *)
LEMMA ProcRxPduReads ==
    ASSUME NEW n \in Node, NEW s \in ControlBlock, s.symm_state # "LOCAL_XMIT_NEXT", NEW p \in Pdu, NEW agf,
           NEW c \in Choice, RW[Server] \in SeqNum
    PROVE  Reads(n, s, p, ProcRxPdu(s, p, agf, c))
<1> DEFINE t == ProcRxPdu(s, p, agf, c)
<1>1. CASE p.ptype = "CONNECT"
  <2>1. p \in Connects /\ t = ProcConnect(s, p, c) BY <1>1 DEF Connects, ProcRxPdu
  <2> QED BY <2>1, ProcConnectReads
<1>2. CASE p.ptype = "CC"
  <2>1. p \in Confirms /\ t = ProcCc(s, p) BY <1>2 DEF Confirms, ProcRxPdu
  <2> QED BY <2>1, ProcCcReads
<1>3. CASE p.ptype = "DISC"
  <2>1. p \in Discs /\ t = ProcDisc(s, c) BY <1>3 DEF Discs, ProcRxPdu
  <2> QED BY <2>1, ProcDiscReads
<1>4. CASE p.ptype = "DM"
  <2>1. p \in Dms \cup Resps /\ t = ProcDm(s, p) BY <1>4 DEF Dms, Resps, ProcRxPdu
  <2> QED BY <2>1, ProcDmReads
<1>5. CASE p.ptype = "I"
  <2>1. p \in Infos /\ t = ProcI(s, p, agf, c) BY <1>5 DEF Infos, ProcRxPdu
  <2> QED BY <2>1, ProcIReads
<1>6. CASE p.ptype \in {"RR", "RNR"}
  <2>1. p \in Acks /\ p \notin Infos /\ t = ProcRrRnr(s, p, c) BY <1>6 DEF Acks, Infos, ProcRxPdu
  <2> QED BY <2>1, ProcRrRnrReads
<1>7. CASE p.ptype = "FRMR"
  <2>1. t = DeallocateDataLink(s) BY <1>7 DEF ProcRxPdu
  <2>2. Local(View(s)) => Local(View(t)) BY <2>1, DeallocateIs, NewViewIs
  <2> HIDE DEF t
  <2> DEFINE v == View(s)  q == Stream(s)
  <2>3. ASSUME NEW e, NEW o, NEW qo, Reading(n, e, v, q, o, qo, p) PROVE FALSE
    <3> HIDE DEF v, q
    <3>1. p \in Acks \cup Dms \cup Confirms \cup Connects \cup Discs \cup Resps BY <2>3, ReadingIs, NodeHead
    <3> QED BY <1>7, <3>1 DEF Acks, Dms, Confirms, Connects, Discs, Resps
  <2>4. Reads(n, s, p, t) BY <2>2, <2>3 DEF Reads
  <2> QED BY <2>4 DEF t
<1>8. p.ptype \in PTYPE BY DEF Pdu
<1> QED BY <1>1, <1>2, <1>3, <1>4, <1>5, <1>6, <1>7, <1>8 DEF PTYPE

-----------------------------------------------------------------------------
(* The steps of the system.                                                *)

(* What the invariant says of one device and its peer. *)
LEMMA OInvIs ==
    ASSUME OInv, NEW n \in Node
    PROVE  LET s == node[n]  u == node[Peer(n)]
           IN  /\ s \in ControlBlock /\ u \in ControlBlock /\ Peer(n) \in Node /\ Peer(n) # n
               /\ View(s) \in Views /\ Stream(s) \in Seq(Pdu) /\ Local(View(s))
               /\ View(u) \in Views /\ Stream(u) \in Seq(Pdu) /\ Local(View(u))
               /\ nep \in Nat /\ RW[Client] \in SeqNum /\ RW[Server] \in SeqNum
               /\ Reliable => Jointly(nep, n, View(s), Stream(s), View(u), Stream(u))
<1>1. IInv /\ Peer(n) \in Node /\ Peer(n) # n BY PeerFacts DEF OInv
<1>2. node[n] \in ControlBlock /\ node[Peer(n)] \in ControlBlock BY <1>1, NodeType
<1>3. nep \in Nat
  <2>1. nep \in 0..MaxEp /\ MaxEp \in Nat BY <1>1, EnvType DEF IInv, TypeOK
  <2> QED BY <2>1
<1>4. RW[Client] \in SeqNum /\ RW[Server] \in SeqNum
  <2>1. RW \in [Node -> SeqNum] BY <1>1, EnvType DEF IInv
  <2> QED BY <2>1 DEF Node
<1> QED BY <1>1, <1>2, <1>3, <1>4 DEF OInv, Holds

(* And what it has to say in the next state. *)
LEMMA OInvNext ==
    ASSUME IInv', NEW n \in Node, env' = env, Local(View(node'[n])), Local(View(node'[Peer(n)])),
           Reliable => Jointly(nep', n, View(node'[n]), Stream(node'[n]), View(node'[Peer(n)]), Stream(node'[Peer(n)]))
    PROVE  OInv'
<1> DEFINE s == node'[n]  u == node'[Peer(n)]
<1>1. Peer(n) \in Node /\ Peer(Peer(n)) = n /\ \A m \in Node : m = n \/ m = Peer(n) BY PeerFacts
<1>2. s \in ControlBlock /\ u \in ControlBlock BY <1>1 DEF IInv, TypeOK
<1>3. /\ View(s) \in Views /\ Stream(s) \in Seq(Pdu) /\ View(u) \in Views /\ Stream(u) \in Seq(Pdu) BY <1>2, ViewIs
<1>4. Reliable => Jointly(nep', Peer(n), View(u), Stream(u), View(s), Stream(s)) BY JointlyTurn
<1>5. (Reliable <=> Reliable') /\ RW' = RW BY DEF Reliable, Uses, RW
<1>6. ASSUME NEW m, NEW v, NEW q, NEW o, NEW qo, Reliable => Jointly(nep', m, v, q, o, qo)
      PROVE  Reliable' => IF m = Client THEN Joint(nep', RW', v, q, o, qo) ELSE Joint(nep', RW', o, qo, v, q)
  BY <1>5, <1>6 DEF Jointly
<1>7. /\ Reliable' => IF n = Client THEN Joint(nep', RW', View(s), Stream(s), View(u), Stream(u))
                                   ELSE Joint(nep', RW', View(u), Stream(u), View(s), Stream(s))
      /\ Reliable' => IF Peer(n) = Client THEN Joint(nep', RW', View(u), Stream(u), View(s), Stream(s))
                                         ELSE Joint(nep', RW', View(s), Stream(s), View(u), Stream(u))
  BY <1>4, <1>6
<1>8. ASSUME NEW m \in Node
      PROVE  Holds(nep, m, View(node[m]), Stream(node[m]), View(node[Peer(m)]), Stream(node[Peer(m)]))'
  <2>1. m = n \/ (m = Peer(n) /\ Peer(m) = n) BY <1>1
  <2> QED BY <1>3, <1>7, <2>1 DEF Holds, Jointly
<1> QED BY <1>8 DEF OInv

(* A step of one device. *)
LEMMA OInvUpdate ==
    ASSUME OInv, IInv', NEW n \in Node, NEW t, Update(n, t), Local(View(t)),
           Reliable => Jointly(nep, n, View(t), Stream(t), View(node[Peer(n)]), Stream(node[Peer(n)]))
    PROVE  OInv'
<1>1. node \in [Node -> ControlBlock] BY DEF OInv, IInv, TypeOK
<1>2. node' = [node EXCEPT ![n] = t] /\ nep' = nep /\ env' = env BY DEF Update
<1>3. node'[n] = t /\ node'[Peer(n)] = node[Peer(n)] BY <1>1, <1>2, PeerFacts
<1>4. Local(View(node[Peer(n)])) BY OInvIs
<1> QED BY <1>2, <1>3, <1>4, OInvNext

(* In such a step the device sends, or nothing changes. *)
LEMMA OInvSends ==
    ASSUME OInv, IInv', NEW n \in Node, NEW t, Update(n, t), Sends(n, node[n], t)
    PROVE  OInv'
<1> DEFINE s == node[n]  u == node[Peer(n)]
<1>1. /\ View(s) \in Views /\ Stream(s) \in Seq(Pdu) /\ Local(View(s))
      /\ View(u) \in Views /\ Stream(u) \in Seq(Pdu) /\ nep \in Nat
      /\ Reliable => Jointly(nep, n, View(s), Stream(s), View(u), Stream(u))
  BY OInvIs
<1>2. Goes(n, View(s), Stream(s), View(t), Stream(t)) BY DEF Sends
<1>3. Local(View(t)) /\ (Reliable => Jointly(nep, n, View(t), Stream(t), View(u), Stream(u))) BY <1>1, <1>2 DEF Goes
<1> QED BY <1>3, OInvUpdate

(* The first PDU of a stream that begins with a frame. *)
LEMMA FrameTail ==
    ASSUME NEW T, NEW q \in Seq(T), q # <<>>, NEW r \in Seq(T)
    PROVE  /\ q \o r \in Seq(T) /\ q \o r # <<>> /\ Head(q \o r) = Head(q) /\ Tail(q \o r) = Tail(q) \o r
OBVIOUS

(* A frame whose first PDU was read. *)
LEMMA FrameRead ==
    ASSUME NEW u \in ControlBlock, u.out # <<>>, u.out[1].pdus # <<>>
    PROVE  LET u1 == [u EXCEPT !.out = <<[u.out[1] EXCEPT !.pdus = Tail(@)]>>]
           IN  /\ View(u1) = View(u) /\ Stream(u1) = Tail(Stream(u))
               /\ Stream(u) # <<>> /\ Head(Stream(u)) = Head(u.out[1].pdus) /\ Head(Stream(u)) \in Pdu
<1> DEFINE f == u.out[1]
           g == [f EXCEPT !.pdus = Tail(@)]
           z == <<g>>
           u1 == [u EXCEPT !.out = z]
<1>1. f \in Frame /\ f.pdus \in Seq(Pdu)
  <2>1. u.out \in Seq(Frame) BY DEF ControlBlock
  <2> HIDE DEF z
  <2>2. u.out[1] \in Frame BY <2>1, TailIs
  <2> QED BY <2>2 DEF Frame
<1>2. z # <<>> /\ z[1].pdus = Tail(f.pdus)
  <2>1. g.pdus = Tail(f.pdus) BY <1>1 DEF Frame
  <2> HIDE DEF g
  <2> QED BY <2>1
<1> HIDE DEF z
<1>3. u1.out = z /\ u1.sig_xmit_q = u.sig_xmit_q /\ View(u1) = View(u) BY DEF View, ControlBlock
<1>4. u.sig_xmit_q \in Seq(Pdu) BY ViewIs
<1>5. Stream(u) = f.pdus \o u.sig_xmit_q BY DEF Stream, Wire
<1>6. Stream(u1) = Tail(f.pdus) \o u.sig_xmit_q
  <2> HIDE DEF u1
  <2> QED BY <1>2, <1>3 DEF Stream, Wire
<1>7. f.pdus # <<>> OBVIOUS
<1> HIDE DEF f, u1
<1>8. Stream(u) # <<>> /\ Head(Stream(u)) = Head(f.pdus) /\ Stream(u1) = Tail(Stream(u))
  <2> DEFINE q == f.pdus  r == u.sig_xmit_q
  <2>1. q \in Seq(Pdu) /\ q # <<>> /\ r \in Seq(Pdu) BY <1>1, <1>4, <1>7
  <2>2. Stream(u) = q \o r /\ Stream(u1) = Tail(q) \o r BY <1>5, <1>6
  <2> HIDE DEF q, r
  <2>3. q \o r # <<>> /\ Head(q \o r) = Head(q) /\ Tail(q \o r) = Tail(q) \o r BY <2>1, FrameTail
  <2> QED BY <2>2, <2>3 DEF q
<1>9. Head(f.pdus) \in Pdu BY <1>1, <1>7, TailIs
<1> QED BY <1>3, <1>8, <1>9 DEF f, u1, z, g

(* A device reads the next PDU. *)
LEMMA RxPduOrders == ASSUME OInv, NEW n \in Node, RxPdu(n) PROVE OInv'
<1> DEFINE s == node[n]  u == node[Peer(n)]  f == u.out[1]  p == Head(f.pdus)
           u1 == [u EXCEPT !.out = <<[f EXCEPT !.pdus = Tail(@)]>>]
<1>1. node \in [Node -> ControlBlock] BY DEF OInv, IInv, TypeOK
<1>2. /\ s \in ControlBlock /\ u \in ControlBlock /\ Peer(n) \in Node /\ Peer(n) # n
      /\ View(s) \in Views /\ Stream(s) \in Seq(Pdu) /\ Local(View(s))
      /\ View(u) \in Views /\ Stream(u) \in Seq(Pdu) /\ Local(View(u))
      /\ nep \in Nat /\ RW[Server] \in SeqNum
      /\ Reliable => Jointly(nep, n, View(s), Stream(s), View(u), Stream(u))
  BY OInvIs
<1>3. IInv' BY RxPduKeeps DEF OInv
<1>4. u.out # <<>> /\ f.pdus # <<>> /\ nep' = nep /\ env' = env BY DEF RxPdu, InFlight
<1>5. s.symm_state # "LOCAL_XMIT_NEXT"
  <2>1. Turn(s, u) BY HalfDuplexOfTurn DEF OInv, IInv
  <2> QED BY <1>4, <2>1 DEF Turn
<1>6. PICK c \in Choice :
        node' = [node EXCEPT ![Peer(n)].out = <<[f EXCEPT !.pdus = Tail(@)]>>,
                             ![n] = ProcRxPdu(@, Head(f.pdus), f.agf, c)]
  BY DEF RxPdu
<1> DEFINE t == ProcRxPdu(s, p, f.agf, c)
<1>7. node' = [[node EXCEPT ![Peer(n)] = u1] EXCEPT ![n] = t] BY <1>1, <1>2, <1>6
<1>8. View(u1) = View(u) /\ Stream(u1) = Tail(Stream(u)) /\ Stream(u) # <<>> /\ Head(Stream(u)) = p /\ p \in Pdu
  BY <1>2, <1>4, FrameRead
<1> HIDE DEF u1
<1>9. Reads(n, s, p, t) BY <1>2, <1>5, <1>8, ProcRxPduReads
<1> HIDE DEF s, u, t, p
<1>10. node'[n] = t /\ node'[Peer(n)] = u1 BY <1>1, <1>2, <1>7
<1>11. Local(View(t)) BY <1>2, <1>9 DEF Reads
<1>12. ASSUME Reliable PROVE Jointly(nep, n, View(t), Stream(t), View(u1), Stream(u1))
  <2>1. Reading(n, nep, View(s), Stream(s), View(u), Stream(u), p) BY <1>2, <1>8, <1>12 DEF Reading
  <2> QED BY <1>8, <1>9, <2>1 DEF Reads
<1> QED BY <1>2, <1>3, <1>4, <1>8, <1>10, <1>11, <1>12, OInvNext

(* A frame ends: its receiver has the turn to send. *)
LEMMA RxEndOrders == ASSUME OInv, NEW n \in Node, RxEnd(n) PROVE OInv'
<1> DEFINE s == node[n]  u == node[Peer(n)]
           s1 == [s EXCEPT !.symm_state = "LOCAL_XMIT_NEXT"]
           u1 == [u EXCEPT !.out = <<>>]
<1>1. node \in [Node -> ControlBlock] BY DEF OInv, IInv, TypeOK
<1>2. /\ s \in ControlBlock /\ u \in ControlBlock /\ Peer(n) \in Node /\ Peer(n) # n
      /\ View(s) \in Views /\ Stream(s) \in Seq(Pdu) /\ Local(View(s))
      /\ View(u) \in Views /\ Stream(u) \in Seq(Pdu) /\ Local(View(u)) /\ nep \in Nat
      /\ Reliable => Jointly(nep, n, View(s), Stream(s), View(u), Stream(u))
  BY OInvIs
<1>3. IInv' BY RxEndKeeps DEF OInv
<1>4. u.out # <<>> /\ u.out[1].pdus = <<>> /\ nep' = nep /\ env' = env BY DEF RxEnd, InFlight
<1>5. s.out = <<>>
  <2>1. Turn(u, s) BY HalfDuplexOfTurn DEF OInv, IInv
  <2> QED BY <1>4, <2>1 DEF Turn
<1>6. PICK c \in Choice :
        node' = [node EXCEPT ![Peer(n)].out = <<>>,
                             ![n] = CheckSendData([@ EXCEPT !.symm_state = "LOCAL_XMIT_NEXT"], c)]
  BY DEF RxEnd
<1> DEFINE t == CheckSendData(s1, c)
<1>7. node' = [[node EXCEPT ![Peer(n)] = u1] EXCEPT ![n] = t] BY <1>1, <1>2, <1>6
<1>8. s1 \in ControlBlock /\ s1.out = <<>> /\ View(s1) = View(s) /\ Stream(s1) = Stream(s)
  <2>1. s1 \in ControlBlock /\ s1.out = s.out /\ s1.sig_xmit_q = s.sig_xmit_q /\ View(s1) = View(s)
    BY <1>2 DEF View, ControlBlock, SYMM_STATE
  <2> HIDE DEF s1
  <2> QED BY <1>5, <2>1 DEF Stream, Wire
<1>9. View(u1) = View(u) /\ Stream(u1) = Stream(u)
  <2>1. u1.out = <<>> /\ u1.sig_xmit_q = u.sig_xmit_q /\ View(u1) = View(u) BY <1>2 DEF View, ControlBlock
  <2> HIDE DEF u1
  <2> QED BY <1>4, <2>1 DEF Stream, Wire
<1> HIDE DEF s1, u1
<1>10. Sends(n, s1, t) BY <1>8, CheckSendDataSends
<1> HIDE DEF s, u, t
<1>11. node'[n] = t /\ node'[Peer(n)] = u1 BY <1>1, <1>2, <1>7
<1>12. Goes(n, View(s), Stream(s), View(t), Stream(t)) BY <1>8, <1>10 DEF Sends
<1>13. Local(View(t)) /\ (Reliable => Jointly(nep, n, View(t), Stream(t), View(u), Stream(u))) BY <1>2, <1>12 DEF Goes
<1> QED BY <1>2, <1>3, <1>4, <1>9, <1>11, <1>13, OInvNext

(* A SYMM. *)
LEMMA SymmTimeoutOrders == ASSUME OInv, NEW n \in Node, SymmTimeout(n) PROVE OInv'
<1> DEFINE s == node[n]
<1>1. s \in ControlBlock BY OInvIs
<1>2. s.symm_state = "LOCAL_XMIT_NEXT" BY DEF SymmTimeout
<1>3. s.out = <<>>
  <2>1. Turn(s, node[Peer(n)]) BY HalfDuplexOfTurn DEF OInv, IInv
  <2> QED BY <1>2, <2>1 DEF Turn
<1>4. IInv' BY SymmTimeoutKeeps DEF OInv
<1>5. PICK ok \in PoolOutcomes : Update(n, IF ok THEN SendToLower(s, <<>>) ELSE s) BY DEF SymmTimeout
<1>6. <<>> \in Seq(Pdu) OBVIOUS
<1>7. View(SendToLower(s, <<>>)) = View(s) /\ Stream(SendToLower(s, <<>>)) = Stream(s)
  <2>1. View(SendToLower(s, <<>>)) = View(s) /\ Stream(SendToLower(s, <<>>)) = <<>> \o s.sig_xmit_q
    BY <1>1, <1>6, SendToLowerIs
  <2>2. Stream(s) = <<>> \o s.sig_xmit_q BY <1>3 DEF Stream, Wire
  <2> QED BY <2>1, <2>2
<1>8. Sends(n, s, SendToLower(s, <<>>)) /\ Sends(n, s, s) BY <1>7, GoesRefl DEF Sends
<1> QED BY <1>4, <1>5, <1>8, OInvSends

(* A PDU is queued, and sent at once if the device has the turn. *)
LEMMA QueuedSends ==
    ASSUME NEW n \in Node, NEW s \in ControlBlock, s.symm_state = "LOCAL_XMIT_NEXT" => s.out = <<>>,
           NEW p \in Pdu, NEW c \in Choice
    PROVE  LET t == CheckSendData(Enqueue(s, p), c)
           IN  /\ t \in ControlBlock
               /\ Goes(n, View(s), Append(Stream(s), p), View(t), Stream(t))
<1> DEFINE s1 == Enqueue(s, p)  t == CheckSendData(s1, c)
<1>1. /\ s1 \in ControlBlock /\ View(s1) = View(s) /\ s1.out = s.out /\ s1.symm_state = s.symm_state
      /\ Stream(s1) = Append(Stream(s), p)
  BY EnqueueIs
<1> HIDE DEF s1
<1>2. Sends(n, s1, t) BY <1>1, CheckSendDataSends
<1>3. t \in ControlBlock BY <1>1, CheckSendDataHandled, HandledType
<1> HIDE DEF t
<1> QED BY <1>1, <1>2, <1>3 DEF Sends, s1, t

(* llcp_util_send_dm, without a connection. *)
LEMMA SendDmWaits ==
    ASSUME NEW n \in Node, NEW s \in ControlBlock, s.symm_state = "LOCAL_XMIT_NEXT" => s.out = <<>>,
           ~Open(View(s)), Local(View(s)), NEW r \in REASON \ {"RESP_DISC"}, NEW k \in Nat, NEW c \in Choice
    PROVE  LET t == SendDm(s, r, k, c)
               m == [NewPdu("DM", k) EXCEPT !.reason = r]
           IN  /\ t \in ControlBlock /\ View(t) = View(s) /\ m \in Dms
               /\ Reliable => Stream(t) = Append(Stream(s), m)
<1> DEFINE m == [NewPdu("DM", k) EXCEPT !.reason = r]
           t == SendDm(s, r, k, c)
<1>1. m \in Dms BY NewDm
<1>2. m \in Pdu /\ c.pdu \in PoolOutcomes
  <2>1. c.pdu \in PoolOutcomes BY DEF Choice
  <2> HIDE DEF m
  <2> QED BY <1>1, <2>1, DmIs
<1>3. t = IF c.pdu THEN CheckSendData(Enqueue(s, m), c) ELSE s BY DEF SendDm, SendSig
<1> HIDE DEF m, t
<1>4. CASE c.pdu
  <2>1. t \in ControlBlock /\ Goes(n, View(s), Append(Stream(s), m), View(t), Stream(t)) BY <1>2, <1>3, <1>4, QueuedSends
  <2>2. View(s) \in Views /\ Append(Stream(s), m) \in Seq(Pdu) BY <1>2, ViewIs
  <2>3. View(t) = View(s) /\ Stream(t) = Append(Stream(s), m) BY <2>1, <2>2 DEF Goes
  <2> QED BY <1>1, <2>1, <2>3 DEF m, t
<1>5. CASE ~c.pdu
  <2>1. ~Reliable BY <1>2, <1>5, NoBuffer
  <2> QED BY <1>1, <1>3, <1>5, <2>1 DEF m, t
<1> QED BY <1>4, <1>5

(* A device that has the turn has no frame under way. *)
LEMMA TurnIsFree ==
    ASSUME IInv, NEW n \in Node PROVE node[n].symm_state = "LOCAL_XMIT_NEXT" => node[n].out = <<>>
BY HalfDuplexOfTurn DEF IInv, Turn

(* A data link timer expires. *)
LEMMA DataLinkTimeoutOrders == ASSUME OInv, NEW n \in Node, DataLinkTimeout(n) PROVE OInv'
<1> DEFINE s == node[n]
<1>1. s \in ControlBlock /\ View(s) \in Views /\ Local(View(s)) BY OInvIs
<1>2. IInv' BY DataLinkTimeoutKeeps DEF OInv
<1>3. ~Reliable BY DEF DataLinkTimeout, Reliable
<1>4. PICK c \in Choice :
        Update(n, DeallocateDataLink(IF s.state = "W4_LOCAL_RESP" THEN SendDm(s, "REJECT", s.ep, c) ELSE s))
  BY DEF DataLinkTimeout
<1> DEFINE a == IF s.state = "W4_LOCAL_RESP" THEN SendDm(s, "REJECT", s.ep, c) ELSE s
           t == DeallocateDataLink(a)
<1>5. a \in ControlBlock /\ View(a) = View(s)
  <2>1. CASE s.state = "W4_LOCAL_RESP"
    <3>1. s.symm_state = "LOCAL_XMIT_NEXT" => s.out = <<>> BY TurnIsFree DEF OInv
    <3>2. ~Open(View(s)) BY <1>1, <2>1, ViewIs DEF Open
    <3>3. s.ep \in Nat /\ "REJECT" \in REASON \ {"RESP_DISC"} BY <1>1 DEF ControlBlock, REASON
    <3>4. a = SendDm(s, "REJECT", s.ep, c) BY <2>1
    <3> HIDE DEF s, a
    <3> QED BY <1>1, <3>1, <3>2, <3>3, <3>4, SendDmWaits
  <2>2. CASE s.state # "W4_LOCAL_RESP" BY <1>1, <2>2
  <2> QED BY <2>1, <2>2
<1> HIDE DEF a
<1>6. Local(View(t)) BY <1>1, <1>5, DeallocateIs, NewViewIs
<1>7. Update(n, t) BY <1>4 DEF a
<1> HIDE DEF t
<1> QED BY <1>2, <1>3, <1>6, <1>7, OInvUpdate

(* The server's upper layer rejects the connection. *)
LEMMA ConnectRejectOrders == ASSUME OInv, NEW n \in Node, ConnectReject(n) PROVE OInv'
<1> DEFINE s == node[n]  v == View(s)  q == Stream(s)  o == View(node[Peer(n)])  qo == Stream(node[Peer(n)])
           m == [NewPdu("DM", s.ep) EXCEPT !.reason = "REJECT"]
<1>1. /\ s \in ControlBlock /\ v \in Views /\ q \in Seq(Pdu) /\ Local(v) /\ o \in Views /\ qo \in Seq(Pdu) /\ nep \in Nat
      /\ Reliable => Jointly(nep, n, v, q, o, qo)
  BY OInvIs
<1>2. IInv' BY ConnectRejectKeeps DEF OInv
<1>3. s.state = "W4_LOCAL_RESP" /\ v.state = "W4_LOCAL_RESP" BY <1>1, ViewIs DEF ConnectReject
<1>4. PICK c \in Choice : Update(n, DeallocateDataLink(SendDm(s, "REJECT", s.ep, c))) BY DEF ConnectReject
<1> DEFINE a == SendDm(s, "REJECT", s.ep, c)
           t == DeallocateDataLink(a)
<1>5. a \in ControlBlock /\ View(a) = v /\ m \in Dms /\ (Reliable => Stream(a) = Append(q, m))
  <2>1. s.symm_state = "LOCAL_XMIT_NEXT" => s.out = <<>> BY TurnIsFree DEF OInv
  <2>2. ~Open(v) BY <1>3 DEF Open
  <2>3. s.ep \in Nat /\ "REJECT" \in REASON \ {"RESP_DISC"} BY <1>1 DEF ControlBlock, REASON
  <2> HIDE DEF s
  <2> QED BY <1>1, <2>1, <2>2, <2>3, SendDmWaits
<1> HIDE DEF m, a
<1>6. View(t) = NewView /\ Stream(t) = Stream(a)
  <2>1. a.state # "IDLE" BY <1>3, <1>5, ViewIs
  <2> QED BY <1>5, <2>1, DeallocateIs
<1>7. Update(n, t) BY <1>4 DEF a
<1> HIDE DEF t
<1>8. ASSUME Reliable PROVE Jointly(nep, n, NewView, Append(q, m), o, qo)
  <2>1. Jointly(nep, n, v, q, o, qo) BY <1>1, <1>8
  <2>2. n # Client BY <1>3, <2>1 DEF Jointly, Joint, Sides
  <2>3. Talks(v, m, v) BY <1>5 DEF Talks
  <2> HIDE DEF v, q, o, qo
  <2>4. Jointly(nep, n, v, Append(q, m), o, qo) BY <1>1, <2>1, <2>3, NodeTalks
  <2>5. Joint(nep, RW, o, qo, v, Append(q, m)) BY <2>2, <2>4 DEF Jointly
  <2>6. Append(q, m) \in Seq(Pdu) BY <1>1, <1>5, DmIs
  <2>7. Joint(nep, RW, o, qo, NewView, Append(q, m)) BY <1>1, <1>3, <2>5, <2>6, ServerRejects
  <2> QED BY <2>2, <2>7 DEF Jointly
<1> QED BY <1>2, <1>5, <1>6, <1>7, <1>8, NewViewIs, OInvUpdate

(* The link is lost: nothing is left. *)
LEMMA LinkDeactivateOrders == ASSUME OInv, LinkDeactivate PROVE OInv'
<1> DEFINE d(n) == DeallocateDataLink(node[n])
<1>1. PICK init \in Node :
        node' = [n \in Node |->
                   [d(n) EXCEPT
                      !.sig_xmit_q = <<>>, !.out = <<>>,
                      !.overall_tx_congested = FALSE, !.overall_rx_congested = FALSE,
                      !.symm_state = IF n = init THEN "LOCAL_XMIT_NEXT" ELSE "REMOTE_XMIT_NEXT"]]
  BY DEF LinkDeactivate
<1>2. IInv' BY LinkDeactivateKeeps DEF OInv
<1>3. nep' = nep /\ env' = env BY DEF LinkDeactivate
<1>4. ASSUME NEW n \in Node
      PROVE  /\ View(node'[n]) = IF View(node[n]).state = "IDLE" THEN View(node[n]) ELSE NewView
             /\ Stream(node'[n]) = <<>>
  <2> DEFINE s == node[n]
             t == [d(n) EXCEPT
                     !.sig_xmit_q = <<>>, !.out = <<>>,
                     !.overall_tx_congested = FALSE, !.overall_rx_congested = FALSE,
                     !.symm_state = IF n = init THEN "LOCAL_XMIT_NEXT" ELSE "REMOTE_XMIT_NEXT"]
  <2>1. s \in ControlBlock /\ View(s).state = s.state BY OInvIs, ViewIs
  <2>2. d(n) \in ControlBlock BY <2>1, DeallocateStays, StaysType
  <2>3. View(d(n)) = IF s.state = "IDLE" THEN View(s) ELSE NewView BY <2>1, DeallocateIs
  <2>4. node'[n] = t BY <1>1
  <2> HIDE DEF d
  <2>5. View(t) = View(d(n)) /\ t.sig_xmit_q = <<>> /\ t.out = <<>> BY <2>2 DEF View, ControlBlock
  <2> HIDE DEF t
  <2>6. Stream(t) = <<>>
    <3>1. Stream(t) = <<>> \o <<>> BY <2>5 DEF Stream, Wire
    <3> QED BY <3>1
  <2> QED BY <2>1, <2>3, <2>4, <2>5, <2>6
<1> HIDE DEF d
<1> DEFINE c == View(node[Client])  s == View(node[Server])
           c2 == View(node'[Client])  s2 == View(node'[Server])
<1>5. Client \in Node /\ Server \in Node /\ Peer(Client) = Server BY DEF Node, Peer
<1>6. /\ c \in Views /\ Local(c) /\ s \in Views /\ Local(s)
      /\ Reliable => Jointly(nep, Client, c, Stream(node[Client]), s, Stream(node[Server]))
  BY <1>5, OInvIs
<1>7. /\ c2 = (IF c.state = "IDLE" THEN c ELSE NewView) /\ Stream(node'[Client]) = <<>>
      /\ s2 = (IF s.state = "IDLE" THEN s ELSE NewView) /\ Stream(node'[Server]) = <<>>
  BY <1>4, <1>5
<1> HIDE DEF c2, s2, c, s
<1>8. Local(c2) /\ Local(s2) /\ c2.state = "IDLE" /\ s2.state = "IDLE" BY <1>6, <1>7, NewViewIs
<1>9. ASSUME Reliable PROVE Jointly(nep, Client, c2, <<>>, s2, <<>>)
  <2>1. Sides(nep, RW, c, Stream(node[Client]), s) BY <1>6, <1>9 DEF Jointly, Joint
  <2>2. Sides(nep, RW, c2, <<>>, s2)
    <3>1. c2.last_nr = c2.sent_ack_seq /\ s2.last_nr = s2.sent_ack_seq /\ c2.ep = 0 /\ s2.ep = 0
      BY <1>7, <2>1, NewViewIs DEF Sides
    <3> QED BY <1>8, <3>1 DEF Sides
  <2>3. Nobody(c2, <<>>, s2, <<>>) BY <1>8 DEF Nobody, Open, All, After
  <2>4. Joint(nep, RW, c2, <<>>, s2, <<>>) BY <2>2, <2>3 DEF Joint
  <2> QED BY <2>4 DEF Jointly
<1> QED BY <1>2, <1>3, <1>5, <1>7, <1>8, <1>9, OInvNext DEF c2, s2

(* The client's upper layer asks for a connection. *)
LEMMA ConnectReqOrders == ASSUME OInv, ConnectReq PROVE OInv'
<1> DEFINE n == Client  z == node[n]  v == View(z)  q == Stream(z)  o == View(node[Server])  qo == Stream(node[Server])
           s == AllocateDataLink(z)
           p == [NewPdu("CONNECT", nep + 1) EXCEPT !.rw = RW[Client]]
<1>0. Client \in Node /\ Peer(Client) = Server /\ Server # Client BY NodeAssumption DEF Node, Peer
<1>1. /\ z \in ControlBlock /\ v \in Views /\ q \in Seq(Pdu) /\ Local(v) /\ o \in Views /\ Local(o) /\ qo \in Seq(Pdu)
      /\ nep \in Nat /\ RW[Client] \in SeqNum
      /\ Reliable => Jointly(nep, n, v, q, o, qo)
  BY <1>0, OInvIs
<1>2. IInv' BY ConnectReqKeeps DEF OInv
<1>3. v.state = "IDLE" /\ nep' = nep + 1 /\ env' = env BY <1>1, ViewIs DEF ConnectReq
<1>4. PICK k \in Choice :
        node' = [node EXCEPT ![Client] =
          IF k.pdu THEN [CheckSendData(Enqueue(s, p), k)
                           EXCEPT !.local_rw = RW[Client], !.ep = nep + 1, !.state = "W4_REMOTE_RESP"]
                   ELSE s]
  BY DEF ConnectReq
<1> DEFINE a == CheckSendData(Enqueue(s, p), k)
           t == IF k.pdu THEN [a EXCEPT !.local_rw = RW[Client], !.ep = nep + 1, !.state = "W4_REMOTE_RESP"] ELSE s
<1>5. node'[Client] = t /\ node'[Server] = node[Server]
  <2>1. node \in [Node -> ControlBlock] BY DEF OInv, IInv, TypeOK
  <2>2. node' = [node EXCEPT ![Client] = t] BY <1>4
  <2> HIDE DEF t
  <2> QED BY <1>0, <2>1, <2>2
<1>6. s \in ControlBlock /\ View(s) = NewView /\ Stream(s) = q /\ s.out = z.out /\ s.symm_state = z.symm_state
  <2>1. Stays(z, s) BY <1>1, AllocateStays
  <2> QED BY <1>1, <2>1, AllocateIs, StaysType DEF Stays
<1>7. p \in Connects /\ p.rw = RW[Client] /\ p.ep = nep + 1
  <2>1. nep + 1 \in Nat BY <1>1
  <2>2. NewPdu("CONNECT", nep + 1) \in Pdu BY <2>1, NewPduType DEF PTYPE
  <2>3. NewPdu("CONNECT", nep + 1).ptype = "CONNECT" /\ NewPdu("CONNECT", nep + 1).ep = nep + 1 BY DEF NewPdu
  <2> QED BY <1>1, <2>2, <2>3 DEF Pdu, Connects
<1> HIDE DEF p, s
<1>8. a \in ControlBlock /\ View(a) = NewView /\ Stream(a) = Append(q, p)
  <2>1. s.symm_state = "LOCAL_XMIT_NEXT" => s.out = <<>> BY <1>0, <1>6, TurnIsFree DEF OInv
  <2>2. p \in Pdu BY <1>7, ConnectIs
  <2>3. a \in ControlBlock /\ Goes(n, View(s), Append(Stream(s), p), View(a), Stream(a))
    BY <1>0, <1>6, <2>1, <2>2, QueuedSends
  <2>4. Append(q, p) \in Seq(Pdu) BY <1>1, <2>2
  <2>5. Goes(n, NewView, Append(q, p), View(a), Stream(a)) BY <1>6, <2>3
  <2> HIDE DEF a, q
  <2> QED BY <2>3, <2>4, <2>5, NewViewIs DEF Goes
<1> HIDE DEF a
<1>9. CASE k.pdu
  <2>1. View(t) = Asking(RW, nep) /\ Stream(t) = Append(q, p)
    <3> DEFINE t1 == [a EXCEPT !.local_rw = RW[Client], !.ep = nep + 1, !.state = "W4_REMOTE_RESP"]
               x == View(t1)  y == Asking(RW, nep)
    <3>1. /\ t1.state = "W4_REMOTE_RESP" /\ t1.ep = nep + 1 /\ t1.local_rw = RW[Client] /\ t1.remote_rw = a.remote_rw
          /\ t1.next_tx_seq = a.next_tx_seq /\ t1.rcvd_ack_seq = a.rcvd_ack_seq /\ t1.next_rx_seq = a.next_rx_seq
          /\ t1.sent_ack_seq = a.sent_ack_seq /\ t1.i_xmit_q = a.i_xmit_q /\ t1.nsent = a.nsent /\ t1.nrcvd = a.nrcvd
          /\ t1.ncomplete = a.ncomplete /\ t1.last_nr = a.last_nr /\ t1.sig_xmit_q = a.sig_xmit_q /\ t1.out = a.out
      BY <1>8 DEF ControlBlock
    <3>2. t1 \in ControlBlock
      <4>1. \A rw \in SeqNum, i \in Nat : [a EXCEPT !.local_rw = rw, !.ep = i, !.state = "W4_REMOTE_RESP"] \in ControlBlock
        BY <1>8 DEF ControlBlock, DLC_STATE
      <4>2. nep + 1 \in Nat BY <1>1
      <4> QED BY <1>1, <4>1, <4>2
    <3> HIDE DEF t1
    <3>3. Stream(t1) = Stream(a) BY <3>1 DEF Stream, Wire
    <3>4. x \in Views BY <3>2, ViewIs
    <3>5. /\ x.state = "W4_REMOTE_RESP" /\ x.ep = nep + 1 /\ x.local_rw = RW[Client] /\ x.remote_rw = NewView.remote_rw
          /\ x.next_tx_seq = NewView.next_tx_seq /\ x.rcvd_ack_seq = NewView.rcvd_ack_seq
          /\ x.next_rx_seq = NewView.next_rx_seq /\ x.sent_ack_seq = NewView.sent_ack_seq
          /\ x.i_xmit_q = NewView.i_xmit_q /\ x.nsent = NewView.nsent /\ x.nrcvd = NewView.nrcvd
          /\ x.ncomplete = NewView.ncomplete /\ x.last_nr = NewView.last_nr
      <4> DEFINE w == View(a)
      <4>1. /\ w.remote_rw = a.remote_rw
            /\ w.next_tx_seq = a.next_tx_seq /\ w.rcvd_ack_seq = a.rcvd_ack_seq /\ w.next_rx_seq = a.next_rx_seq
            /\ w.sent_ack_seq = a.sent_ack_seq /\ w.i_xmit_q = a.i_xmit_q /\ w.nsent = a.nsent /\ w.nrcvd = a.nrcvd
            /\ w.ncomplete = a.ncomplete /\ w.last_nr = a.last_nr
        BY DEF View
      <4>2. /\ x.state = t1.state /\ x.ep = t1.ep /\ x.local_rw = t1.local_rw /\ x.remote_rw = t1.remote_rw
            /\ x.next_tx_seq = t1.next_tx_seq /\ x.rcvd_ack_seq = t1.rcvd_ack_seq /\ x.next_rx_seq = t1.next_rx_seq
            /\ x.sent_ack_seq = t1.sent_ack_seq /\ x.i_xmit_q = t1.i_xmit_q /\ x.nsent = t1.nsent /\ x.nrcvd = t1.nrcvd
            /\ x.ncomplete = t1.ncomplete /\ x.last_nr = t1.last_nr
        BY DEF View
      <4>3. w = NewView BY <1>8
      <4> HIDE DEF w, x
      <4> QED BY <3>1, <4>1, <4>2, <4>3
    <3>6. /\ y \in Views
          /\ y.state = "W4_REMOTE_RESP" /\ y.ep = nep + 1 /\ y.local_rw = RW[Client] /\ y.remote_rw = NewView.remote_rw
          /\ y.next_tx_seq = NewView.next_tx_seq /\ y.rcvd_ack_seq = NewView.rcvd_ack_seq
          /\ y.next_rx_seq = NewView.next_rx_seq /\ y.sent_ack_seq = NewView.sent_ack_seq
          /\ y.i_xmit_q = NewView.i_xmit_q /\ y.nsent = NewView.nsent /\ y.nrcvd = NewView.nrcvd
          /\ y.ncomplete = NewView.ncomplete /\ y.last_nr = NewView.last_nr
      <4>1. y \in Views /\ y.state = "W4_REMOTE_RESP" /\ y.ep = nep + 1 /\ y.local_rw = RW[Client] BY <1>1, AskingIs
      <4>2. NewView \in Views BY NewViewIs
      <4>3. y = [NewView EXCEPT !.local_rw = RW[Client], !.ep = nep + 1, !.state = "W4_REMOTE_RESP"] BY DEF Asking
      <4> HIDE DEF y
      <4> QED BY <4>1, <4>2, <4>3 DEF Views
    <3> HIDE DEF x, y
    <3>7. x = y BY <3>4, <3>5, <3>6, ViewsEqual
    <3>8. t = t1 BY <1>9 DEF t1
    <3> QED BY <1>8, <3>3, <3>7, <3>8 DEF x, y
  <2> HIDE DEF t
  <2>2. Local(View(t)) BY <1>1, <2>1, AskingIs
  <2>3. ASSUME Reliable PROVE Jointly(nep + 1, Client, View(t), Stream(t), o, qo)
    <3>1. Joint(nep, RW, v, q, o, qo) BY <1>1, <2>3 DEF Jointly
    <3> HIDE DEF v, q, o, qo
    <3>2. Joint(nep + 1, RW, Asking(RW, nep), Append(q, p), o, qo) BY <1>1, <1>3, <1>7, <3>1, ClientAsks
    <3> QED BY <2>1, <3>2 DEF Jointly
  <2> QED BY <1>0, <1>1, <1>2, <1>3, <1>5, <2>2, <2>3, OInvNext
<1>10. CASE ~k.pdu
  <2>1. k.pdu \in PoolOutcomes BY DEF Choice
  <2>2. ~Reliable BY <1>10, <2>1, NoBuffer
  <2>3. t = s BY <1>10
  <2> HIDE DEF t
  <2>4. Local(View(t)) BY <1>6, <2>3, NewViewIs
  <2> QED BY <1>0, <1>1, <1>2, <1>3, <1>5, <2>2, <2>4, OInvNext
<1> QED BY <1>9, <1>10

(* The view of a device that accepts a connection. *)
LEMMA AcceptsIs ==
    ASSUME NEW v \in Views, Local(v), v.state = "W4_LOCAL_RESP", NEW r \in SeqNum,
           NEW v2, v2 = [v EXCEPT !.local_rw = r, !.state = "CONNECTED"]
    PROVE  v2 \in Views /\ Local(v2)
<1>1. v2 \in Views BY DEF Views, DLC_STATE
<1>2. /\ v2.state = "CONNECTED" /\ v2.remote_rw = v.remote_rw
      /\ v2.next_tx_seq = v.next_tx_seq /\ v2.rcvd_ack_seq = v.rcvd_ack_seq
      /\ v2.i_xmit_q = v.i_xmit_q /\ v2.nsent = v.nsent
  BY DEF Views
<1>3. Local(v2) BY <1>2 DEF Local, Open, Vs
<1> QED BY <1>1, <1>3

(* The server's upper layer accepts the connection. *)
LEMMA ConnectCfmOrders == ASSUME OInv, NEW n \in Node, ConnectCfm(n) PROVE OInv'
<1> DEFINE s == node[n]  v == View(s)  q == Stream(s)  o == View(node[Peer(n)])  qo == Stream(node[Peer(n)])
           s1 == [s EXCEPT !.local_rw = RW[n], !.state = "CONNECTED"]
           s2 == IF s1.overall_rx_congested THEN SetFlag(s1, "PENDING_RR_RNR") ELSE s1
           p == [NewPdu("CC", s1.ep) EXCEPT !.rw = RW[n]]
           v2 == [v EXCEPT !.local_rw = RW[n], !.state = "CONNECTED"]
<1>1. /\ s \in ControlBlock /\ v \in Views /\ q \in Seq(Pdu) /\ Local(v) /\ o \in Views /\ Local(o) /\ qo \in Seq(Pdu)
      /\ nep \in Nat
      /\ Reliable => Jointly(nep, n, v, q, o, qo)
  BY OInvIs
<1>2. IInv' BY ConnectCfmKeeps DEF OInv
<1>3. RW[n] \in SeqNum /\ v.state = "W4_LOCAL_RESP" /\ s.state = "W4_LOCAL_RESP"
  <2>1. RW \in [Node -> SeqNum] BY EnvType DEF OInv, IInv
  <2> QED BY <1>1, <2>1, ViewIs DEF ConnectCfm
<1>4. PICK c \in Choice : Update(n, IF c.pdu THEN CheckSendData(Enqueue(s2, p), c) ELSE DeallocateDataLink(s2))
  BY DEF ConnectCfm
<1>5. s1 \in ControlBlock /\ s1.sig_xmit_q = s.sig_xmit_q /\ s1.out = s.out /\ s1.symm_state = s.symm_state
      /\ s1.ep = s.ep /\ s1.state = "CONNECTED"
  BY <1>1, <1>3 DEF ControlBlock, DLC_STATE
<1>6. View(s1) = v2
  <2> DEFINE s0 == [s EXCEPT !.local_rw = RW[n]]  v0 == [v EXCEPT !.local_rw = RW[n]]
  <2>1. s0 \in ControlBlock BY <1>1, <1>3 DEF ControlBlock
  <2>2. View(s0) = v0
    <3>1. s0.state = s.state /\ s0.ep = s.ep /\ s0.local_rw = RW[n] /\ s0.remote_rw = s.remote_rw /\ s0.next_tx_seq = s.next_tx_seq /\ s0.rcvd_ack_seq = s.rcvd_ack_seq /\ s0.next_rx_seq = s.next_rx_seq /\ s0.sent_ack_seq = s.sent_ack_seq /\ s0.i_xmit_q = s.i_xmit_q /\ s0.nsent = s.nsent /\ s0.nrcvd = s.nrcvd /\ s0.ncomplete = s.ncomplete /\ s0.last_nr = s.last_nr
      BY <1>1 DEF ControlBlock
    <3> HIDE DEF s0
    <3> QED BY <3>1 DEF View
  <2>3. s1 = [s0 EXCEPT !.state = "CONNECTED"] /\ v2 = [v0 EXCEPT !.state = "CONNECTED"] OBVIOUS
  <2> HIDE DEF s0, v0, s1, v2
  <2> QED BY <2>1, <2>2, <2>3, ViewExcept
<1>7. p \in Confirms /\ p.rw = RW[n] /\ p.ep = v.ep
  <2>1. s1.ep \in Nat BY <1>5 DEF ControlBlock
  <2> HIDE DEF s1
  <2>2. NewPdu("CC", s1.ep) \in Pdu BY <2>1, NewPduType DEF PTYPE
  <2>3. NewPdu("CC", s1.ep).ptype = "CC" /\ NewPdu("CC", s1.ep).ep = s1.ep BY DEF NewPdu
  <2>4. v.ep = s.ep BY <1>1, ViewIs
  <2> QED BY <1>3, <1>5, <2>2, <2>3, <2>4 DEF Pdu, Confirms
<1> HIDE DEF p, s1
<1>8. Same(s1, s2) /\ s2 \in ControlBlock /\ s2.symm_state = s1.symm_state /\ s2.state = s1.state
  <2>1. Same(s1, s1) /\ Same(s1, SetFlag(s1, "PENDING_RR_RNR")) BY <1>5, FlagSame, SameTrans
  <2>2. Stays(s1, SetFlag(s1, "PENDING_RR_RNR")) BY <1>5, SetFlagStays DEF FLAG
  <2>3. SetFlag(s1, "PENDING_RR_RNR").state = s1.state BY <1>5 DEF SetFlag, ControlBlock
  <2> QED BY <1>5, <2>1, <2>2, <2>3 DEF Stays
<1> HIDE DEF s2
<1>9. View(s2) = v2 /\ Stream(s2) = q /\ s2.out = s.out BY <1>5, <1>6, <1>8 DEF Same, Stream, Wire
<1>10. Local(v2) /\ v2 \in Views
  <2> HIDE DEF v
  <2> QED BY <1>1, <1>3, AcceptsIs
<1>11. ASSUME Reliable PROVE Jointly(nep, n, v2, Append(q, p), o, qo)
  <2>1. Jointly(nep, n, v, q, o, qo) BY <1>1, <1>11
  <2>2. n # Client /\ n = Server
    <3>1. n # Client BY <1>3, <2>1 DEF Jointly, Joint, Sides
    <3> QED BY <3>1 DEF Node
  <2>3. Joint(nep, RW, o, qo, v, q) BY <2>1, <2>2 DEF Jointly
  <2>4. v2 = [v EXCEPT !.local_rw = RW[Server], !.state = "CONNECTED"] BY <2>2
  <2>5. p.rw = RW[Server] /\ RW[Server] \in SeqNum BY <1>3, <1>7, <2>2
  <2> HIDE DEF v, q, o, qo, v2
  <2>6. Joint(nep, RW, o, qo, v2, Append(q, p)) BY <1>1, <1>3, <1>7, <2>3, <2>4, <2>5, ServerAccepts
  <2> QED BY <2>2, <2>6 DEF Jointly
<1> HIDE DEF v2
<1>12. CASE c.pdu
  <2> DEFINE t == CheckSendData(Enqueue(s2, p), c)
  <2>1. s2.symm_state = "LOCAL_XMIT_NEXT" => s2.out = <<>> BY <1>5, <1>8, <1>9, TurnIsFree DEF OInv
  <2>2. p \in Pdu BY <1>7, ConfirmIs
  <2>3. Goes(n, View(s2), Append(Stream(s2), p), View(t), Stream(t)) BY <1>8, <2>1, <2>2, QueuedSends
  <2>4. Append(q, p) \in Seq(Pdu) BY <1>1, <2>2
  <2>5. Goes(n, v2, Append(q, p), View(t), Stream(t)) BY <1>9, <2>3
  <2>6. Update(n, t) BY <1>4, <1>12
  <2> HIDE DEF t, q, v, o, qo, s
  <2>7. Local(View(t)) /\ (Reliable => Jointly(nep, n, View(t), Stream(t), o, qo))
    BY <1>1, <1>10, <1>11, <2>4, <2>5 DEF Goes
  <2> QED BY <1>2, <2>6, <2>7, OInvUpdate DEF o, qo
<1>13. CASE ~c.pdu
  <2> DEFINE t == DeallocateDataLink(s2)
  <2>1. ~Reliable
    <3>1. c.pdu \in PoolOutcomes BY DEF Choice
    <3> QED BY <1>13, <3>1, NoBuffer
  <2>2. Local(View(t)) BY <1>8, <1>9, <1>10, DeallocateIs, NewViewIs
  <2>3. Update(n, t) BY <1>4, <1>13
  <2> HIDE DEF t
  <2> QED BY <1>2, <2>1, <2>2, <2>3, OInvUpdate
<1> QED BY <1>12, <1>13

(* The upper layer sends an SDU. *)
LEMMA SendDataOrders == ASSUME OInv, NEW n \in Node, SendData(n) PROVE OInv'
<1> DEFINE s == node[n]  v == View(s)
           z == Append(s.i_xmit_q, s.nsent + 1)  k == s.nsent + 1
           s1 == [s EXCEPT !.i_xmit_q = z, !.nsent = k]
<1>1. s \in ControlBlock BY OInvIs
<1>2. IInv' BY SendDataKeeps DEF OInv
<1>3. s.state = "CONNECTED" BY DEF SendData, Connected
<1>4. PICK c \in Choice :
        LET s2 == CheckSendData(s1, c)
            congested == \/ s2.is_tx_congested
                         \/ s2.overall_tx_congested
                         \/ s2.remote_busy
                         \/ Len(s2.i_xmit_q) >= s2.remote_rw
        IN Update(n, [s2 EXCEPT !.is_tx_congested = congested, !.told = @ \/ congested])
  BY DEF SendData
<1> DEFINE s2 == CheckSendData(s1, c)
           congested == \/ s2.is_tx_congested
                        \/ s2.overall_tx_congested
                        \/ s2.remote_busy
                        \/ Len(s2.i_xmit_q) >= s2.remote_rw
           t == [s2 EXCEPT !.is_tx_congested = congested, !.told = @ \/ congested]
<1>5. Update(n, t) BY <1>4
<1>6. s1 \in ControlBlock /\ s1.sig_xmit_q = s.sig_xmit_q /\ s1.out = s.out /\ s1.symm_state = s.symm_state
  <2>1. s.i_xmit_q \in Seq(Nat) /\ s.nsent \in Nat BY <1>1 DEF ControlBlock
  <2>2. z \in Seq(Nat) /\ k \in Nat BY <2>1
  <2> HIDE DEF z, k
  <2> QED BY <1>1, <2>2 DEF ControlBlock
<1>7. Queued(v, View(s1))
  <2>1. v.state = "CONNECTED" /\ v.i_xmit_q = s.i_xmit_q /\ v.nsent = s.nsent BY <1>1, <1>3, ViewIs
  <2>2. View(s1) = [v EXCEPT !.i_xmit_q = z, !.nsent = k]
    <3> HIDE DEF z, k
    <3> DEFINE s0 == [s EXCEPT !.i_xmit_q = z]  v0 == [v EXCEPT !.i_xmit_q = z]
    <3>1. s0.state = s.state /\ s0.ep = s.ep /\ s0.local_rw = s.local_rw /\ s0.remote_rw = s.remote_rw /\ s0.next_tx_seq = s.next_tx_seq /\ s0.rcvd_ack_seq = s.rcvd_ack_seq /\ s0.next_rx_seq = s.next_rx_seq /\ s0.sent_ack_seq = s.sent_ack_seq /\ s0.i_xmit_q = z /\ s0.nsent = s.nsent /\ s0.nrcvd = s.nrcvd /\ s0.ncomplete = s.ncomplete /\ s0.last_nr = s.last_nr
      BY <1>1 DEF ControlBlock
    <3>2. s1.state = s0.state /\ s1.ep = s0.ep /\ s1.local_rw = s0.local_rw /\ s1.remote_rw = s0.remote_rw /\ s1.next_tx_seq = s0.next_tx_seq /\ s1.rcvd_ack_seq = s0.rcvd_ack_seq /\ s1.next_rx_seq = s0.next_rx_seq /\ s1.sent_ack_seq = s0.sent_ack_seq /\ s1.i_xmit_q = s0.i_xmit_q /\ s1.nsent = k /\ s1.nrcvd = s0.nrcvd /\ s1.ncomplete = s0.ncomplete /\ s1.last_nr = s0.last_nr
      BY <1>1 DEF ControlBlock
    <3>3. [v EXCEPT !.i_xmit_q = z, !.nsent = k] = [v0 EXCEPT !.nsent = k] OBVIOUS
    <3> HIDE DEF s0, s1
    <3>4. View(s0) = v0 BY <3>1 DEF View
    <3>5. View(s1) = [View(s0) EXCEPT !.nsent = k] BY <3>2 DEF View
    <3> QED BY <3>3, <3>4, <3>5
  <2>3. [v EXCEPT !.i_xmit_q = z, !.nsent = k] = [v EXCEPT !.i_xmit_q = Append(@, v.nsent + 1), !.nsent = @ + 1]
    <3> HIDE DEF v
    <3> QED BY <2>1
  <2> HIDE DEF v, z, k
  <2> QED BY <2>1, <2>2, <2>3 DEF Queued
<1> HIDE DEF s1
<1>8. Sends(n, s, s1)
  <2>1. Stream(s1) = Stream(s) BY <1>6 DEF Stream, Wire
  <2>2. Goes(n, v, Stream(s), View(s1), Stream(s)) BY <1>7, GoesRests DEF Rests
  <2> QED BY <2>1, <2>2 DEF Sends
<1>9. Sends(n, s1, s2) /\ s2 \in ControlBlock
  <2>1. s1.symm_state = "LOCAL_XMIT_NEXT" => s1.out = <<>> BY <1>6, TurnIsFree DEF OInv
  <2> QED BY <1>6, <2>1, CheckSendDataSends, CheckSendDataHandled, HandledType
<1> HIDE DEF s2
<1>10. Same(s2, t)
  <2> HIDE DEF congested
  <2> QED BY <1>9 DEF Same, View, ControlBlock
<1> HIDE DEF t
<1>11. Sends(n, s, t) BY <1>8, <1>9, <1>10, SendsTrans
<1> QED BY <1>2, <1>5, <1>11, OInvSends

(* A device whose step leaves the view and the streams as they were. *)
LEMMA OInvSame ==
    ASSUME OInv, IInv', NEW n \in Node, NEW t, Update(n, t), Same(node[n], t) PROVE OInv'
<1>1. Sends(n, node[n], t) BY SendsTrans
<1> QED BY <1>1, OInvSends

(* The upper layer asks whether it may send. *)
LEMMA IsDataLinkCongestedOrders ==
    ASSUME OInv, NEW n \in Node, NEW pending \in 0..1, IsDataLinkCongested(n, pending) PROVE OInv'
<1> DEFINE s == node[n]
           full == \/ pending + Len(s.i_xmit_q) >= s.remote_rw
                   \/ pending + Len(s.i_xmit_q) >= MaxTxBuff
           t1 == [s EXCEPT !.told = TRUE]
           t2 == [s EXCEPT !.is_tx_congested = full, !.told = full]
           t == IF s.is_tx_congested \/ s.remote_busy THEN t1 ELSE t2
<1>1. s \in ControlBlock BY OInvIs
<1>2. IInv' BY IsDataLinkCongestedKeeps DEF OInv
<1>3. Update(n, t) BY DEF IsDataLinkCongested
<1>4. Same(s, t1) BY <1>1 DEF Same, View, ControlBlock
<1>5. Same(s, t2)
  <2> HIDE DEF full
  <2> QED BY <1>1 DEF Same, View, ControlBlock
<1>6. Same(s, t)
  <2> HIDE DEF t1, t2
  <2> QED BY <1>4, <1>5
<1> HIDE DEF t
<1> QED BY <1>2, <1>3, <1>6, OInvSame

(* LLCP_FlushDataLinkRxData. *)
LEMMA FlushRxDataOrders == ASSUME OInv, NEW n \in Node, FlushRxData(n) PROVE OInv'
<1>1. node[n] \in ControlBlock BY OInvIs
<1>2. IInv' BY FlushRxDataKeeps DEF OInv
<1> QED BY <1>1, <1>2, FlushSame, OInvSame DEF FlushRxData

(* LLCP_SetTxCompleteNtf. *)
LEMMA SetTxCompleteNtfOrders == ASSUME OInv, NEW n \in Node, SetTxCompleteNtf(n) PROVE OInv'
<1>1. node[n] \in ControlBlock BY OInvIs
<1>2. IInv' BY SetTxCompleteNtfKeeps DEF OInv
<1> QED BY <1>1, <1>2, FlagSame, OInvSame DEF SetTxCompleteNtf

(* LLCP_SetLocalBusyStatus. *)
LEMMA SetLocalBusyStatusOrders ==
    ASSUME OInv, NEW n \in Node, NEW busy \in BOOLEAN, SetLocalBusyStatus(n, busy) PROVE OInv'
<1> DEFINE s == node[n]
           s0 == [s EXCEPT !.local_busy = busy]
           s1 == SetFlag(s0, "PENDING_RR_RNR")
           r == IF ~busy /\ s.i_rx_q # <<>> /\ Connected(s) THEN [s1 EXCEPT !.ind = TRUE] ELSE s1
<1>1. s \in ControlBlock BY OInvIs
<1>2. IInv' BY SetLocalBusyStatusKeeps DEF OInv
<1>3. Update(n, r) BY DEF SetLocalBusyStatus
<1> HIDE DEF s
<1>4. s0 \in ControlBlock /\ Same(s, s0) BY <1>1 DEF Same, View, ControlBlock
<1> HIDE DEF s0
<1>5. s1 \in ControlBlock /\ Same(s, s1)
  <2>1. Stays(s0, s1) BY <1>4, SetFlagStays DEF FLAG
  <2> QED BY <1>4, <2>1, FlagSame, SameTrans DEF Stays
<1> HIDE DEF s1
<1>6. Same(s1, [s1 EXCEPT !.ind = TRUE]) BY <1>5 DEF Same, View, ControlBlock
<1>7. Same(s, r) BY <1>5, <1>6, SameTrans
<1> HIDE DEF r
<1> QED BY <1>2, <1>3, <1>7, OInvSame DEF s

(* LLCP_ReadDataLinkData. *)
LEMMA ReadDataLinkDataOrders == ASSUME OInv, NEW n \in Node, ReadDataLinkData(n) PROVE OInv'
<1> DEFINE s == node[n]
           q == s.i_rx_q
           s1 == IF q = <<>> THEN s ELSE [s EXCEPT !.num_rx_i_pdu = @ - 1]
           t1 == [s1 EXCEPT !.i_rx_q = Tail(q)]
           t2 == [s1 EXCEPT !.i_rx_q[1] = Tail(@)]
           s2 == CASE q = <<>> -> s1
                   [] q # <<>> /\ Len(q[1]) = 1 -> CheckRxCongestedStatus(t1)
                   [] q # <<>> /\ Len(q[1]) # 1 -> t2
           s2f == [s2 EXCEPT !.is_rx_congested = FALSE]
           s3 == IF /\ ~s.local_busy /\ s.is_rx_congested
                    /\ s1.num_rx_i_pdu <= RxCongestThreshold \div 2
                   THEN SetFlag(s2f, "PENDING_RR_RNR") ELSE s2
           r == [s3 EXCEPT !.ind = @ /\ s3.i_rx_q # <<>>]
           In(t) == t \in ControlBlock /\ Same(s, t)
<1>1. s \in ControlBlock BY OInvIs
<1>2. IInv' BY ReadDataLinkDataKeeps DEF OInv
<1>3. Update(n, r) BY DEF ReadDataLinkData
<1> HIDE DEF s
<1>4. q \in Seq(Buffer) /\ s.num_rx_i_pdu \in Int BY <1>1 DEF ControlBlock
<1>5. In(s1) /\ s1.i_rx_q = q
  <2>1. ASSUME NEW i \in Int
        PROVE  LET t == [s EXCEPT !.num_rx_i_pdu = i] IN In(t) /\ t.i_rx_q = q
    BY <1>1 DEF ControlBlock, Same, View
  <2>2. s.num_rx_i_pdu - 1 \in Int BY <1>4
  <2> QED BY <2>1, <2>2, <1>1, SameTrans
<1> HIDE DEF s1
<1>6. ASSUME NEW z \in Seq(Buffer) PROVE In([s1 EXCEPT !.i_rx_q = z])
  <2>1. [s1 EXCEPT !.i_rx_q = z] \in ControlBlock BY <1>5 DEF ControlBlock
  <2>2. Same(s1, [s1 EXCEPT !.i_rx_q = z]) BY <1>5 DEF ControlBlock, Same, View
  <2> QED BY <1>5, <2>1, <2>2, SameTrans
<1>7. ASSUME q # <<>> PROVE In(t1) /\ (Len(q[1]) # 1 => In(t2))
  <2> DEFINE z == [q EXCEPT ![1] = Tail(@)]
  <2>1. Tail(q) \in Seq(Buffer) BY <1>4, <1>7, HeadTailProperties
  <2>2. ASSUME Len(q[1]) # 1 PROVE z \in Seq(Buffer)
    <3>1. 1 \in 1..Len(q) BY <1>4, <1>7, EmptySeq
    <3>2. q[1] \in Buffer BY <1>4, <3>1, ElementOfSeq
    <3>3. q[1] \in Seq(Nat) /\ q[1] # <<>> BY <3>2 DEF Buffer
    <3>4. Len(q[1]) \in Nat \ {0} BY <3>3, EmptySeq
    <3>5. Tail(q[1]) \in Seq(Nat) /\ Len(Tail(q[1])) = Len(q[1]) - 1 BY <3>3, HeadTailProperties
    <3>6. Len(Tail(q[1])) # 0 BY <2>2, <3>4, <3>5
    <3>7. Tail(q[1]) # <<>> BY <3>6, EmptySeq
    <3>8. Tail(q[1]) \in Buffer BY <3>5, <3>7 DEF Buffer
    <3> QED BY <1>4, <3>1, <3>8, ExceptSeq
  <2>3. t2 = [s1 EXCEPT !.i_rx_q = z] BY <1>5
  <2> HIDE DEF q, z, In
  <2> QED BY <1>6, <2>1, <2>2, <2>3
<1> HIDE DEF t1, t2
<1>8. In(s2)
  <2>1. \/ s2 = s1
        \/ q # <<>> /\ s2 = CheckRxCongestedStatus(t1)
        \/ q # <<>> /\ Len(q[1]) # 1 /\ s2 = t2
    <3> HIDE DEF q, In
    <3> QED OBVIOUS
  <2> HIDE DEF q, s2
  <2>2. ASSUME In(t1) PROVE In(CheckRxCongestedStatus(t1))
    <3>1. Stays(t1, CheckRxCongestedStatus(t1)) BY <2>2, CheckRxStays
    <3>2. Same(t1, CheckRxCongestedStatus(t1)) BY <2>2, CheckRxSame
    <3> QED BY <2>2, <3>1, <3>2, SameTrans DEF Stays
  <2> HIDE DEF In
  <2> QED BY <1>5, <1>7, <2>1, <2>2
<1> HIDE DEF s2
<1>9. In(s2f)
  <2>1. s2f \in ControlBlock /\ Same(s2, s2f) BY <1>8 DEF ControlBlock, Same, View
  <2> QED BY <1>8, <2>1, SameTrans
<1> HIDE DEF s2f
<1>10. In(s3)
  <2>1. Stays(s2f, SetFlag(s2f, "PENDING_RR_RNR")) BY <1>9, SetFlagStays DEF FLAG
  <2>2. Same(s2f, SetFlag(s2f, "PENDING_RR_RNR")) BY <1>9, FlagSame
  <2>3. In(SetFlag(s2f, "PENDING_RR_RNR")) BY <1>9, <2>1, <2>2, SameTrans DEF Stays
  <2> HIDE DEF In
  <2> QED BY <1>8, <2>3
<1> HIDE DEF s3
<1>11. ASSUME NEW x PROVE Same(s3, [s3 EXCEPT !.ind = x]) BY <1>10 DEF ControlBlock, Same, View
<1>12. Same(s, r) BY <1>10, <1>11, SameTrans
<1> HIDE DEF r
<1> QED BY <1>2, <1>3, <1>12, OInvSame DEF s

(* LLCP_DisconnectReq. *)
LEMMA DisconnectReqOrders ==
    ASSUME OInv, NEW n \in Node, NEW flush, DisconnectReq(n, flush) PROVE OInv'
<1> DEFINE s == node[n]  a == EnterW4RemoteDm(s, TRUE)  b == EnterW4RemoteDm(s, FALSE)
           f == SetFlag(s, "PENDING_DISC")
<1>1. s \in ControlBlock BY OInvIs
<1>2. IInv' BY DisconnectReqKeeps DEF OInv
<1>3. Connected(s) BY DEF DisconnectReq
<1>4. PICK c \in Choice : \/ c.pdu /\ Update(n, CheckSendData(a, c))
                          \/ ~c.pdu /\ Update(n, b)
                          \/ Update(n, f)
  BY DEF DisconnectReq
<1>5. s.symm_state = "LOCAL_XMIT_NEXT" => s.out = <<>> BY TurnIsFree DEF OInv
<1>6. c.pdu \in PoolOutcomes /\ c.pdu \in BOOLEAN BY EnvAssumption DEF Choice
<1> HIDE DEF s
<1>7. CASE c.pdu /\ Update(n, CheckSendData(a, c))
  <2>1. TRUE \in PoolOutcomes BY <1>6, <1>7
  <2>2. Moves(n, s, a) /\ a.out = s.out BY <1>1, <1>3, <2>1, EnterMoves
  <2>3. Stays(s, a) BY <1>1, EnterW4RemoteDmStays
  <2> HIDE DEF a
  <2>4. Sends(n, s, a) BY <1>1, <2>2, MovesGoes DEF Sends
  <2>5. Sends(n, a, CheckSendData(a, c)) BY <1>5, <2>3, CheckSendDataSends DEF Stays
  <2>6. Sends(n, s, CheckSendData(a, c)) BY <2>4, <2>5, SendsTrans
  <2> QED BY <1>2, <1>7, <2>6, OInvSends DEF s
<1>8. CASE ~c.pdu /\ Update(n, b)
  <2>1. FALSE \in PoolOutcomes BY <1>6, <1>8
  <2>2. Moves(n, s, b) /\ b.out = s.out BY <1>1, <1>3, <2>1, EnterMoves
  <2> HIDE DEF b
  <2>3. Sends(n, s, b) BY <1>1, <2>2, MovesGoes DEF Sends
  <2> QED BY <1>2, <1>8, <2>3, OInvSends DEF s
<1>9. CASE Update(n, f)
  <2>1. Same(s, f) BY <1>1, FlagSame
  <2> HIDE DEF f
  <2> QED BY <1>2, <1>9, <2>1, OInvSame DEF s
<1> QED BY <1>4, <1>7, <1>8, <1>9

-----------------------------------------------------------------------------
(* The invariant and what follows from it.                                 *)

(* The invariant holds when the link has been activated. *)
LEMMA InitOInv == ASSUME Init PROVE OInv
<1>1. IInv BY InitIInv
<1>2. ASSUME NEW n \in Node PROVE View(node[n]) = NewView /\ Stream(node[n]) = <<>> /\ node[n] \in ControlBlock
  <2>1. node[n] \in ControlBlock BY <1>1, NodeType
  <2>2. node[n] = InitNode(n) BY DEF Init
  <2>3. View(InitNode(n)) = NewView /\ InitNode(n).out = <<>> /\ InitNode(n).sig_xmit_q = <<>>
    BY DEF InitNode, View, NewView, NewBlock
  <2>4. Stream(InitNode(n)) = <<>>
    <3>1. Stream(InitNode(n)) = <<>> \o <<>> BY <2>3 DEF Stream, Wire
    <3> QED BY <3>1
  <2> QED BY <2>1, <2>2, <2>3, <2>4
<1>3. Sides(0, RW, NewView, <<>>, NewView) BY NewViewIs DEF Sides
<1>4. Nobody(NewView, <<>>, NewView, <<>>) BY NewViewIs DEF Nobody, All, After
<1>5. Joint(0, RW, NewView, <<>>, NewView, <<>>) BY <1>3, <1>4 DEF Joint
<1>6. nep = 0 BY DEF Init
<1>7. ASSUME NEW n \in Node
      PROVE  Holds(nep, n, View(node[n]), Stream(node[n]), View(node[Peer(n)]), Stream(node[Peer(n)]))
  <2>1. Peer(n) \in Node BY PeerFacts
  <2>2. View(node[n]) = NewView /\ Stream(node[n]) = <<>> BY <1>2
  <2>3. View(node[Peer(n)]) = NewView /\ Stream(node[Peer(n)]) = <<>> BY <1>2, <2>1
  <2>4. Jointly(0, n, NewView, <<>>, NewView, <<>>) BY <1>5 DEF Jointly
  <2>5. Holds(0, n, NewView, <<>>, NewView, <<>>) BY <2>4, NewViewIs DEF Holds
  <2> QED BY <1>6, <2>2, <2>3, <2>5
<1> QED BY <1>1, <1>7 DEF OInv

(* Every step keeps the invariant. *)
LEMMA NextOInv == ASSUME OInv, [Next]_vars PROVE OInv'
<1>1. CASE ConnectReq BY <1>1, ConnectReqOrders
<1>2. CASE LinkDeactivate BY <1>2, LinkDeactivateOrders
<1>3. ASSUME NEW n \in Node, Link(n) PROVE OInv'
  BY <1>3, RxPduOrders, RxEndOrders, SymmTimeoutOrders DEF Link
<1>4. ASSUME NEW n \in Node, Api(n) PROVE OInv'
  BY <1>4, ConnectCfmOrders, ConnectRejectOrders, SendDataOrders, IsDataLinkCongestedOrders,
     ReadDataLinkDataOrders, FlushRxDataOrders, DisconnectReqOrders, SetTxCompleteNtfOrders,
     SetLocalBusyStatusOrders DEF Api
<1>5. ASSUME NEW n \in Node, DataLinkTimeout(n) PROVE OInv'
  BY <1>5, DataLinkTimeoutOrders
<1>6. CASE UNCHANGED vars
  <2>1. IInv' BY <1>6, NextIInv DEF OInv
  <2>2. Client \in Node BY DEF Node
  <2>3. node' = node /\ nep' = nep /\ env' = env BY <1>6 DEF vars
  <2>4. LET s == node[Client]  u == node[Peer(Client)]
        IN  /\ Local(View(s)) /\ Local(View(u))
            /\ Reliable => Jointly(nep, Client, View(s), Stream(s), View(u), Stream(u))
    BY <2>2, OInvIs
  <2> QED BY <2>1, <2>2, <2>3, <2>4, OInvNext
<1> QED BY <1>1, <1>2, <1>3, <1>4, <1>5, <1>6 DEF Next

(* The inductive invariant is an invariant. *)
LEMMA OInvInvariant == Spec => []OInv
BY InitOInv, NextOInv, PTL DEF Spec

(* The PDU that a device processes next is the head of its peer's stream. *)
LEMMA NextIsHead ==
    ASSUME OInv, NEW n \in Node, HasNext(n)
    PROVE  LET q == Stream(node[Peer(n)])
           IN  q \in Seq(Pdu) /\ q # <<>> /\ NextPdu(n) = Head(q) /\ Head(q) \in Pdu
<1>1. node[Peer(n)] \in ControlBlock /\ Stream(node[Peer(n)]) \in Seq(Pdu) BY OInvIs
<1> QED BY <1>1, FrameRead DEF HasNext, NextPdu, InFlight

(* In every environment the invariant keeps the window. *)
LEMMA OInvWindow == ASSUME OInv PROVE WindowRespected
<1> SUFFICES ASSUME NEW n \in Node
             PROVE  Dist(node[n].next_tx_seq, node[n].rcvd_ack_seq) <= node[n].remote_rw
  BY DEF WindowRespected
<1>1. node[n] \in ControlBlock /\ Local(View(node[n])) BY OInvIs
<1> QED BY <1>1, ViewIs DEF Local

(* The I PDU that reaches an open connection is the next one. *)
LEMMA OInvData == ASSUME OInv, Reliable PROVE DataInOrder
<1> SUFFICES ASSUME NEW n \in Node, HasNext(n), NextPdu(n).ptype = "I", Connected(node[n])
             PROVE  /\ NextPdu(n).ep = node[n].ep
                    /\ NextPdu(n).sdu = node[n].nrcvd + 1
                    /\ NextPdu(n).ns = node[n].next_rx_seq
                    /\ Dist(NextPdu(n).ns, node[n].sent_ack_seq) < node[n].local_rw
                    /\ NrInRange(node[n], NextPdu(n).nr)
  BY DEF DataInOrder
<1> DEFINE s == node[n]  v == View(s)  q == Stream(s)  o == View(node[Peer(n)])  qo == Stream(node[Peer(n)])
           p == NextPdu(n)  v2 == Taken(v, p)
<1>1. /\ s \in ControlBlock /\ v \in Views /\ q \in Seq(Pdu) /\ Local(v) /\ o \in Views /\ Local(o) /\ qo \in Seq(Pdu)
      /\ nep \in Nat /\ Jointly(nep, n, v, q, o, qo)
  BY OInvIs
<1>2. qo # <<>> /\ p = Head(qo) /\ Head(qo) \in Infos BY NextIsHead DEF Infos
<1>3. v.state = "CONNECTED" BY <1>1, ViewIs DEF Connected
<1>4. /\ Takes(v, p, v2) /\ p.ns = v.next_rx_seq /\ p.sdu = v.nrcvd + 1 /\ p.ep = v.ep
      /\ Dist(p.ns, v.sent_ack_seq) < v.local_rw
  <2> HIDE DEF v, q, o, qo, p
  <2> QED BY <1>1, <1>2, <1>3, NodeTakes
<1>5. NrInRange(v, p.nr) BY <1>4 DEF Takes
<1> QED BY <1>1, <1>4, <1>5, ViewIs DEF NrInRange

(* So is an acknowledgement. *)
LEMMA OInvAck == ASSUME OInv, Reliable PROVE AckInRange
<1> SUFFICES ASSUME NEW n \in Node, HasNext(n), NextPdu(n).ptype \in {"RR", "RNR"}
             PROVE  NrInRange(node[n], NextPdu(n).nr)
  BY DEF AckInRange
<1> DEFINE s == node[n]  v == View(s)  q == Stream(s)  o == View(node[Peer(n)])  qo == Stream(node[Peer(n)])
           p == NextPdu(n)
<1>1. /\ s \in ControlBlock /\ v \in Views /\ q \in Seq(Pdu) /\ Local(v) /\ o \in Views /\ qo \in Seq(Pdu)
      /\ nep \in Nat /\ Jointly(nep, n, v, q, o, qo)
  BY OInvIs
<1>2. qo # <<>> /\ p = Head(qo) /\ Head(qo) \in Acks /\ Head(qo) \notin Infos BY NextIsHead DEF Infos, Acks
<1>3. AckRead(v, p, [v EXCEPT !.rcvd_ack_seq = p.nr])
  <2> HIDE DEF v, q, o, qo, p
  <2> QED BY <1>1, <1>2, NodeAckRead
<1>4. NrInRange(v, p.nr) BY <1>3 DEF AckRead
<1> QED BY <1>1, <1>4, ViewIs DEF NrInRange

(* The last N(R) that was sent is V(RA). *)
LEMMA OInvAckSent == ASSUME OInv, Reliable PROVE AckIsSent
<1> SUFFICES ASSUME NEW n \in Node PROVE node[n].last_nr = node[n].sent_ack_seq
  BY DEF AckIsSent
<1> DEFINE s == node[n]  v == View(s)
<1>1. s \in ControlBlock /\ Jointly(nep, n, v, Stream(s), View(node[Peer(n)]), Stream(node[Peer(n)])) BY OInvIs
<1>2. v.last_nr = v.sent_ack_seq BY <1>1 DEF Jointly, Joint, Sides
<1> QED BY <1>1, <1>2, ViewIs

(* What a device confirms to its upper layer, the peer has received. *)
LEMMA JointComplete ==
    ASSUME NEW e, NEW w, NEW c \in Views, Local(c), NEW s \in Views, Local(s), NEW qc, NEW qs,
           Joint(e, w, c, qc, s, qs), c.ep = s.ep
    PROVE  c.ncomplete <= s.nrcvd /\ s.ncomplete <= c.nrcvd
<1>1. ASSUME NEW x \in Views, Local(x), ~Open(x), NEW y \in Views PROVE x.ncomplete <= y.nrcvd
  <2>1. x.ncomplete = 0 /\ y.nrcvd \in Nat BY <1>1 DEF Local, Blank, Views
  <2> QED BY <2>1
<1>2. CASE Nobody(c, qc, s, qs) BY <1>1, <1>2 DEF Nobody, Open
<1>3. CASE Invited(w, c, qc, s, qs) BY <1>1, <1>3 DEF Invited, Open
<1>4. CASE Lone(w, c, qc, s, qs) BY <1>4 DEF Lone, Flow, Complete
<1>5. ASSUME NEW pre, NEW m, NEW q, Confirmed(w, c, qc, s, qs, pre, m, q)
      PROVE  c.ncomplete <= s.nrcvd /\ s.ncomplete <= c.nrcvd
  BY <1>5 DEF Confirmed, Lone, Flow, Complete
<1>6. CASE Joined(c, qc, s, qs) BY <1>6 DEF Joined, Pair, Ending, Flow, Complete
<1>7. ~ServerCloses(c, qc, s, qs) /\ ~ClientCloses(c, qc, s, qs) BY DEF ServerCloses, ClientCloses, Closing
<1> QED BY <1>2, <1>3, <1>4, <1>5, <1>6, <1>7 DEF Joint

(* The peer that reads a DISC which left nothing behind has received all.  *)
LEMMA JointDisc ==
    ASSUME NEW e, NEW w, NEW c \in Views, NEW s \in Views, NEW qc \in Seq(Pdu), NEW qs \in Seq(Pdu),
           Joint(e, w, c, qc, s, qs)
    PROVE  /\ (qc # <<>> /\ Head(qc) \in Discs /\ Head(qc).sdu > 0) => s.nrcvd = Head(qc).sdu
           /\ (qs # <<>> /\ Head(qs) \in Discs /\ Head(qs).sdu > 0) => c.nrcvd = Head(qs).sdu
<1> DEFINE Said(x, q, y) == (q # <<>> /\ Head(q) \in Discs /\ Head(q).sdu > 0) => y.nrcvd = Head(q).sdu
<1>1. ASSUME NEW p \in Discs
      PROVE  p \notin Infos \cup Plain /\ p \notin Plain /\ p \notin Late /\ p \notin Acks \cup Plain
             /\ p \notin Confirms /\ p \notin Resps
  BY DiscIs DEF Plain, Late
<1>2. ASSUME NEW x, NEW q \in Seq(Pdu), NEW y, NEW S, All(q, S), \A p \in Discs : p \notin S PROVE Said(x, q, y)
  <2>1. q # <<>> => Head(q) \in S BY <1>2, Shorter
  <2> QED BY <1>2, <2>1
<1>3. ASSUME NEW x, NEW q \in Seq(Pdu), NEW y, Complete(x, q, y) PROVE Said(x, q, y)
  <2>1. q # <<>> => 1 \in DOMAIN q /\ Head(q) = q[1] BY <1>3, TailIs
  <2> QED BY <1>3, <2>1 DEF Complete
<1>4. ASSUME NEW x \in Views, NEW qx, NEW y, NEW qy, NEW z, NEW pre, NEW m, NEW q, Closing(x, qx, y, qy, pre, m, q)
      PROVE  Said(y, qy, z)
  <2>0. m \in Resps BY <1>4 DEF Closing
  <2>1. CASE pre = <<>>
    <3>1. Head(qy) = m BY <1>4, <2>1, ClosingHead
    <3> QED BY <1>1, <2>0, <3>1
  <2>2. CASE pre # <<>>
    <3>1. Head(qy) \in Acks \cup Plain BY <1>4, <2>2, ClosingHead
    <3> QED BY <1>1, <3>1
  <2> QED BY <2>1, <2>2
<1>5. Nobody(c, qc, s, qs) \/ Invited(w, c, qc, s, qs) => Said(c, qc, s) /\ Said(s, qs, c)
  <2>1. All(qc, Infos \cup Plain) => Said(c, qc, s) BY <1>1, <1>2
  <2>2. All(qc, Plain) => Said(c, qc, s) BY <1>1, <1>2
  <2>3. All(qs, Late) => Said(s, qs, c) BY <1>1, <1>2
  <2> HIDE DEF Said
  <2> QED BY <2>1, <2>2, <2>3 DEF Nobody, Invited
<1>6. Lone(w, c, qc, s, qs) \/ Joined(c, qc, s, qs) => Said(c, qc, s) /\ Said(s, qs, c)
  <2>1. Lone(w, c, qc, s, qs) \/ Joined(c, qc, s, qs) => Complete(c, qc, s) /\ Complete(s, qs, c)
    BY DEF Lone, Joined, Pair, Ending, Flow
  <2> HIDE DEF Said
  <2> QED BY <1>3, <2>1
<1>7. ASSUME NEW pre, NEW m, NEW q, Confirmed(w, c, qc, s, qs, pre, m, q) PROVE Said(c, qc, s) /\ Said(s, qs, c)
  <2>1. /\ pre \in Seq(Late) /\ m \in Confirms /\ q \in Seq(Pdu) /\ qs = Mid(pre, m, q) /\ All(qc, Plain)
    BY <1>7 DEF Confirmed, Lone
  <2>2. Said(c, qc, s) BY <1>1, <1>2, <2>1
  <2>3. pre \in Seq(Pdu) /\ m \in Pdu
    <3>1. Late \subseteq Pdu /\ Confirms \subseteq Pdu BY DEF Late, Infos, Dms, Confirms
    <3> QED BY <2>1, <3>1
  <2>4. CASE pre = <<>>
    <3>1. Head(qs) = m BY <2>1, <2>3, <2>4, MidTail
    <3> QED BY <1>1, <2>1, <2>2, <3>1
  <2>5. CASE pre # <<>>
    <3>1. Head(pre) \in Late BY <2>1, <2>5
    <3>2. Head(qs) \in Late BY <2>1, <2>3, <2>5, <3>1, MidTail
    <3> QED BY <1>1, <2>2, <3>2
  <2> QED BY <2>4, <2>5
<1>8. ServerCloses(c, qc, s, qs) => Said(c, qc, s) /\ Said(s, qs, c)
  <2>1. ServerCloses(c, qc, s, qs) => All(qc, Late) BY DEF ServerCloses, Closing
  <2>2. All(qc, Late) => Said(c, qc, s) BY <1>1, <1>2
  <2>3. ServerCloses(c, qc, s, qs) => Said(s, qs, c)
    <3> HIDE DEF Said
    <3> QED BY <1>4 DEF ServerCloses
  <2> HIDE DEF Said
  <2> QED BY <2>1, <2>2, <2>3
<1>9. ClientCloses(c, qc, s, qs) => Said(c, qc, s) /\ Said(s, qs, c)
  <2>1. ClientCloses(c, qc, s, qs) => All(qs, Late) BY DEF ClientCloses, Closing
  <2>2. All(qs, Late) => Said(s, qs, c) BY <1>1, <1>2
  <2>3. ClientCloses(c, qc, s, qs) => Said(c, qc, s)
    <3> HIDE DEF Said
    <3> QED BY <1>4 DEF ClientCloses
  <2> HIDE DEF Said
  <2> QED BY <2>1, <2>2, <2>3
<1>10. Said(c, qc, s) /\ Said(s, qs, c)
  <2> HIDE DEF Said
  <2> QED BY <1>5, <1>6, <1>7, <1>8, <1>9 DEF Joint
<1> QED BY <1>10

(* LLCP_SAP_EVT_TX_COMPLETE is true. *)
LEMMA OInvTxComplete == ASSUME OInv, Reliable PROVE TxCompleteIsTrue
<1> SUFFICES ASSUME NEW n \in Node, node[n].ep = node[Peer(n)].ep
             PROVE  node[n].ncomplete <= node[Peer(n)].nrcvd
  BY DEF TxCompleteIsTrue
<1> DEFINE s == node[n]  v == View(s)  q == Stream(s)  u == node[Peer(n)]  o == View(u)  qo == Stream(u)
<1>1. /\ s \in ControlBlock /\ u \in ControlBlock /\ v \in Views /\ Local(v) /\ o \in Views /\ Local(o)
      /\ Jointly(nep, n, v, q, o, qo)
  BY OInvIs
<1>2. v.ep = o.ep /\ v.ncomplete = s.ncomplete /\ o.nrcvd = u.nrcvd BY <1>1, ViewIs
<1>3. v.ncomplete <= o.nrcvd
  <2> HIDE DEF v, q, o, qo
  <2> QED BY <1>1, <1>2, JointComplete DEF Jointly
<1> QED BY <1>2, <1>3

(* A DISC sent when nothing was pending finds a peer that has all. *)
LEMMA OInvCleanDisc == ASSUME OInv, Reliable PROVE CleanDisc
<1> SUFFICES ASSUME NEW n \in Node, HasNext(n), NextPdu(n).ptype = "DISC", NextPdu(n).sdu > 0
             PROVE  node[n].nrcvd = NextPdu(n).sdu
  BY DEF CleanDisc
<1> DEFINE s == node[n]  v == View(s)  q == Stream(s)  u == node[Peer(n)]  o == View(u)  qo == Stream(u)
<1>1. /\ s \in ControlBlock /\ v \in Views /\ o \in Views /\ q \in Seq(Pdu) /\ qo \in Seq(Pdu)
      /\ Jointly(nep, n, v, q, o, qo)
  BY OInvIs
<1>2. qo # <<>> /\ NextPdu(n) = Head(qo) /\ Head(qo) \in Discs BY NextIsHead DEF Discs
<1>3. v.nrcvd = s.nrcvd BY <1>1, ViewIs
<1>4. v.nrcvd = Head(qo).sdu
  <2>1. Head(qo).sdu > 0 BY <1>2
  <2> HIDE DEF v, q, o, qo
  <2> QED BY <1>1, <1>2, <2>1, JointDisc DEF Jointly
<1> QED BY <1>2, <1>3, <1>4

-----------------------------------------------------------------------------
(* Whatever the environment - losses of the link, no buffers, data link    *)
(* timers - no device ever has more unacknowledged I PDUs than the receive *)
(* window of its peer (llcp_dlc_is_rw_open).                               *)
THEOREM WindowKept == Spec => []WindowRespected
BY OInvInvariant, OInvWindow, PTL

(* With every buffer that is asked for and without data link time-outs the *)
(* sequence numbers keep the two devices together: each I PDU that reaches *)
(* an open connection is the next one and passes the N(S) and N(R) checks, *)
(* each RR and RNR passes the N(R) check, and every acknowledgement is     *)
(* sent, whatever the upper layers do and however often the link is lost.  *)
THEOREM DataInSequence == Spec => [](Reliable => InSequence)
<1>1. OInv => (Reliable => InSequence) BY OInvWindow, OInvData, OInvAck, OInvAckSent DEF InSequence
<1> QED BY <1>1, OInvInvariant, PTL

(* In the same environments what the upper layers are told is true: a      *)
(* transmission that is reported complete has been received by the peer,   *)
(* the peer that reads a DISC sent with nothing pending has received every *)
(* SDU, and data that waits to be read has been announced.                 *)
THEOREM ToldTrue == Spec => [](Reliable => DeliveredAsTold)
<1>1. OInv => (Reliable => TxCompleteIsTrue /\ CleanDisc) BY OInvTxComplete, OInvCleanDisc
<1>2. Reliable => Buffered BY DEF Reliable, Buffered
<1>3. TxCompleteIsTrue /\ CleanDisc /\ DataIndicated => DeliveredAsTold BY DEF DeliveredAsTold
<1> QED BY <1>1, <1>2, <1>3, OInvInvariant, DataAnnounced, PTL
=============================================================================
