--------------------------- MODULE LlcpLinkProofs ---------------------------
(***************************************************************************)
(* The link procedure of LlcpLink, for all values of the constants: types, *)
(* one turn, a watch over every link, and one report of its end.           *)
(*                                                                         *)
(* The argument.  Most of a handler is quiet: it changes queues, flags and *)
(* counters that the life of the link does not depend on.  What is not     *)
(* quiet either gives the turn away with exactly one frame (Sends), or     *)
(* takes it with the frame that is received, or ends the link (Ended).     *)
(* Soundness of a control block on its own (Sound), with the watch over    *)
(* its link (Watched) and the share that the device has in the turn        *)
(* (ShareIn: 1 with the turn, 1 for each frame of it on its way, and 1 for *)
(* the initiator of a connection that is being activated), makes every     *)
(* handler a lemma about one device (Moves); the invariant LinkInv adds    *)
(* that two devices whose links are activated have shares of sum 1.        *)
(***************************************************************************)
EXTENDS LlcpLink, SequenceTheorems, FiniteSetTheorems, WellFoundedInduction, TLAPS

-----------------------------------------------------------------------------
(* Recursive functions on 0..n, as the handlers use them for the loops of  *)
(* the code: f[0] is given and f[k] is made from f[k - 1].  The library's  *)
(* theorems about them take an operator as a parameter; these take the     *)
(* step as a function, and induction as a set.                             *)

(* step[k] makes a member of S from another. *)
Stepper(step, n, S) == step \in [1..n -> [S -> S]]

(* f goes through S from b on, by step. *)
Steps(f, step, n, S, b) ==
    f \in [0..n -> S] /\ f[0] = b /\ \A k \in 1..n : f[k] = step[k][f[k - 1]]

(* A set of naturals that is not empty has a least element. *)
LEMMA LeastOf ==
  ASSUME NEW B, B \subseteq Nat, B # {} PROVE \E m \in B : \A y \in B : m <= y
<1>1. PICK m \in B : \A y \in B : ~(<<y, m>> \in OpToRel(<, Nat)) BY WFMin, NatLessThanWellFounded
<1>2. \A y \in B : ~(y < m) BY <1>1 DEF OpToRel
<1> QED BY <1>2

(* A set that has 0 and the successors up to n has all of 0..n. *)
LEMMA UpTo ==
  ASSUME NEW n \in Nat, NEW P, 0 \in P, \A k \in 1..n : k - 1 \in P => k \in P
  PROVE  0..n \subseteq P
<1> SUFFICES ASSUME NEW x \in 0..n, x \notin P PROVE FALSE OBVIOUS
<1> DEFINE B == {k \in Nat : k \in 0..n /\ k \notin P}
<1>1. B # {} /\ B \subseteq Nat OBVIOUS
<1> HIDE DEF B
<1>2. PICK m \in B : \A y \in B : m <= y BY <1>1, LeastOf
<1>3. m \in Nat /\ m \in 0..n /\ m \notin P BY <1>2 DEF B
<1>4. m \in 1..n /\ m - 1 \in Nat /\ m - 1 \in 0..n BY <1>3
<1>5. m - 1 \notin B BY <1>2, <1>4
<1>6. m - 1 \in P BY <1>4, <1>5 DEF B
<1> QED BY <1>3, <1>4, <1>6

(* The recursive function exists. *)
LEMMA Recursion ==
  ASSUME NEW n \in Nat, NEW S, NEW b \in S, NEW step, Stepper(step, n, S)
  PROVE  \E f : Steps(f, step, n, S, b)
<1> DEFINE P == {m \in 0..n : \E f : Steps(f, step, m, S, b)}
<1>1. 0 \in P
  <2> DEFINE g == [i \in 0..0 |-> b]
  <2>1. g \in [0..0 -> S] /\ g[0] = b OBVIOUS
  <2>2. \A k \in 1..0 : FALSE OBVIOUS
  <2>3. 0 \in 0..n OBVIOUS
  <2> HIDE DEF g
  <2> QED BY <2>1, <2>2, <2>3 DEF Steps
<1>2. ASSUME NEW k \in 1..n, k - 1 \in P PROVE k \in P
  <2>1. PICK f : Steps(f, step, k - 1, S, b) BY <1>2
  <2>2. f \in [0..(k - 1) -> S] /\ f[0] = b /\ \A j \in 1..(k - 1) : f[j] = step[j][f[j - 1]] BY <2>1 DEF Steps
  <2> DEFINE g == [i \in 0..k |-> IF i = k THEN step[k][f[k - 1]] ELSE f[i]]
  <2>3. step[k][f[k - 1]] \in S BY <2>2 DEF Stepper
  <2>4. g \in [0..k -> S] BY <2>2, <2>3
  <2>5. g[0] = b BY <2>2
  <2>6. ASSUME NEW j \in 1..k PROVE g[j] = step[j][g[j - 1]]
    <3>1. CASE j = k BY <3>1
    <3>2. CASE j # k
      <4>1. j \in 1..(k - 1) /\ j - 1 \in 0..(k - 1) BY <3>2
      <4> QED BY <4>1, <2>2
    <3> QED BY <3>1, <3>2
  <2> HIDE DEF g
  <2>7. k \in 0..n OBVIOUS
  <2> QED BY <2>4, <2>5, <2>6, <2>7 DEF Steps
<1> HIDE DEF P
<1>3. n \in P BY <1>1, <1>2, UpTo
<1> QED BY <1>3 DEF P

-----------------------------------------------------------------------------

(* From s to t nothing changes that the life of the link depends on. *)
Quiet(s, t) ==
    /\ t \in ControlBlock
    /\ t.link_state = s.link_state /\ t.symm_state = s.symm_state /\ t.timer = s.timer
    /\ t.inact_timer = s.inact_timer /\ t.cback = s.cback /\ t.rf = s.rf
    /\ t.rx_started = s.rx_started /\ t.out = s.out /\ t.reports = s.reports

(* Nor is the last signalling PDU taken out. *)
Grows(s, t) == Quiet(s, t) /\ (s.sig_xmit_q # <<>> => t.sig_xmit_q # <<>>)

(* Quiet and Grows are preorders. *)
LEMMA QuietRefl == ASSUME NEW s \in ControlBlock PROVE Quiet(s, s) /\ Grows(s, s)
BY DEF Quiet, Grows

(* So a sequence of quiet changes is quiet. *)
LEMMA QuietTrans == ASSUME NEW s, NEW t, NEW u, Quiet(s, t), Quiet(t, u) PROVE Quiet(s, u)
BY DEF Quiet

(* And one of changes that keep the queue. *)
LEMMA GrowsTrans == ASSUME NEW s, NEW t, NEW u, Grows(s, t), Grows(t, u) PROVE Grows(s, u)
BY DEF Grows, Quiet

(* What is quiet is typed. *)
LEMMA QuietType == ASSUME NEW s, NEW t, Quiet(s, t) PROVE t \in ControlBlock
BY DEF Quiet

(* Every change that keeps the queue is quiet. *)
LEMMA GrowsQuiet == ASSUME NEW s, NEW t, Grows(s, t) PROVE Quiet(s, t) /\ t \in ControlBlock
BY DEF Grows, Quiet

(* The fields of a logical link. *)
LEMMA LinkFields ==
  ASSUME NEW s \in ControlBlock, NEW sap \in Sap
  PROVE  /\ s.ll \in [Sap -> LogicalLink] /\ s.ll[sap] \in LogicalLink
         /\ s.ll[sap].ui_xmit_q \in Seq(Pdu) /\ s.ll[sap].ui_rx_q \in Seq(RxBuffer)
         /\ s.ll[sap].pending \in Seq(Nat) /\ s.sig_xmit_q \in Seq(Pdu)
BY DEF ControlBlock, LogicalLink

(* The queues and flags of the logical links change. *)
LEMMA LinksQuiet ==
  ASSUME NEW s \in ControlBlock, NEW l \in [Sap -> LogicalLink]
  PROVE  Grows(s, [s EXCEPT !.ll = l])
BY DEF ControlBlock, Grows, Quiet

(* Assignments to fields that the life of the link does not depend on. *)
LEMMA FieldsQuiet ==
  ASSUME NEW s \in ControlBlock
  PROVE  /\ \A b \in BOOLEAN : Grows(s, [s EXCEPT !.overall_tx_congested = b])
         /\ \A q \in Seq(Pdu) : Quiet(s, [s EXCEPT !.sig_xmit_q = q])
         /\ \A q \in Seq(Pdu) : q # <<>> => Grows(s, [s EXCEPT !.sig_xmit_q = q])
         /\ \A q \in Seq(Item) : Grows(s, [s EXCEPT !.p_snl = q])
         /\ \A T \in SUBSET Nat : Grows(s, [s EXCEPT !.transac = T])
         /\ \A i \in Sap : Grows(s, [s EXCEPT !.ll_idx = i])
<1>1. ASSUME NEW b \in BOOLEAN PROVE Grows(s, [s EXCEPT !.overall_tx_congested = b]) BY DEF ControlBlock, Grows, Quiet
<1>2. ASSUME NEW q \in Seq(Pdu) PROVE Quiet(s, [s EXCEPT !.sig_xmit_q = q]) BY DEF ControlBlock, Quiet
<1>3. ASSUME NEW q \in Seq(Pdu), q # <<>> PROVE Grows(s, [s EXCEPT !.sig_xmit_q = q]) BY <1>3 DEF ControlBlock, Grows, Quiet
<1>4. ASSUME NEW q \in Seq(Item) PROVE Grows(s, [s EXCEPT !.p_snl = q]) BY DEF ControlBlock, Grows, Quiet
<1>5. ASSUME NEW T \in SUBSET Nat PROVE Grows(s, [s EXCEPT !.transac = T]) BY DEF ControlBlock, Grows, Quiet
<1>6. ASSUME NEW i \in Sap PROVE Grows(s, [s EXCEPT !.ll_idx = i]) BY DEF ControlBlock, Grows, Quiet
<1> QED BY <1>1, <1>2, <1>3, <1>4, <1>5, <1>6

(* Congestion. *)
LEMMA SetCongestedQuiet ==
  ASSUME NEW s \in ControlBlock, NEW saps, NEW v \in BOOLEAN PROVE Grows(s, SetCongested(s, saps, v))
<1> DEFINE l == [sap \in Sap |-> IF sap \in saps
                                   THEN [s.ll[sap] EXCEPT !.is_ui_tx_congested = v, !.nfa_congested = v]
                                   ELSE s.ll[sap]]
<1>1. ASSUME NEW sap \in Sap PROVE l[sap] \in LogicalLink BY LinkFields DEF LogicalLink
<1>2. l \in [Sap -> LogicalLink] BY <1>1
<1>3. SetCongested(s, saps, v) = [s EXCEPT !.ll = l] BY DEF SetCongested
<1> HIDE DEF l
<1> QED BY <1>2, <1>3, LinksQuiet

(* llcp_link_check_congestion, with the marks that the SAPs get, is quiet. *)
LEMMA CheckCongestionQuiet == ASSUME NEW s \in ControlBlock PROVE Grows(s, CheckCongestion(s))
<1> DEFINE s1 == [s EXCEPT !.overall_tx_congested = TRUE]
           S  == {sap \in Sap : ~s.ll[sap].is_ui_tx_congested}
<1>1. Grows(s, s1) BY FieldsQuiet
<1>2. CheckCongestion(s) \in {s, SetCongested(s1, S, TRUE)} BY DEF CheckCongestion
<1> HIDE DEF s1, S
<1>3. Grows(s1, SetCongested(s1, S, TRUE)) BY <1>1, GrowsQuiet, SetCongestedQuiet
<1> QED BY <1>1, <1>2, <1>3, GrowsTrans, QuietRefl

(* llcp_link_check_uncongested is quiet. *)
LEMMA CheckUncongestedQuiet == ASSUME NEW s \in ControlBlock PROVE Grows(s, CheckUncongested(s))
<1> DEFINE s1 == [s EXCEPT !.overall_tx_congested = FALSE]
           S  == {sap \in Sap : /\ s.ll[sap].is_ui_tx_congested
                                /\ Len(s.ll[sap].ui_xmit_q) <= env.ll_tx_congest_end}
<1>1. Grows(s, s1) BY FieldsQuiet
<1>2. CheckUncongested(s) \in {s, s1, SetCongested(s1, S, FALSE)} BY DEF CheckUncongested
<1> HIDE DEF s1, S
<1>3. Grows(s1, SetCongested(s1, S, FALSE)) BY <1>1, GrowsQuiet, SetCongestedQuiet
<1>4. Grows(s, s) /\ Grows(s, SetCongested(s1, S, FALSE)) BY <1>1, <1>3, GrowsTrans, QuietRefl
<1> QED BY <1>1, <1>2, <1>4
-----------------------------------------------------------------------------
(* Building the next transmission. *)

(* The PDUs of the link manager are typed. *)
LEMMA NewPduType ==
  ASSUME session \in Nat
  PROVE  /\ NewPdu("DISC") \in Pdu /\ NewPdu("SNL") \in Pdu
         /\ \A q \in Seq(Item) : [NewPdu("SNL") EXCEPT !.items = q] \in Pdu
         /\ \A sap \in Sap, k \in Nat : [NewPdu("UI") EXCEPT !.sap = sap, !.sdu = k] \in Pdu
<1>1. <<>> \in Seq(Item) OBVIOUS
<1> QED BY <1>1 DEF NewPdu, Pdu

(* A pending SNL goes to the signalling queue. *)
LEMMA CheckSendSnlQuiet ==
  ASSUME NEW s \in ControlBlock, session \in Nat PROVE Grows(s, CheckSendSnl(s))
<1> DEFINE p == [NewPdu("SNL") EXCEPT !.items = s.p_snl]
           q == Append(s.sig_xmit_q, p)
           s1 == [s EXCEPT !.p_snl = <<>>]
<1>1. s.p_snl \in Seq(Item) /\ s.sig_xmit_q \in Seq(Pdu) BY DEF ControlBlock
<1>2. p \in Pdu BY <1>1, NewPduType
<1> HIDE DEF p
<1>3. q \in Seq(Pdu) /\ q # <<>> BY <1>1, <1>2
<1>4. CheckSendSnl(s) \in {s, [s1 EXCEPT !.sig_xmit_q = q]} BY DEF CheckSendSnl, p
<1>5. <<>> \in Seq(Item) OBVIOUS
<1>6. Grows(s, s1) BY <1>5, FieldsQuiet
<1> HIDE DEF q, s1
<1>7. Grows(s1, [s1 EXCEPT !.sig_xmit_q = q]) BY <1>3, <1>6, GrowsQuiet, FieldsQuiet
<1> QED BY <1>4, <1>6, <1>7, GrowsTrans, QuietRefl

(* The sum of the queue lengths: zero only if every queue is empty. *)
LEMMA TotalTxUiZero ==
  ASSUME NEW s \in ControlBlock
  PROVE  /\ TotalTxUi(s) \in Nat
         /\ TotalTxUi(s) # 0 => \E sap \in Sap : s.ll[sap].ui_xmit_q # <<>>
<1> DEFINE len == [k \in 1..NumSaps |-> Len(s.ll[k].ui_xmit_q)]
           sum[k \in 0..NumSaps] == IF k = 0 THEN 0 ELSE sum[k - 1] + Len(s.ll[k].ui_xmit_q)
           step == [k \in 1..NumSaps |-> [x \in Nat |-> x + len[k]]]
<1>1. \A k \in 1..NumSaps : Len(s.ll[k].ui_xmit_q) \in Nat BY LinkFields DEF Sap
<1>2. PICK f : Steps(f, step, NumSaps, Nat, 0)
  <2>1. \A k \in 1..NumSaps : len[k] \in Nat BY <1>1
  <2> HIDE DEF len
  <2>2. Stepper(step, NumSaps, Nat) BY <2>1 DEF Stepper
  <2>3. 0 \in Nat OBVIOUS
  <2> HIDE DEF step
  <2> QED BY <2>2, <2>3, Recursion, SapAssumption
<1>3. f \in [0..NumSaps -> Nat] /\ f[0] = 0 /\ \A k \in 1..NumSaps : f[k] = step[k][f[k - 1]] BY <1>2 DEF Steps
<1>4. f = [k \in 0..NumSaps |-> IF k = 0 THEN 0 ELSE f[k - 1] + Len(s.ll[k].ui_xmit_q)]
  <2>1. ASSUME NEW k \in 0..NumSaps, k # 0 PROVE f[k] = f[k - 1] + Len(s.ll[k].ui_xmit_q)
    <3>1. k \in 1..NumSaps /\ k - 1 \in 0..NumSaps BY <2>1, SapAssumption
    <3>2. f[k - 1] \in Nat BY <1>3, <3>1
    <3> QED BY <1>3, <3>1, <3>2
  <2> QED BY <1>3, <2>1
<1> HIDE DEF step
<1>5. sum = [k \in 0..NumSaps |-> IF k = 0 THEN 0 ELSE sum[k - 1] + Len(s.ll[k].ui_xmit_q)] BY <1>4
<1> HIDE DEF sum
<1>6. sum[0] = 0 /\ \A k \in 1..NumSaps : sum[k] = sum[k - 1] + Len(s.ll[k].ui_xmit_q) BY <1>5, SapAssumption
<1>7. \A k \in 0..NumSaps : sum[k] \in Nat /\ (sum[k] # 0 => \E sap \in Sap : s.ll[sap].ui_xmit_q # <<>>)
  <2> DEFINE P == {k \in 0..NumSaps : sum[k] \in Nat /\ (sum[k] # 0 => \E sap \in Sap : s.ll[sap].ui_xmit_q # <<>>)}
  <2>1. 0 \in P BY <1>6, SapAssumption
  <2>2. ASSUME NEW k \in 1..NumSaps, k - 1 \in P PROVE k \in P
    <3>1. s.ll[k].ui_xmit_q \in Seq(Pdu) /\ k \in Sap BY LinkFields DEF Sap
    <3>2. CASE s.ll[k].ui_xmit_q = <<>>
      <4>1. sum[k] = sum[k - 1] BY <1>6, <2>2, <3>2
      <4> QED BY <2>2, <4>1
    <3>3. CASE s.ll[k].ui_xmit_q # <<>>
      <4>1. sum[k] \in Nat BY <1>1, <1>6, <2>2
      <4> QED BY <3>1, <3>3, <4>1
    <3> QED BY <3>2, <3>3
  <2> HIDE DEF P
  <2>3. 0..NumSaps \subseteq P BY <2>1, <2>2, UpTo, SapAssumption
  <2> QED BY <2>3 DEF P
<1>8. TotalTxUi(s) = sum[NumSaps] BY DEF TotalTxUi, sum
<1> QED BY <1>7, <1>8, SapAssumption

(* The round robin finds a SAP with something to send. *)
LEMMA NextSapFinds ==
  ASSUME NEW s \in ControlBlock, \E sap \in Sap : s.ll[sap].ui_xmit_q # <<>>
  PROVE  NextSap(s) \in Sap /\ s.ll[NextSap(s)].ui_xmit_q # <<>>
<1> DEFINE ds == {d \in 0..(NumSaps - 1) : s.ll[Cyclic(s, d)].ui_xmit_q # <<>>}
<1>1. s.ll_idx \in 1..NumSaps /\ NumSaps \in Nat \ {0} BY SapAssumption DEF ControlBlock, Sap
<1>2. ds # {}
  <2>1. PICK sap \in 1..NumSaps : s.ll[sap].ui_xmit_q # <<>> BY DEF Sap
  <2>2. CASE sap >= s.ll_idx
    <3>1. sap - s.ll_idx \in 0..(NumSaps - 1) /\ (s.ll_idx - 1 + (sap - s.ll_idx)) = sap - 1 BY <1>1, <2>2
    <3>2. sap - 1 \in 0..(NumSaps - 1) BY <1>1
    <3>3. (sap - 1) % NumSaps = sap - 1 BY <1>1, <3>2
    <3>4. Cyclic(s, sap - s.ll_idx) = sap BY <3>1, <3>3 DEF Cyclic
    <3> QED BY <2>1, <3>1, <3>4
  <2>3. CASE sap < s.ll_idx
    <3> DEFINE d == sap - s.ll_idx + NumSaps
    <3>1. d \in 0..(NumSaps - 1) /\ (s.ll_idx - 1 + d) = (sap - 1) + NumSaps BY <1>1, <2>3
    <3>2. sap - 1 \in 0..(NumSaps - 1) BY <1>1
    <3>3. ((sap - 1) + NumSaps) % NumSaps = sap - 1 BY <1>1, <3>2
    <3>4. Cyclic(s, d) = sap BY <3>1, <3>3 DEF Cyclic
    <3> QED BY <2>1, <3>1, <3>4
  <2> QED BY <1>1, <2>2, <2>3
<1>3. ds \subseteq Nat BY <1>1
<1> DEFINE d == CHOOSE x \in ds : \A e \in ds : x <= e
<1>4. NextSap(s) = Cyclic(s, d) BY DEF NextSap
<1>5. d \in ds
  <2> HIDE DEF ds
  <2> QED BY <1>2, <1>3, LeastOf
<1>6. d \in 0..(NumSaps - 1) /\ s.ll[Cyclic(s, d)].ui_xmit_q # <<>> BY <1>5
<1> HIDE DEF d
<1>7. (s.ll_idx - 1 + d) % NumSaps \in 0..(NumSaps - 1) BY <1>1, <1>6
<1>8. Cyclic(s, d) \in Sap BY <1>1, <1>7 DEF Cyclic, Sap
<1> QED BY <1>4, <1>6, <1>8

(* What the construction of a transmission goes through: nothing but the queues changes, and a     *)
(* signalling PDU that was there is there or taken.                                                *)
Built(s) ==
    {b \in [s : ControlBlock, pdus : Seq(Pdu)] :
        Quiet(s, b.s) /\ (s.sig_xmit_q # <<>> => b.s.sig_xmit_q # <<>> \/ b.pdus # <<>>)}

(* One PDU more: Built goes on to hold. *)
LEMMA GetNextPduBuilt ==
  ASSUME NEW s, NEW b \in Built(s)
  PROVE  GetNextPdu(b) \in Built(s) /\ (s.sig_xmit_q # <<>> => GetNextPdu(b).pdus # <<>>)
<1>1. /\ b.s \in ControlBlock /\ b.pdus \in Seq(Pdu) /\ Quiet(s, b.s) /\ b.s.sig_xmit_q \in Seq(Pdu)
      /\ s.sig_xmit_q # <<>> => b.s.sig_xmit_q # <<>> \/ b.pdus # <<>>
  BY DEF Built, ControlBlock
<1>2. CASE b.s.sig_xmit_q # <<>>
  <2> DEFINE t == [b.s EXCEPT !.sig_xmit_q = Tail(@)]
             q == Append(b.pdus, Head(b.s.sig_xmit_q))
  <2>1. GetNextPdu(b) = [s |-> t, pdus |-> q] BY <1>2 DEF GetNextPdu, NothingToSend
  <2>2. Tail(b.s.sig_xmit_q) \in Seq(Pdu) /\ Head(b.s.sig_xmit_q) \in Pdu BY <1>1, <1>2
  <2>3. q \in Seq(Pdu) /\ q # <<>> BY <1>1, <2>2, AppendProperties
  <2>4. Quiet(b.s, t) BY <1>1, <2>2, FieldsQuiet
  <2> HIDE DEF t, q
  <2>5. Quiet(s, t) /\ t \in ControlBlock BY <1>1, <2>4, QuietTrans, QuietType
  <2> QED BY <2>1, <2>3, <2>5 DEF Built
<1>3. CASE b.s.sig_xmit_q = <<>> /\ ~NothingToSend(b.s)
  <2> DEFINE sap == NextSap(b.s)
             l   == [b.s.ll EXCEPT ![sap].ui_xmit_q = Tail(@)]
             t1  == [b.s EXCEPT !.ll = l]
             t   == [t1 EXCEPT !.ll_idx = (sap % NumSaps) + 1]
             q   == Append(b.pdus, Head(b.s.ll[sap].ui_xmit_q))
  <2>1. sap \in Sap /\ b.s.ll[sap].ui_xmit_q # <<>>
    <3>1. TotalTxUi(b.s) # 0 BY <1>3 DEF NothingToSend
    <3> QED BY <1>1, <3>1, TotalTxUiZero, NextSapFinds
  <2> HIDE DEF sap
  <2>2. Tail(b.s.ll[sap].ui_xmit_q) \in Seq(Pdu) /\ Head(b.s.ll[sap].ui_xmit_q) \in Pdu BY <1>1, <2>1, LinkFields
  <2>3. l \in [Sap -> LogicalLink] BY <1>1, <2>1, <2>2, LinkFields DEF LogicalLink
  <2>4. q \in Seq(Pdu) /\ q # <<>> BY <1>1, <2>2, AppendProperties
  <2>5. (sap % NumSaps) + 1 \in Sap
    <3>1. sap \in Int BY <2>1 DEF Sap
    <3>2. sap % NumSaps \in 0..(NumSaps - 1) BY <3>1, SapAssumption
    <3> QED BY <3>2, SapAssumption DEF Sap
  <2>6. GetNextPdu(b) = [s |-> t, pdus |-> q]
    <3>1. GetNextPdu(b) = [s |-> [b.s EXCEPT !.ll[sap].ui_xmit_q = Tail(@), !.ll_idx = (sap % NumSaps) + 1], pdus |-> q]
      BY <1>3 DEF GetNextPdu, sap
    <3>2. [b.s EXCEPT !.ll[sap].ui_xmit_q = Tail(@), !.ll_idx = (sap % NumSaps) + 1] = t
      BY <1>1, <2>1 DEF ControlBlock
    <3> HIDE DEF t, q
    <3> QED BY <3>1, <3>2
  <2>7. Quiet(b.s, t1) BY <1>1, <2>3, LinksQuiet, GrowsQuiet
  <2> HIDE DEF l, t1, q
  <2>8. Quiet(t1, t) BY <2>5, <2>7, QuietType, FieldsQuiet, GrowsQuiet
  <2> HIDE DEF t
  <2>9. Quiet(s, t) /\ t \in ControlBlock BY <1>1, <2>7, <2>8, QuietTrans, QuietType
  <2> QED BY <2>4, <2>6, <2>9 DEF Built
<1>4. CASE b.s.sig_xmit_q = <<>> /\ NothingToSend(b.s)
  <2>1. GetNextPdu(b) = b BY <1>4 DEF GetNextPdu
  <2> QED BY <1>1, <1>4, <2>1
<1> QED BY <1>2, <1>3, <1>4

(* The frame that llcp_link_build_next_pdu makes: empty only if nothing is queued. *)
LEMMA BuildNextPduBuilt ==
  ASSUME NEW s \in ControlBlock, session \in Nat, NEW n \in Nat \ {0}
  PROVE  BuildNextPdu(s, n) \in Built(s) /\ (s.sig_xmit_q # <<>> => BuildNextPdu(s, n).pdus # <<>>)
<1> DEFINE b0 == [s |-> CheckSendSnl(s), pdus |-> <<>>]
           built[j \in 0..n] == IF j = 0 THEN [s |-> CheckSendSnl(s), pdus |-> <<>>] ELSE GetNextPdu(built[j - 1])
           step == [j \in 1..n |-> [b \in Built(s) |-> GetNextPdu(b)]]
<1>1. b0 \in Built(s)
  <2>1. Grows(s, CheckSendSnl(s)) BY CheckSendSnlQuiet
  <2>2. <<>> \in Seq(Pdu) OBVIOUS
  <2>3. Quiet(s, CheckSendSnl(s)) /\ CheckSendSnl(s) \in ControlBlock /\ (s.sig_xmit_q # <<>> => CheckSendSnl(s).sig_xmit_q # <<>>)
    BY <2>1, GrowsQuiet DEF Grows
  <2> QED BY <2>2, <2>3 DEF Built
<1>2. PICK f : Steps(f, step, n, Built(s), b0)
  <2>1. Stepper(step, n, Built(s)) BY GetNextPduBuilt DEF Stepper
  <2> HIDE DEF step, b0
  <2> QED BY <1>1, <2>1, Recursion
<1>3. f \in [0..n -> Built(s)] /\ f[0] = b0 /\ \A j \in 1..n : f[j] = step[j][f[j - 1]] BY <1>2 DEF Steps
<1>4. f = [j \in 0..n |-> IF j = 0 THEN b0 ELSE GetNextPdu(f[j - 1])]
  <2>1. ASSUME NEW j \in 0..n, j # 0 PROVE f[j] = GetNextPdu(f[j - 1])
    <3>1. j \in 1..n /\ j - 1 \in 0..n BY <2>1
    <3>2. f[j - 1] \in Built(s) BY <1>3, <3>1
    <3> QED BY <1>3, <3>1, <3>2
  <2> HIDE DEF b0, step
  <2> QED BY <1>3, <2>1
<1> HIDE DEF step
<1>5. built = [j \in 0..n |-> IF j = 0 THEN b0 ELSE GetNextPdu(built[j - 1])] BY <1>4
<1> HIDE DEF built, b0
<1>6. built[0] = b0 /\ \A j \in 1..n : built[j] = GetNextPdu(built[j - 1]) BY <1>5
<1>7. \A j \in 0..n : built[j] \in Built(s)
  <2> DEFINE P == {j \in 0..n : built[j] \in Built(s)}
  <2>1. 0 \in P BY <1>1, <1>6
  <2>2. ASSUME NEW j \in 1..n, j - 1 \in P PROVE j \in P BY <1>6, <2>2, GetNextPduBuilt
  <2> HIDE DEF P
  <2>3. 0..n \subseteq P BY <2>1, <2>2, UpTo
  <2> QED BY <2>3 DEF P
<1>8. n \in 1..n /\ n - 1 \in 0..n /\ n \in 0..n OBVIOUS
<1>9. built[n] \in Built(s) /\ (s.sig_xmit_q # <<>> => built[n].pdus # <<>>) BY <1>6, <1>7, <1>8, GetNextPduBuilt
<1>10. BuildNextPdu(s, n) = built[n] BY DEF BuildNextPdu, built, b0
<1> QED BY <1>9, <1>10
-----------------------------------------------------------------------------
(* Sending. *)

(* From s to t a frame is sent, if there is an RF connection, and the turn with it. *)
Sends(s, t) ==
    /\ t.symm_state = "REMOTE_XMIT_NEXT"
    /\ \E f \in Frame : t.out = IF carrier THEN Append(s.out, f) ELSE s.out

(* What every operator that sends leaves alone. *)
Remains(s, t) ==
    /\ t \in ControlBlock /\ t.link_state = s.link_state /\ t.cback = s.cback /\ t.rf = s.rf
    /\ t.rx_started = s.rx_started /\ t.reports = s.reports

(* llcp_link_send_to_lower gives the turn away with one frame. *)
LEMMA SendToLowerSends ==
  ASSUME NEW s \in ControlBlock, NEW f \in Frame
  PROVE  LET t == SendToLower(s, f)
         IN Remains(s, t) /\ Sends(s, t) /\ t.timer = s.timer /\ t.inact_timer = s.inact_timer
<1> DEFINE s1 == [s EXCEPT !.symm_state = "REMOTE_XMIT_NEXT"]
           q  == Append(s.out, f)
<1>1. s.out \in Seq(Frame) /\ q \in Seq(Frame) BY DEF ControlBlock
<1>2. Remains(s, s1) /\ s1.symm_state = "REMOTE_XMIT_NEXT" /\ s1.out = s.out /\ s1.timer = s.timer /\ s1.inact_timer = s.inact_timer
  BY DEF ControlBlock, Remains
<1>3. SendToLower(s, f) = IF carrier THEN [s1 EXCEPT !.out = q] ELSE s1 BY <1>2 DEF SendToLower, SendData
<1> HIDE DEF q, s1
<1>4. /\ Remains(s, [s1 EXCEPT !.out = q]) /\ [s1 EXCEPT !.out = q].symm_state = "REMOTE_XMIT_NEXT"
      /\ [s1 EXCEPT !.out = q].out = q /\ [s1 EXCEPT !.out = q].timer = s.timer
      /\ [s1 EXCEPT !.out = q].inact_timer = s.inact_timer
  BY <1>1, <1>2 DEF ControlBlock, Remains
<1>5. CASE carrier BY <1>3, <1>4, <1>5 DEF Sends, q
<1>6. CASE ~carrier BY <1>2, <1>3, <1>6 DEF Sends
<1> QED BY <1>5, <1>6

(* llcp_link_check_send_data: with the turn, a frame is sent and watched, or the timer of the next SYMM *)
(* is started, or, in no link, nothing is done.                                                         *)
Checked(s, t) ==
    /\ Remains(s, t)
    /\ \/ /\ t.symm_state = s.symm_state /\ t.out = s.out /\ t.inact_timer = s.inact_timer
          /\ s.symm_state = "REMOTE_XMIT_NEXT" => t.timer = s.timer
          /\ s.symm_state = "LOCAL_XMIT_NEXT" =>
               /\ s.sig_xmit_q = <<>>
               /\ t.timer = IF s.link_state = "ACTIVATED" THEN "LINK_MANAGER" ELSE s.timer
       \/ /\ s.symm_state = "LOCAL_XMIT_NEXT" /\ Sends(s, t) /\ t.timer = "LINK_MANAGER"
          /\ t.inact_timer => s.link_state = "ACTIVATED"
    /\ s.symm_state = "REMOTE_XMIT_NEXT" => (s.sig_xmit_q # <<>> => t.sig_xmit_q # <<>>)

(* The timers. *)
LEMMA TimersType ==
  ASSUME NEW s \in ControlBlock
  PROVE  /\ Remains(s, StartLinkTimer(s)) /\ StartLinkTimer(s).timer = "LINK_MANAGER"
         /\ StartLinkTimer(s).symm_state = s.symm_state /\ StartLinkTimer(s).out = s.out
         /\ StartLinkTimer(s).inact_timer = s.inact_timer
         /\ (env.inact \in BOOLEAN => Remains(s, StartInactivityTimer(s)))
         /\ StartInactivityTimer(s).timer = s.timer
         /\ StartInactivityTimer(s).symm_state = s.symm_state /\ StartInactivityTimer(s).out = s.out
         /\ Remains(s, [s EXCEPT !.inact_timer = FALSE]) /\ ~[s EXCEPT !.inact_timer = FALSE].inact_timer
         /\ [s EXCEPT !.inact_timer = FALSE].timer = s.timer
         /\ [s EXCEPT !.inact_timer = FALSE].symm_state = s.symm_state /\ [s EXCEPT !.inact_timer = FALSE].out = s.out
<1>1. /\ Remains(s, StartLinkTimer(s)) /\ StartLinkTimer(s).timer = "LINK_MANAGER"
      /\ StartLinkTimer(s).symm_state = s.symm_state /\ StartLinkTimer(s).out = s.out
      /\ StartLinkTimer(s).inact_timer = s.inact_timer
  BY DEF ControlBlock, Remains, StartLinkTimer
<1>2. /\ (env.inact \in BOOLEAN => Remains(s, StartInactivityTimer(s)))
      /\ StartInactivityTimer(s).timer = s.timer
      /\ StartInactivityTimer(s).symm_state = s.symm_state /\ StartInactivityTimer(s).out = s.out
  BY DEF ControlBlock, Remains, StartInactivityTimer
<1>3. /\ Remains(s, [s EXCEPT !.inact_timer = FALSE]) /\ ~[s EXCEPT !.inact_timer = FALSE].inact_timer
      /\ [s EXCEPT !.inact_timer = FALSE].timer = s.timer
      /\ [s EXCEPT !.inact_timer = FALSE].symm_state = s.symm_state /\ [s EXCEPT !.inact_timer = FALSE].out = s.out
  BY DEF ControlBlock, Remains
<1> QED BY <1>1, <1>2, <1>3

(* The bounds of an environment and the choices it leaves. *)
LEMMA EnvFacts ==
  ASSUME env \in Environments
  PROVE  /\ env.inact \in BOOLEAN /\ env.symm_delay \in BOOLEAN /\ env.first_delay \in BOOLEAN
         /\ env.max_session \in Nat /\ env.ll_rx_congest_start \in Nat
         /\ \A c \in Choice : c.agf \in Nat \ {0} /\ c.fits \in BOOLEAN
         /\ \A n \in Node : env.uses[n] \subseteq Use
<1>1. env \in Environment BY EnvAssumption
<1>2. env.max_agf \in Nat BY <1>1 DEF Environment
<1> QED BY <1>1, <1>2 DEF Environment, Choice

(* Remains is a preorder, weaker than Quiet. *)
LEMMA RemainsTrans == ASSUME NEW s, NEW t, NEW u, Remains(s, t), Remains(t, u) PROVE Remains(s, u)
BY DEF Remains

(* What remains is typed. *)
LEMMA RemainsType == ASSUME NEW s, NEW t, Remains(s, t) PROVE t \in ControlBlock
BY DEF Remains

(* A quiet change leaves the link as it is. *)
LEMMA QuietRemains == ASSUME NEW s, NEW t, Quiet(s, t) PROVE Remains(s, t)
BY DEF Remains, Quiet

(* The frames. *)
LEMMA SymmType == Symm \in Frame /\ \A q \in Seq(Pdu) : [invalid |-> FALSE, pdus |-> q] \in Frame
<1>1. <<>> \in Seq(Pdu) OBVIOUS
<1> QED BY <1>1 DEF Symm, Frame

(* llcp_link_check_send_data in every state of the link. *)
LEMMA CheckSendDataChecked ==
  ASSUME NEW s \in ControlBlock, session \in Nat, env \in Environments, NEW c \in Choice
  PROVE  Checked(s, CheckSendData(s, c))
<1> DEFINE s1 == CheckCongestion(s)
           b  == BuildNextPdu(s1, c.agf)
<1>1. Grows(s, s1) /\ s1 \in ControlBlock BY CheckCongestionQuiet, GrowsQuiet
<1>2. /\ Quiet(s, s1) /\ (s.sig_xmit_q # <<>> => s1.sig_xmit_q # <<>>)
      /\ s1.symm_state = s.symm_state /\ s1.link_state = s.link_state
      /\ s.symm_state \in {"LOCAL_XMIT_NEXT", "REMOTE_XMIT_NEXT"}
  BY <1>1 DEF Grows, Quiet, ControlBlock
<1>3. env.inact \in BOOLEAN /\ c.agf \in Nat \ {0} BY EnvFacts
<1>4. CASE s.symm_state = "REMOTE_XMIT_NEXT"
  <2>1. CheckSendData(s, c) = s1 BY <1>2, <1>4 DEF CheckSendData
  <2> HIDE DEF s1
  <2> QED BY <1>2, <1>4, <2>1, QuietRemains DEF Checked, Quiet
<1>5. CASE s.symm_state = "LOCAL_XMIT_NEXT"
  <2> HIDE DEF s1
  <2>1. b \in Built(s1) /\ (s1.sig_xmit_q # <<>> => b.pdus # <<>>) BY <1>1, <1>3, BuildNextPduBuilt
  <2>2. b.s \in ControlBlock /\ b.pdus \in Seq(Pdu) /\ Quiet(s1, b.s) BY <2>1 DEF Built
  <2> DEFINE f  == [invalid |-> FALSE, pdus |-> b.pdus]
             l  == SendToLower(b.s, f)
             l1 == [l EXCEPT !.inact_timer = FALSE]
             l2 == CheckUncongested(l1)
             m  == SendToLower(b.s, Symm)
             m1 == StartInactivityTimer(m)
  <2>3. CheckSendData(s, c) =
          IF b.pdus # <<>> THEN StartLinkTimer(l2)
          ELSE IF s.link_state = "ACTIVATED"
                 THEN IF env.symm_delay THEN StartLinkTimer(b.s) ELSE StartLinkTimer(m1)
                 ELSE b.s
    BY <1>2, <1>5 DEF CheckSendData, s1
  <2> HIDE DEF b
  <2>4. Quiet(s, b.s) BY <1>2, <2>2, QuietTrans
  <2>5. CASE b.pdus # <<>>
    <3>1. CheckSendData(s, c) = StartLinkTimer(l2) BY <2>3, <2>5
    <3>2. f \in Frame BY <2>2, SymmType
    <3> HIDE DEF f
    <3>3. Remains(b.s, l) /\ Sends(b.s, l) BY <2>2, <3>2, SendToLowerSends
    <3> HIDE DEF l
    <3>4. l \in ControlBlock BY <3>3, RemainsType
    <3>5. Remains(l, l1) /\ l1.symm_state = l.symm_state /\ l1.out = l.out /\ ~l1.inact_timer BY <3>4, TimersType
    <3> HIDE DEF l1
    <3>6. Quiet(l1, l2) BY <3>5, RemainsType, CheckUncongestedQuiet, GrowsQuiet
    <3> HIDE DEF l2
    <3>7. l2 \in ControlBlock /\ Remains(l1, l2) BY <3>6, QuietType, QuietRemains
    <3> DEFINE e == StartLinkTimer(l2)
    <3>8. Remains(l2, e) /\ e.timer = "LINK_MANAGER" /\ e.symm_state = l2.symm_state /\ e.out = l2.out
          /\ e.inact_timer = l2.inact_timer
      BY <3>7, TimersType
    <3> HIDE DEF e
    <3>9. Remains(s, e)
      <4>1. Remains(s, b.s) BY <2>4, QuietRemains
      <4> QED BY <4>1, <3>3, <3>5, <3>7, <3>8, RemainsTrans
    <3>10. Sends(s, e) BY <2>4, <3>3, <3>5, <3>6, <3>8 DEF Sends, Quiet
    <3>11. ~e.inact_timer BY <3>5, <3>6, <3>8 DEF Quiet
    <3> QED BY <1>5, <3>1, <3>8, <3>9, <3>10, <3>11 DEF Checked, e
  <2>6. CASE b.pdus = <<>> /\ s.link_state = "ACTIVATED" /\ env.symm_delay
    <3>1. CheckSendData(s, c) = StartLinkTimer(b.s) BY <2>3, <2>6
    <3>2. s.sig_xmit_q = <<>> BY <1>2, <2>1, <2>6
    <3> DEFINE e == StartLinkTimer(b.s)
    <3>3. Remains(b.s, e) /\ e.timer = "LINK_MANAGER" /\ e.symm_state = b.s.symm_state /\ e.out = b.s.out
          /\ e.inact_timer = b.s.inact_timer
      BY <2>2, TimersType
    <3> HIDE DEF e
    <3>4. Remains(s, e) BY <2>4, <3>3, QuietRemains, RemainsTrans
    <3> QED BY <1>5, <2>4, <2>6, <3>1, <3>2, <3>3, <3>4 DEF Checked, Quiet, e
  <2>7. CASE b.pdus = <<>> /\ s.link_state = "ACTIVATED" /\ ~env.symm_delay
    <3>1. CheckSendData(s, c) = StartLinkTimer(m1) BY <2>3, <2>7
    <3>2. Remains(b.s, m) /\ Sends(b.s, m) BY <2>2, SymmType, SendToLowerSends
    <3> HIDE DEF m
    <3>3. Remains(m, m1) /\ m1.symm_state = m.symm_state /\ m1.out = m.out BY <1>3, <3>2, RemainsType, TimersType
    <3> HIDE DEF m1
    <3> DEFINE e == StartLinkTimer(m1)
    <3>4. Remains(m1, e) /\ e.timer = "LINK_MANAGER" /\ e.symm_state = m1.symm_state /\ e.out = m1.out
      BY <3>3, RemainsType, TimersType
    <3> HIDE DEF e
    <3>5. Remains(s, e) BY <2>4, <3>2, <3>3, <3>4, QuietRemains, RemainsTrans
    <3>6. Sends(s, e) BY <2>4, <3>2, <3>3, <3>4 DEF Sends, Quiet
    <3> QED BY <1>5, <2>7, <3>1, <3>4, <3>5, <3>6 DEF Checked, e
  <2>8. CASE b.pdus = <<>> /\ s.link_state # "ACTIVATED"
    <3>1. CheckSendData(s, c) = b.s BY <2>3, <2>8
    <3>2. s.sig_xmit_q = <<>> BY <1>2, <2>1, <2>8
    <3> QED BY <1>5, <2>4, <2>8, <3>1, <3>2, QuietRemains DEF Checked, Quiet
  <2> QED BY <2>5, <2>6, <2>7, <2>8
<1> QED BY <1>2, <1>4, <1>5
-----------------------------------------------------------------------------
(* The end of a link. *)

(* The link is up, or going down with a DISC. *)
Up(s) == s.link_state \in {"ACTIVATED", "DEACTIVATING"}

(* The link of a device may be reported more than once. *)
Exempt(n) == "error" \in env.uses[n] \/ ClosesRefused(n)

(* What is true of a control block between two handlers, but for the watch over its link. *)
Sound(n, s) ==
    /\ s \in ControlBlock
    /\ s.link_state # "DEACTIVATED" => s.cback
    /\ s.cback => s.rf = "on"
    /\ s.inact_timer => Up(s)
    /\ s.timer = "DELAY_FIRST_PDU" => s.symm_state = "LOCAL_XMIT_NEXT" /\ s.link_state = "ACTIVATED"
    /\ s.link_state = "ACTIVATION_FAILED" => "refuse" \in env.uses[n]
    /\ ~Exempt(n) => s.reports <= 1 /\ (Up(s) => s.reports = 0)
    /\ ~carrier \/ s.rf = "starting" => s.out = <<>>

(* The link is watched by a timer, or by the frame being received. *)
Watched(n, s) ==
    (carrier /\ env.first_delay /\ ~ClosesRefused(n) /\ Up(s)) =>
        s.timer # "none" \/ (s.rx_started /\ s.symm_state = "REMOTE_XMIT_NEXT")

(* A device that has, or is about to have, an activated link, and its part in the turn: 1 with the    *)
(* turn or with a frame on its way.                                                                   *)
AliveIn(s) == s.rf = "starting" \/ s.link_state = "ACTIVATED"

ShareIn(n, s) ==
    IF s.rf = "starting" THEN IF n = Initiator THEN 1 ELSE 0
    ELSE (IF s.symm_state = "LOCAL_XMIT_NEXT" THEN 1 ELSE 0) + Len(s.out)

(* What a control block needs for its link to be ended. *)
Endable(n, s) ==
    /\ s \in ControlBlock
    /\ s.cback => s.rf = "on"
    /\ ~Exempt(n) => s.reports = 0
    /\ ~carrier \/ s.rf = "starting" => s.out = <<>>

(* From s to t the link ends, or is no more than about to end. *)
Ended(n, s, t) == Sound(n, t) /\ Watched(n, t) /\ t.link_state # "ACTIVATED" /\ t.rf = s.rf

(* llcp_deactivate_cleanup, field by field. *)
LEMMA CleanupType ==
  ASSUME NEW n \in Node, NEW s \in ControlBlock, NEW r
  PROVE  LET t == DeactivateCleanup(n, s, r)
         IN /\ t \in ControlBlock /\ t.link_state = "DEACTIVATED" /\ t.timer = "none" /\ t.inact_timer = FALSE
            /\ t.cback = s.cback /\ t.rf = s.rf /\ t.out = s.out /\ t.symm_state = s.symm_state
            /\ t.rx_started = s.rx_started /\ (s.reports = 0 => t.reports = 1)
<1> DEFINE l  == [sap \in Sap |-> [s.ll[sap] EXCEPT !.nfa_congested = FALSE]]
           rd == s.rf_deactivate \/ (n = Initiator /\ r \notin {"RF_LINK_LOSS_ERR", "RF_LINK_LOSS_NO_RX_LLC"})
           rp == IF s.reports < 2 THEN s.reports + 1 ELSE s.reports
<1>1. ASSUME NEW sap \in Sap PROVE l[sap] \in LogicalLink BY LinkFields DEF LogicalLink
<1>2. l \in [Sap -> LogicalLink] /\ {} \in SUBSET Nat BY <1>1
<1>3. rd \in BOOLEAN BY DEF ControlBlock
<1>4. rp \in 0..2 /\ (s.reports = 0 => rp = 1) BY DEF ControlBlock
<1>5. <<>> \in Seq(Item) OBVIOUS
<1>6. DeactivateCleanup(n, s, r) =
        [s EXCEPT !.transac = {}, !.next_tid = 0, !.p_snl = <<>>, !.ll = l, !.link_state = "DEACTIVATED",
                  !.timer = "none", !.inact_timer = FALSE, !.reports = rp, !.rf_deactivate = rd]
  BY DEF DeactivateCleanup
<1> HIDE DEF l, rd, rp
<1> DEFINE t == [s EXCEPT !.transac = {}, !.next_tid = 0, !.p_snl = <<>>, !.ll = l, !.link_state = "DEACTIVATED",
                          !.timer = "none", !.inact_timer = FALSE, !.reports = rp, !.rf_deactivate = rd]
<1>7. t \in ControlBlock BY <1>2, <1>3, <1>4, <1>5 DEF ControlBlock, LINK_STATE
<1>8. /\ t.link_state = "DEACTIVATED" /\ t.timer = "none" /\ t.inact_timer = FALSE
      /\ t.cback = s.cback /\ t.rf = s.rf /\ t.out = s.out /\ t.symm_state = s.symm_state
      /\ t.rx_started = s.rx_started /\ t.reports = rp
  BY DEF ControlBlock
<1> HIDE DEF t
<1> QED BY <1>4, <1>6, <1>7, <1>8 DEF t

(* llcp_deactivate_cleanup, and the same with the callback gone. *)
LEMMA CleanupEnds ==
  ASSUME NEW n \in Node, NEW s, Endable(n, s), NEW r
  PROVE  LET t == DeactivateCleanup(n, s, r)
         IN Ended(n, s, t) /\ Ended(n, s, [t EXCEPT !.cback = FALSE]) /\ t.link_state = "DEACTIVATED"
<1> DEFINE t == DeactivateCleanup(n, s, r)
           u == [t EXCEPT !.cback = FALSE]
<1>1. /\ t \in ControlBlock /\ t.link_state = "DEACTIVATED" /\ t.timer = "none" /\ t.inact_timer = FALSE
      /\ t.cback = s.cback /\ t.rf = s.rf /\ t.out = s.out /\ (s.reports = 0 => t.reports = 1)
  BY CleanupType, ZenonT(60) DEF Endable
<1> HIDE DEF t
<1>2. /\ u \in ControlBlock /\ u.link_state = "DEACTIVATED" /\ u.timer = "none" /\ u.inact_timer = FALSE
      /\ u.cback = FALSE /\ u.rf = s.rf /\ u.out = s.out /\ u.reports = t.reports
  BY <1>1 DEF ControlBlock
<1> HIDE DEF u
<1>3. Sound(n, t) /\ Watched(n, t) BY <1>1 DEF Endable, Sound, Watched, Up
<1>4. Sound(n, u) /\ Watched(n, u) BY <1>1, <1>2 DEF Endable, Sound, Watched, Up
<1> QED BY <1>1, <1>2, <1>3, <1>4 DEF Ended, t, u

(* llcp_link_flush: the queues are empty. *)
LEMMA FlushQueuesQuiet ==
  ASSUME NEW s \in ControlBlock PROVE Quiet(s, FlushQueues(s)) /\ FlushQueues(s).sig_xmit_q = <<>>
<1> DEFINE l == [sap \in Sap |-> [s.ll[sap] EXCEPT !.ui_xmit_q = <<>>, !.ui_rx_q = <<>>, !.is_ui_tx_congested = FALSE]]
<1>0. <<>> \in Seq(Pdu) /\ <<>> \in Seq(RxBuffer) OBVIOUS
<1>1. ASSUME NEW sap \in Sap PROVE l[sap] \in LogicalLink BY <1>0, LinkFields DEF LogicalLink
<1>2. l \in [Sap -> LogicalLink] BY <1>1
<1>3. FlushQueues(s) = [s EXCEPT !.sig_xmit_q = <<>>, !.overall_tx_congested = FALSE, !.ll = l] BY DEF FlushQueues
<1> HIDE DEF l
<1> QED BY <1>0, <1>2, <1>3, ZenonT(60) DEF ControlBlock, Quiet

(* NFC_FlushData: the frame is dropped or not. *)
LEMMA FlushDataDrops ==
  ASSUME NEW n, NEW s \in ControlBlock, NEW c
  PROVE  LET t == FlushData(n, s, c)
         IN /\ Remains(s, t) /\ t.symm_state = s.symm_state /\ t.timer = s.timer /\ t.inact_timer = s.inact_timer
            /\ t.out \in {s.out, <<>>} /\ t.sig_xmit_q = s.sig_xmit_q
<1> DEFINE t == [s EXCEPT !.out = <<>>]
<1>1. <<>> \in Seq(Frame) OBVIOUS
<1>2. /\ Remains(s, t) /\ t.symm_state = s.symm_state /\ t.timer = s.timer /\ t.inact_timer = s.inact_timer
      /\ t.out = <<>> /\ t.sig_xmit_q = s.sig_xmit_q
  BY <1>1 DEF ControlBlock, Remains
<1>3. Remains(s, s) BY DEF Remains
<1>4. FlushData(n, s, c) \in {s, t} BY DEF FlushData
<1> HIDE DEF t
<1> QED BY <1>2, <1>3, <1>4

(* The DISC of the link manager is sent or queued. *)
LEMMA SendDiscEnds ==
  ASSUME NEW n \in Node, NEW s, Sound(n, s), Watched(n, s), NEW c \in Choice,
         session \in Nat, env \in Environments,
         Up(s) \/ (s.link_state = "ACTIVATION_FAILED" /\ ClosesRefused(n))
  PROVE  Ended(n, s, LinkDeactivate(n, s, "LOCAL_INITIATED", c))
<1> DEFINE s1 == FlushQueues(s)
           s2 == FlushData(n, s1, c)
           s3 == [s2 EXCEPT !.sig_xmit_q = Append(@, NewPdu("DISC"))]
           s4 == CheckSendData(s3, c)
           tm == IF s4.sig_xmit_q = <<>> THEN "LINK_MANAGER" ELSE s4.timer
           t  == [s4 EXCEPT !.link_state = "DEACTIVATING", !.deact_reason = "LOCAL_INITIATED", !.timer = tm]
<1>1. LinkDeactivate(n, s, "LOCAL_INITIATED", c) = t BY DEF LinkDeactivate, SendDisc
<1>2. Quiet(s, s1) /\ s1 \in ControlBlock BY FlushQueuesQuiet, QuietType DEF Sound
<1> HIDE DEF s1
<1>3. /\ Remains(s1, s2) /\ s2.symm_state = s1.symm_state /\ s2.timer = s1.timer /\ s2.inact_timer = s1.inact_timer
      /\ s2.out \in {s1.out, <<>>} /\ s2 \in ControlBlock
  BY <1>2, FlushDataDrops, RemainsType
<1> HIDE DEF s2
<1>4. Quiet(s2, s3) /\ s3.sig_xmit_q # <<>> /\ s3 \in ControlBlock
  <2> DEFINE q == Append(s2.sig_xmit_q, NewPdu("DISC"))
  <2>1. q \in Seq(Pdu) /\ q # <<>>
    <3>1. s2.sig_xmit_q \in Seq(Pdu) /\ NewPdu("DISC") \in Pdu BY <1>3, NewPduType DEF ControlBlock
    <3> QED BY <3>1, AppendProperties
  <2>2. s3 = [s2 EXCEPT !.sig_xmit_q = q] OBVIOUS
  <2>3. s3.sig_xmit_q = q BY <1>3, <2>2 DEF ControlBlock
  <2> HIDE DEF q, s3
  <2> QED BY <1>3, <2>1, <2>2, <2>3, FieldsQuiet, QuietType
<1> HIDE DEF s3
<1>5. Checked(s3, s4) /\ s4 \in ControlBlock BY <1>4, CheckSendDataChecked DEF Checked, Remains
<1> HIDE DEF s4
<1>6. /\ t \in ControlBlock /\ t.link_state = "DEACTIVATING" /\ t.timer = tm /\ t.symm_state = s4.symm_state
      /\ t.inact_timer = s4.inact_timer /\ t.cback = s4.cback /\ t.rf = s4.rf /\ t.rx_started = s4.rx_started
      /\ t.out = s4.out /\ t.reports = s4.reports
  <2>1. tm \in {"none", "LINK_MANAGER", "DELAY_FIRST_PDU"} BY <1>5 DEF ControlBlock
  <2> HIDE DEF tm
  <2> QED BY <1>5, <2>1 DEF ControlBlock, LINK_STATE, REASON
<1> HIDE DEF t
<1>7. /\ s3.link_state = s.link_state /\ s3.symm_state = s.symm_state /\ s3.timer = s.timer
      /\ s3.inact_timer = s.inact_timer /\ s3.cback = s.cback /\ s3.rf = s.rf /\ s3.rx_started = s.rx_started
      /\ s3.reports = s.reports /\ s3.out \in {s.out, <<>>}
  BY <1>2, <1>3, <1>4 DEF Quiet, Remains
<1>8. s4.cback /\ s4.rf = "on" /\ t.rf = s.rf /\ s4.rx_started = s.rx_started /\ s4.reports = s.reports
  BY <1>5, <1>6, <1>7 DEF Checked, Remains, Sound, Up
<1>9. ~carrier => t.out = <<>>
  <2>1. ~carrier => s3.out = <<>> BY <1>7 DEF Sound
  <2> QED BY <1>5, <1>6, <2>1 DEF Checked, Sends
<1>10. s3.symm_state \in {"LOCAL_XMIT_NEXT", "REMOTE_XMIT_NEXT"} BY <1>4 DEF ControlBlock
<1>11. /\ s3.symm_state = "LOCAL_XMIT_NEXT" => t.timer = "LINK_MANAGER"
       /\ s3.symm_state = "REMOTE_XMIT_NEXT" => t.timer = s.timer /\ t.symm_state = "REMOTE_XMIT_NEXT"
  <2>1. s3.symm_state = "LOCAL_XMIT_NEXT" => s4.timer = "LINK_MANAGER" BY <1>4, <1>5 DEF Checked
  <2>2. s3.symm_state = "REMOTE_XMIT_NEXT" => s4.timer = s.timer /\ s4.symm_state = "REMOTE_XMIT_NEXT" /\ s4.sig_xmit_q # <<>>
    BY <1>4, <1>5, <1>7 DEF Checked
  <2> QED BY <1>6, <2>1, <2>2 DEF tm
<1>12. t.timer # "DELAY_FIRST_PDU" BY <1>7, <1>10, <1>11 DEF Sound
<1>13. Watched(n, t)
  <2>1. Up(s) \/ ClosesRefused(n) OBVIOUS
  <2> QED BY <1>6, <1>7, <1>8, <1>10, <1>11, <2>1 DEF Watched
<1>14. ~Exempt(n) => t.reports <= 1 /\ t.reports = 0
  <2>1. ~Exempt(n) => Up(s) BY DEF Exempt
  <2>2. ~Exempt(n) => s.reports = 0 BY <2>1 DEF Sound
  <2> QED BY <1>6, <1>8, <2>2
<1>15. Sound(n, t) BY <1>6, <1>8, <1>9, <1>12, <1>14 DEF Sound, Up
<1> QED BY <1>1, <1>6, <1>8, <1>13, <1>15 DEF Ended

(* llcp_link_deactivate for any other reason. *)
LEMMA LinkDeactivateEnds ==
  ASSUME NEW n \in Node, NEW s, Endable(n, s), NEW r, r # "LOCAL_INITIATED", NEW c \in Choice,
         r = "REMOTE_INITIATED" => s.rf = "on"
  PROVE  LET t == LinkDeactivate(n, s, r, c)
         IN Ended(n, s, t) /\ t.link_state = "DEACTIVATED"
<1> DEFINE s1 == FlushQueues(s)
           s2 == FlushData(n, s1, c)
           s3 == SendToLower(s1, Symm)
           lost == IF r = "RF_LINK_LOSS_ERR" /\ ~s.rx_any THEN "RF_LINK_LOSS_NO_RX_LLC" ELSE r
<1>1. \/ LinkDeactivate(n, s, r, c) = DeactivateCleanup(n, s2, lost)
      \/ r = "REMOTE_INITIATED" /\ LinkDeactivate(n, s, r, c) = DeactivateCleanup(n, s3, r)
  BY DEF LinkDeactivate
<1> HIDE DEF lost
<1>2. Quiet(s, s1) /\ s1 \in ControlBlock BY FlushQueuesQuiet, QuietType DEF Endable
<1> HIDE DEF s1
<1>3. Remains(s1, s2) /\ s2.out \in {s1.out, <<>>} BY <1>2, FlushDataDrops
<1> HIDE DEF s2
<1>4. Endable(n, s2) /\ s2.rf = s.rf BY <1>2, <1>3 DEF Endable, Remains, Quiet
<1>5. Remains(s1, s3) /\ Sends(s1, s3) BY <1>2, SymmType, SendToLowerSends
<1> HIDE DEF s3
<1>6. r = "REMOTE_INITIATED" => Endable(n, s3) /\ s3.rf = s.rf BY <1>2, <1>5 DEF Endable, Remains, Quiet, Sends
<1> DEFINE t == LinkDeactivate(n, s, r, c)
<1>7. CASE t = DeactivateCleanup(n, s2, lost)
  <2>1. Ended(n, s2, t) /\ t.link_state = "DEACTIVATED" BY <1>4, <1>7, CleanupEnds, ZenonT(60)
  <2> QED BY <1>4, <2>1 DEF Ended
<1>8. CASE r = "REMOTE_INITIATED" /\ t = DeactivateCleanup(n, s3, r)
  <2> HIDE DEF t
  <2>0. Endable(n, s3) /\ t = DeactivateCleanup(n, s3, r) BY <1>6, <1>8
  <2>1. Ended(n, s3, t) /\ t.link_state = "DEACTIVATED" BY <2>0, CleanupEnds
  <2> QED BY <1>6, <1>8, <2>1 DEF Ended, t
<1> QED BY <1>1, <1>7, <1>8

(* From s to t the device keeps its part in the turn, or its link has ended. *)
Moves(n, s, t) ==
    /\ Sound(n, t) /\ Watched(n, t)
    /\ carrier /\ AliveIn(t) => AliveIn(s) /\ ShareIn(n, t) = ShareIn(n, s)

(* The end of the link is one of the moves. *)
LEMMA EndedMoves == ASSUME NEW n \in Node, NEW s, NEW t, Ended(n, s, t) PROVE Moves(n, s, t)
BY DEF Ended, Moves, AliveIn, ShareIn

(* A link that is up, or whose reports are not counted, can be ended. *)
LEMMA SoundEndable ==
  ASSUME NEW n, NEW s, Sound(n, s), Up(s) \/ Exempt(n) PROVE Endable(n, s)
BY DEF Sound, Endable

(* llcp_link_process_link_timeout, with the timer stopped. *)
LEMMA ProcessLinkTimeoutMoves ==
  ASSUME NEW n \in Node, NEW s, Sound(n, s), NEW c \in Choice, env \in Environments, s.timer = "none"
  PROVE  LET t == ProcessLinkTimeout(n, s, c)
         IN Moves(n, s, t) /\ (s.link_state = "DEACTIVATING" => t.link_state = "DEACTIVATED" /\ t.rf = s.rf)
<1> DEFINE t == ProcessLinkTimeout(n, s, c)
<1>1. CASE s.link_state = "ACTIVATED" /\ env.symm_delay /\ s.symm_state = "LOCAL_XMIT_NEXT"
  <2> DEFINE m  == SendToLower(s, Symm)
             m1 == StartLinkTimer(m)
             e  == StartInactivityTimer(m1)
  <2>1. t = e BY <1>1 DEF ProcessLinkTimeout
  <2> HIDE DEF t
  <2>2. Remains(s, m) /\ Sends(s, m) BY SymmType, SendToLowerSends DEF Sound
  <2> HIDE DEF m
  <2>3. Remains(m, m1) /\ m1.timer = "LINK_MANAGER" /\ m1.symm_state = m.symm_state /\ m1.out = m.out
    BY <2>2, RemainsType, TimersType
  <2> HIDE DEF m1
  <2>4. Remains(m1, e) /\ e.timer = m1.timer /\ e.symm_state = m1.symm_state /\ e.out = m1.out
    BY <2>3, EnvFacts, RemainsType, TimersType
  <2> HIDE DEF e
  <2>5. Remains(s, e) /\ Sends(s, e) /\ e.timer = "LINK_MANAGER"
    BY <2>2, <2>3, <2>4, RemainsTrans DEF Sends
  <2>6. s.rf = "on" /\ s.out \in Seq(Frame) BY <1>1 DEF Sound, ControlBlock
  <2>7. Sound(n, e) /\ Watched(n, e)
    BY <1>1, <2>5, <2>6 DEF Sound, Watched, Remains, Sends, Up
  <2>8. carrier => ShareIn(n, e) = ShareIn(n, s)
    <3>1. carrier => Len(e.out) = Len(s.out) + 1 BY <2>5, <2>6 DEF Sends
    <3>2. e.rf = "on" /\ e.symm_state = "REMOTE_XMIT_NEXT" /\ Len(s.out) \in Nat BY <2>5, <2>6 DEF Remains, Sends
    <3> QED BY <1>1, <2>6, <3>1, <3>2 DEF ShareIn
  <2>9. AliveIn(s) BY <1>1 DEF AliveIn
  <2> QED BY <1>1, <2>1, <2>7, <2>8, <2>9 DEF Moves, t
<1>2. CASE s.link_state = "ACTIVATED" /\ ~(env.symm_delay /\ s.symm_state = "LOCAL_XMIT_NEXT")
  <2>1. t = LinkDeactivate(n, s, "TIMEOUT", c) BY <1>2 DEF ProcessLinkTimeout
  <2> HIDE DEF t
  <2>2. Endable(n, s) BY <1>2, SoundEndable DEF Up
  <2>3. Ended(n, s, t) BY <2>1, <2>2, LinkDeactivateEnds
  <2> QED BY <1>2, <2>3, EndedMoves DEF t
<1>3. CASE s.link_state = "DEACTIVATING"
  <2> DEFINE d == DeactivateCleanup(n, s, s.deact_reason)
  <2>1. t = [d EXCEPT !.cback = FALSE] BY <1>3 DEF ProcessLinkTimeout
  <2>2. Endable(n, s) BY <1>3, SoundEndable DEF Up
  <2>3. Ended(n, s, [d EXCEPT !.cback = FALSE]) /\ d.link_state = "DEACTIVATED" BY <2>2, CleanupEnds
  <2>4. [d EXCEPT !.cback = FALSE].link_state = d.link_state BY <2>2, CleanupType DEF Endable, ControlBlock
  <2> HIDE DEF d, t
  <2> QED BY <2>1, <2>3, <2>4, EndedMoves DEF Ended, t
<1>4. CASE ~Up(s)
  <2>1. t = s BY <1>4 DEF ProcessLinkTimeout, Up
  <2> HIDE DEF t
  <2> QED BY <1>4, <2>1 DEF Moves, Watched, Up, t
<1> QED BY <1>1, <1>2, <1>3, <1>4 DEF Up
-----------------------------------------------------------------------------
(* Receiving. *)

(* llcp_sdp_send_sdreq and llcp_sdp_send_sdres are quiet. *)
LEMMA AddToSnlGrows ==
  ASSUME NEW s \in ControlBlock, NEW i \in Item, NEW c, session \in Nat PROVE Grows(s, AddToSnl(s, i, c))
<1> DEFINE s1 == IF c.fits THEN s ELSE CheckSendSnl(s)
           q  == Append(s1.p_snl, i)
<1>1. Grows(s, s1) BY QuietRefl, CheckSendSnlQuiet
<1>2. AddToSnl(s, i, c) = [s1 EXCEPT !.p_snl = q] BY DEF AddToSnl
<1> HIDE DEF s1
<1>3. s1 \in ControlBlock BY <1>1, GrowsQuiet
<1>4. q \in Seq(Item) BY <1>3 DEF ControlBlock
<1> HIDE DEF q
<1> QED BY <1>1, <1>2, <1>3, <1>4, FieldsQuiet, GrowsTrans

(* An item of an SNL is handled quietly. *)
LEMMA ProcItemGrows ==
  ASSUME NEW s \in ControlBlock, NEW i \in Item, NEW c, session \in Nat PROVE Grows(s, ProcItem(s, i, c))
<1>1. [type |-> "SDRES", tid |-> i.tid] \in Item BY DEF Item
<1>2. s.transac \ {i.tid} \in SUBSET Nat BY DEF ControlBlock
<1>3. Grows(s, [s EXCEPT !.transac = s.transac \ {i.tid}]) BY <1>2, FieldsQuiet
<1>4. Grows(s, AddToSnl(s, [type |-> "SDRES", tid |-> i.tid], c)) BY <1>1, AddToSnlGrows
<1> QED BY <1>3, <1>4 DEF ProcItem

(* The items of an SNL PDU, in turn. *)
LEMMA ProcSnlGrows ==
  ASSUME NEW n, NEW s \in ControlBlock, NEW p \in Pdu, NEW c, session \in Nat, p.ptype = "SNL"
  PROVE  Grows(s, ProcPdu(n, s, p, c))
<1> DEFINE m == Len(p.items)
           G == {t \in ControlBlock : Grows(s, t)}
           done[k \in 0..m] == IF k = 0 THEN s ELSE ProcItem(done[k - 1], p.items[k], c)
           step == [k \in 1..m |-> [t \in G |-> ProcItem(t, p.items[k], c)]]
<1>1. p.items \in Seq(Item) BY DEF Pdu
<1>2. m \in Nat /\ \A k \in 1..m : p.items[k] \in Item BY <1>1
<1>3. ProcPdu(n, s, p, c) = done[m] BY DEF ProcPdu
<1> HIDE DEF m
<1>4. ASSUME NEW t \in G, NEW k \in 1..m PROVE ProcItem(t, p.items[k], c) \in G
  <2>1. Grows(t, ProcItem(t, p.items[k], c)) BY <1>2, ProcItemGrows
  <2>2. Grows(s, ProcItem(t, p.items[k], c)) BY <2>1, GrowsTrans
  <2> QED BY <2>2, GrowsQuiet
<1>5. s \in G BY QuietRefl
<1> HIDE DEF G
<1>6. PICK f : Steps(f, step, m, G, s)
  <2>1. Stepper(step, m, G) BY <1>4 DEF Stepper
  <2> HIDE DEF step
  <2> QED BY <1>2, <1>5, <2>1, Recursion
<1>7. f \in [0..m -> G] /\ f[0] = s /\ \A k \in 1..m : f[k] = step[k][f[k - 1]] BY <1>6 DEF Steps
<1>8. f = [k \in 0..m |-> IF k = 0 THEN s ELSE ProcItem(f[k - 1], p.items[k], c)]
  <2>1. ASSUME NEW k \in 0..m, k # 0 PROVE f[k] = ProcItem(f[k - 1], p.items[k], c)
    <3>1. k \in 1..m /\ k - 1 \in 0..m BY <1>2, <2>1
    <3>2. f[k - 1] \in G BY <1>7, <3>1
    <3> QED BY <1>7, <3>1, <3>2
  <2> HIDE DEF step
  <2> QED BY <1>7, <2>1
<1> HIDE DEF step
<1>9. done = [k \in 0..m |-> IF k = 0 THEN s ELSE ProcItem(done[k - 1], p.items[k], c)] BY <1>8
<1> HIDE DEF done
<1>10. done[0] = s /\ \A k \in 1..m : done[k] = ProcItem(done[k - 1], p.items[k], c) BY <1>2, <1>9
<1>11. done[m] \in G
  <2> DEFINE P == {k \in 0..m : done[k] \in G}
  <2>1. 0 \in P BY <1>2, <1>5, <1>10
  <2>2. ASSUME NEW k \in 1..m, k - 1 \in P PROVE k \in P BY <1>2, <1>4, <1>10, <2>2
  <2> HIDE DEF P
  <2>3. 0..m \subseteq P BY <1>2, <2>1, <2>2, UpTo
  <2> QED BY <1>2, <2>3 DEF P
<1> QED BY <1>3, <1>11 DEF G

(* A UI PDU goes to the receive queue of its SAP, quietly. *)
LEMMA ProcUiPduGrows ==
  ASSUME NEW s \in ControlBlock, NEW p \in Pdu, NEW c, p.ptype = "UI" PROVE Grows(s, ProcUiPdu(s, p, c))
<1> DEFINE q  == s.ll[p.sap].ui_rx_q
           q1 == IF q # <<>> /\ c.fits THEN [q EXCEPT ![Len(q)] = Append(@, p)] ELSE Append(q, <<p>>)
           q2 == IF Len(q1) > env.ll_rx_congest_start THEN Tail(q1) ELSE q1
           l  == [s.ll EXCEPT ![p.sap].ui_rx_q = q2]
<1>1. p.sap \in Sap /\ q \in Seq(RxBuffer) BY LinkFields DEF Pdu
<1>2. q1 \in Seq(RxBuffer) /\ q1 # <<>>
  <2> DEFINE w == <<p>>
  <2>1. w \in Seq(Pdu) /\ w # <<>> OBVIOUS
  <2>4. w \in RxBuffer BY <2>1 DEF RxBuffer
  <2> HIDE DEF w, q
  <2>2. Append(q, w) \in Seq(RxBuffer) /\ Append(q, w) # <<>> BY <1>1, <2>4, AppendProperties
  <2>3. ASSUME q # <<>> PROVE [q EXCEPT ![Len(q)] = Append(@, p)] \in Seq(RxBuffer) /\ [q EXCEPT ![Len(q)] = Append(@, p)] # <<>>
    <3>1. Len(q) \in 1..Len(q) BY <1>1, <2>3
    <3>2. Append(q[Len(q)], p) \in RxBuffer
      <4> DEFINE b == q[Len(q)]
      <4>1. b \in Seq(Pdu) BY <1>1, <3>1 DEF RxBuffer
      <4> HIDE DEF b
      <4>2. Append(b, p) \in Seq(Pdu) /\ Append(b, p) # <<>> BY <4>1, AppendProperties
      <4> QED BY <4>2 DEF b, RxBuffer
    <3>3. \A y \in RxBuffer : [q EXCEPT ![Len(q)] = y] \in Seq(RxBuffer) /\ Len([q EXCEPT ![Len(q)] = y]) = Len(q)
      BY <1>1, <3>1, ExceptSeq
    <3>4. Len(<<>>) = 0 OBVIOUS
    <3> QED BY <3>1, <3>2, <3>3, <3>4
  <2> QED BY <2>2, <2>3 DEF w
<1>3. ProcUiPdu(s, p, c) = [s EXCEPT !.ll[p.sap].ui_rx_q = q2] BY DEF ProcUiPdu
<1> HIDE DEF q1, q
<1>4. q2 \in Seq(RxBuffer) BY <1>2
<1> HIDE DEF q2
<1>5. l \in [Sap -> LogicalLink] BY <1>1, <1>4, LinkFields, ZenonT(60) DEF LogicalLink
<1>6. [s EXCEPT !.ll[p.sap].ui_rx_q = q2] = [s EXCEPT !.ll = l] BY <1>1 DEF ControlBlock
<1> HIDE DEF l
<1> QED BY <1>3, <1>5, <1>6, LinksQuiet

(* A DISC of the peer leaves a typed control block. *)
LEMMA LinkDeactivateType ==
  ASSUME NEW n \in Node, NEW s \in ControlBlock, NEW c
  PROVE  LinkDeactivate(n, s, "REMOTE_INITIATED", c) \in ControlBlock
<1> DEFINE s1 == FlushQueues(s)
           s2 == FlushData(n, s1, c)
           s3 == SendToLower(s1, Symm)
<1>1. LinkDeactivate(n, s, "REMOTE_INITIATED", c)
        \in {DeactivateCleanup(n, s2, "REMOTE_INITIATED"), DeactivateCleanup(n, s3, "REMOTE_INITIATED")}
  BY DEF LinkDeactivate
<1>2. s1 \in ControlBlock BY FlushQueuesQuiet, QuietType
<1> HIDE DEF s1
<1>3. s2 \in ControlBlock /\ s3 \in ControlBlock BY <1>2, FlushDataDrops, SymmType, SendToLowerSends, RemainsType
<1> HIDE DEF s2, s3
<1>4. \A x \in ControlBlock : \A r : DeactivateCleanup(n, x, r) \in ControlBlock BY CleanupType
<1> QED BY <1>1, <1>3, <1>4

(* A PDU other than DISC is handled quietly. *)
LEMMA ProcPduGrows ==
  ASSUME NEW n, NEW s \in ControlBlock, NEW p \in Pdu, NEW c, session \in Nat, p.ptype # "DISC"
  PROVE  Grows(s, ProcPdu(n, s, p, c))
<1>1. CASE p.ptype = "UI" BY <1>1, ProcUiPduGrows DEF ProcPdu
<1>2. CASE p.ptype = "SNL" BY <1>2, ProcSnlGrows
<1> QED BY <1>1, <1>2 DEF Pdu

(* A DISC ends the link. *)
LEMMA ProcPduEnds ==
  ASSUME NEW n \in Node, NEW s, Sound(n, s), Up(s), s.rf = "on", NEW p \in Pdu, p.ptype = "DISC",
         NEW c \in Choice
  PROVE  LET t == ProcPdu(n, s, p, c) IN Ended(n, s, t) /\ t.link_state = "DEACTIVATED"
<1>1. ProcPdu(n, s, p, c) = LinkDeactivate(n, s, "REMOTE_INITIATED", c) BY DEF ProcPdu
<1>2. Endable(n, s) BY SoundEndable
<1> QED BY <1>1, <1>2, LinkDeactivateEnds

(* What is sound stays sound through a quiet change. *)
LEMMA SoundGrows ==
  ASSUME NEW n, NEW s, Sound(n, s), NEW t, Quiet(s, t) PROVE Sound(n, t)
BY DEF Sound, Quiet, Up

(* The PDUs of a frame: the link goes on, or ends with a DISC. *)
LEMMA ProcPdusResult ==
  ASSUME NEW n \in Node, NEW s, Sound(n, s), Up(s), s.rf = "on", NEW pdus \in Seq(Pdu),
         NEW c \in Choice, session \in Nat
  PROVE  LET t == ProcPdus(n, s, pdus, c)
         IN Grows(s, t) \/ (Ended(n, s, t) /\ t.link_state = "DEACTIVATED")
<1> DEFINE m == Len(pdus)
           Body(x, k) == IF k > 1 /\ pdus[k - 1].ptype = "DISC" THEN x ELSE ProcPdu(n, x, pdus[k], c)
           done[k \in 0..m] ==
             IF k = 0 THEN s
             ELSE IF k > 1 /\ pdus[k - 1].ptype = "DISC" THEN done[k - 1]
                  ELSE ProcPdu(n, done[k - 1], pdus[k], c)
           step == [k \in 1..m |-> [x \in ControlBlock |-> Body(x, k)]]
           L == {k \in 0..m : /\ \A j \in 1..(k - 1) : pdus[j].ptype # "DISC"
                              /\ k = m \/ (k > 0 /\ pdus[k].ptype = "DISC")}
           last == CHOOSE k \in 0..m : /\ \A j \in 1..(k - 1) : pdus[j].ptype # "DISC"
                                       /\ k = m \/ (k > 0 /\ pdus[k].ptype = "DISC")
<1>1. m \in Nat /\ \A k \in 1..m : pdus[k] \in Pdu OBVIOUS
<1>2. s \in ControlBlock BY DEF Sound
<1>3. ProcPdus(n, s, pdus, c) = done[last] BY DEF ProcPdus
<1> HIDE DEF m
<1>4. last \in 0..m /\ \A j \in 1..(last - 1) : pdus[j].ptype # "DISC"
  <2> DEFINE D == {k \in 1..m : pdus[k].ptype = "DISC"}
  <2>1. CASE D = {}
    <3>1. m \in 0..m /\ \A j \in 1..(m - 1) : pdus[j].ptype # "DISC" BY <1>1, <2>1
    <3> QED BY <3>1
  <2>2. CASE D # {}
    <3>1. D \subseteq Nat OBVIOUS
    <3>2. PICK k \in D : \A j \in D : k <= j
      <4> HIDE DEF D
      <4> QED BY <2>2, <3>1, LeastOf
    <3>3. k \in 0..m /\ k > 0 /\ pdus[k].ptype = "DISC" BY <1>1
    <3>4. ASSUME NEW j \in 1..(k - 1) PROVE pdus[j].ptype # "DISC"
      <4>1. j \in 1..m /\ j < k BY <1>1, <3>3
      <4>2. j \notin D BY <3>2, <4>1
      <4> QED BY <4>1, <4>2
    <3> QED BY <3>3, <3>4
  <2> QED BY <2>1, <2>2
<1> HIDE DEF last
<1>5. ASSUME NEW x \in ControlBlock, NEW k \in 1..m PROVE Body(x, k) \in ControlBlock
  <2>1. pdus[k] \in Pdu BY <1>1
  <2>2. CASE pdus[k].ptype = "DISC" BY <2>1, <2>2, LinkDeactivateType DEF ProcPdu
  <2>3. CASE pdus[k].ptype # "DISC" BY <2>1, <2>3, ProcPduGrows, GrowsQuiet
  <2> QED BY <2>2, <2>3
<1>6. \A x, k : Body(x, k) = IF k > 1 /\ pdus[k - 1].ptype = "DISC" THEN x ELSE ProcPdu(n, x, pdus[k], c) OBVIOUS
<1> HIDE DEF Body
<1>7. PICK f : Steps(f, step, m, ControlBlock, s)
  <2>1. Stepper(step, m, ControlBlock) BY <1>5 DEF Stepper
  <2> HIDE DEF step
  <2> QED BY <1>1, <1>2, <2>1, Recursion
<1>8. f \in [0..m -> ControlBlock] /\ f[0] = s /\ \A k \in 1..m : f[k] = step[k][f[k - 1]] BY <1>7 DEF Steps
<1>9. f = [k \in 0..m |-> IF k = 0 THEN s ELSE Body(f[k - 1], k)]
  <2>1. ASSUME NEW k \in 0..m, k # 0 PROVE f[k] = Body(f[k - 1], k)
    <3>1. k \in 1..m /\ k - 1 \in 0..m BY <1>1, <2>1
    <3>2. f[k - 1] \in ControlBlock BY <1>8, <3>1
    <3> QED BY <1>8, <3>1, <3>2
  <2> HIDE DEF step
  <2> QED BY <1>8, <2>1
<1> HIDE DEF step
<1>10. done = [k \in 0..m |-> IF k = 0 THEN s ELSE Body(done[k - 1], k)] BY <1>9 DEF Body
<1> HIDE DEF done
<1>11. done[0] = s /\ \A k \in 1..m : done[k] = Body(done[k - 1], k) BY <1>1, <1>10
<1> DEFINE Res(k) == Grows(s, done[k]) \/ (k = last /\ Ended(n, s, done[k]) /\ done[k].link_state = "DEACTIVATED")
<1>12. Res(last)
  <2> DEFINE P == {k \in 0..last : Res(k)}
  <2>1. 0 \in P BY <1>2, <1>4, <1>11, QuietRefl
  <2>2. ASSUME NEW k \in 1..last, k - 1 \in P PROVE k \in P
    <3>1. k \in 1..m /\ k - 1 # last /\ k \in 0..last BY <1>1, <1>4
    <3>2. Grows(s, done[k - 1]) BY <2>2, <3>1
    <3> DEFINE x == done[k - 1]
    <3>3. done[k] = Body(x, k) /\ pdus[k] \in Pdu BY <1>1, <1>11, <3>1
    <3> HIDE DEF x
    <3>4. Grows(s, x) BY <3>2 DEF x
    <3>5. x \in ControlBlock /\ Quiet(s, x) BY <3>4, GrowsQuiet
    <3>6. k > 1 => pdus[k - 1].ptype # "DISC"
      <4>1. k > 1 => k - 1 \in 1..(last - 1) BY <1>4, <3>1
      <4> QED BY <1>4, <4>1
    <3>7. done[k] = ProcPdu(n, x, pdus[k], c) BY <1>6, <3>3, <3>6
    <3>8. CASE pdus[k].ptype # "DISC"
      <4>1. Grows(x, done[k]) BY <3>3, <3>5, <3>7, <3>8, ProcPduGrows
      <4>2. Grows(s, done[k]) BY <3>4, <4>1, GrowsTrans
      <4> QED BY <3>1, <4>2
    <3>9. CASE pdus[k].ptype = "DISC"
      <4>1. k = last
        <5>1. k < last => k \in 1..(last - 1) BY <1>4
        <5> QED BY <1>4, <3>9, <5>1
      <4>2. Sound(n, x) /\ Up(x) /\ x.rf = "on" BY <3>5, SoundGrows DEF Quiet, Up
      <4>3. Ended(n, x, done[k]) /\ done[k].link_state = "DEACTIVATED" BY <3>3, <3>7, <3>9, <4>2, ProcPduEnds
      <4>4. Ended(n, s, done[k]) BY <3>5, <4>3 DEF Ended, Quiet
      <4> QED BY <3>1, <4>1, <4>3, <4>4
    <3> QED BY <3>8, <3>9
  <2> HIDE DEF P
  <2>0. last \in Nat BY <1>1, <1>4
  <2>3. 0..last \subseteq P BY <2>0, <2>1, <2>2, UpTo
  <2>4. last \in 0..last BY <1>4
  <2> QED BY <2>3, <2>4 DEF P
<1> QED BY <1>3, <1>12

(* llcp_link_proc_rx_data: a device that is waiting gets the turn; one that is not ignores the frame. *)
LEMMA ProcRxDataMoves ==
  ASSUME NEW n \in Node, NEW s, Sound(n, s), Up(s), s.rf = "on", ~s.rx_started, NEW f \in Frame,
         NEW c \in Choice, session \in Nat, env \in Environments, carrier,
         s.symm_state = "LOCAL_XMIT_NEXT" => Watched(n, s)
  PROVE  LET t == ProcRxData(n, s, f, c)
         IN /\ Sound(n, t) /\ Watched(n, t)
            /\ AliveIn(t) => AliveIn(s)
            /\ AliveIn(t) /\ s.symm_state = "REMOTE_XMIT_NEXT" => ShareIn(n, t) = ShareIn(n, s) + 1
<1> DEFINE s1 == [s EXCEPT !.timer = "none"]
           s0 == [s1 EXCEPT !.inact_timer = FALSE]
           s2 == IF f.pdus = <<>> THEN s1 ELSE ProcPdus(n, s0, f.pdus, c)
           s3 == [s2 EXCEPT !.symm_state = "LOCAL_XMIT_NEXT"]
           t == CheckSendData(s3, c)
<1>1. CASE s.symm_state = "LOCAL_XMIT_NEXT"
  <2>1. ProcRxData(n, s, f, c) = s BY <1>1 DEF ProcRxData
  <2> QED BY <1>1, <2>1
<1>2. /\ Sound(n, s1) /\ Up(s1) /\ s1.rf = "on" /\ s1.timer = "none" /\ s1.out = s.out /\ s1.link_state = s.link_state
      /\ s1.symm_state = s.symm_state /\ s1.sig_xmit_q = s.sig_xmit_q /\ s1.rx_started = s.rx_started
  BY DEF Sound, ControlBlock, Up
<1>3. CASE s.symm_state = "REMOTE_XMIT_NEXT" /\ s.link_state = "DEACTIVATING" /\ s.sig_xmit_q = <<>>
  <2>1. ProcRxData(n, s, f, c) = ProcessLinkTimeout(n, s1, c) BY <1>3 DEF ProcRxData
  <2> DEFINE u == ProcessLinkTimeout(n, s1, c)
  <2> HIDE DEF s1
  <2>2. Moves(n, s1, u) /\ u.link_state = "DEACTIVATED" /\ u.rf = "on" BY <1>2, <1>3, ProcessLinkTimeoutMoves
  <2> HIDE DEF u
  <2>3. Sound(n, u) /\ Watched(n, u) /\ ~AliveIn(u) BY <2>2 DEF Moves, AliveIn
  <2> QED BY <2>1, <2>3 DEF u
<1>4. CASE s.symm_state = "REMOTE_XMIT_NEXT" /\ ~(s.link_state = "DEACTIVATING" /\ s.sig_xmit_q = <<>>)
  <2>1. ProcRxData(n, s, f, c) = t BY <1>4 DEF ProcRxData
  <2>2. /\ Sound(n, s0) /\ Up(s0) /\ s0.rf = "on" /\ s0.timer = "none" /\ s0.out = s.out /\ s0.link_state = s.link_state
        /\ s0.symm_state = s.symm_state /\ s0.sig_xmit_q = s.sig_xmit_q /\ s0.rx_started = s.rx_started
    <3> HIDE DEF s1
    <3> QED BY <1>2 DEF Sound, ControlBlock, Up
  <2> HIDE DEF s1, s0
  <2>3. f.pdus \in Seq(Pdu) BY DEF Frame
  <2>4. \/ \E x \in {s1, s0} : Grows(x, s2)
        \/ Ended(n, s0, s2) /\ s2.link_state = "DEACTIVATED"
    <3>1. Grows(s1, s1) BY <1>2, QuietRefl DEF Sound
    <3>2. LET u == ProcPdus(n, s0, f.pdus, c) IN Grows(s0, u) \/ (Ended(n, s0, u) /\ u.link_state = "DEACTIVATED")
      BY <2>2, <2>3, ProcPdusResult
    <3> QED BY <3>1, <3>2
  <2> HIDE DEF s2
  <2>5. s2 \in ControlBlock BY <2>4, GrowsQuiet DEF Ended, Sound
  <2>6. /\ Remains(s2, s3) /\ s3.symm_state = "LOCAL_XMIT_NEXT" /\ s3.out = s2.out /\ s3.timer = s2.timer
        /\ s3.inact_timer = s2.inact_timer /\ s3.sig_xmit_q = s2.sig_xmit_q
    BY <2>5 DEF ControlBlock, Remains
  <2> HIDE DEF s3
  <2>7. Checked(s3, t) BY <2>6, RemainsType, CheckSendDataChecked
  <2> HIDE DEF t
  <2>8. CASE \E x \in {s1, s0} : Grows(x, s2)
    <3>1. PICK x \in {s1, s0} : Grows(x, s2) BY <2>8
    <3>2. /\ Sound(n, x) /\ x.rf = "on" /\ x.timer = "none" /\ x.out = s.out /\ x.link_state = s.link_state
          /\ x.symm_state = s.symm_state /\ x.sig_xmit_q = s.sig_xmit_q
      BY <1>2, <2>2, <3>1
    <3>3. /\ Sound(n, s2) /\ s2.rf = "on" /\ s2.timer = "none" /\ s2.out = s.out /\ s2.link_state = s.link_state
          /\ (s.sig_xmit_q # <<>> => s2.sig_xmit_q # <<>>)
      BY <3>1, <3>2, SoundGrows DEF Grows, Quiet
    <3>4. /\ Remains(s2, t) /\ t.timer = "LINK_MANAGER" /\ (t.inact_timer => Up(s2))
      <4>1. s2.link_state = "ACTIVATED" \/ s2.sig_xmit_q # <<>> BY <1>4, <3>3 DEF Up
      <4>2. s2.inact_timer => Up(s2) BY <3>3 DEF Sound
      <4>3. t.timer = "LINK_MANAGER" BY <2>6, <2>7, <4>1 DEF Checked, Remains
      <4>4. t.inact_timer => Up(s2) BY <2>6, <2>7, <4>2 DEF Checked, Remains, Up
      <4>5. Remains(s2, t) BY <2>6, <2>7, RemainsTrans DEF Checked
      <4> QED BY <4>3, <4>4, <4>5
    <3>5. Sound(n, t) BY <3>3, <3>4 DEF Sound, Remains, Up
    <3>6. Watched(n, t) BY <3>4 DEF Watched
    <3>7. ShareIn(n, t) = ShareIn(n, s) + 1
      <4>1. s.out \in Seq(Frame) /\ s.rf = "on" /\ t.rf = "on" BY <3>3, <3>4 DEF Remains, Sound, ControlBlock
      <4>2. Len(s.out) \in Nat /\ \A y \in Frame : Len(Append(s.out, y)) = Len(s.out) + 1 BY <4>1
      <4>3. \/ t.symm_state = "LOCAL_XMIT_NEXT" /\ t.out = s.out
            \/ t.symm_state = "REMOTE_XMIT_NEXT" /\ \E y \in Frame : t.out = Append(s.out, y)
        BY <2>6, <2>7, <3>3 DEF Checked, Sends
      <4>4. ShareIn(n, s) = Len(s.out) BY <1>4, <4>1, <4>2 DEF ShareIn
      <4>5. CASE t.symm_state = "LOCAL_XMIT_NEXT" /\ t.out = s.out
        <5>1. ShareIn(n, t) = 1 + Len(s.out) BY <4>1, <4>5 DEF ShareIn
        <5> QED BY <4>2, <4>4, <5>1
      <4>6. CASE t.symm_state = "REMOTE_XMIT_NEXT" /\ \E y \in Frame : t.out = Append(s.out, y)
        <5>1. ShareIn(n, t) = Len(t.out) /\ Len(t.out) = Len(s.out) + 1 BY <4>1, <4>2, <4>6 DEF ShareIn
        <5> QED BY <4>4, <5>1
      <4> QED BY <4>3, <4>5, <4>6
    <3>8. AliveIn(t) => AliveIn(s) BY <3>3, <3>4 DEF AliveIn, Remains
    <3> QED BY <2>1, <3>5, <3>6, <3>7, <3>8 DEF t
  <2>9. CASE Ended(n, s0, s2) /\ s2.link_state = "DEACTIVATED"
    <3>1. Sound(n, s2) /\ s2.rf = "on" /\ s2.link_state = "DEACTIVATED" /\ ~s2.inact_timer /\ s2.timer # "DELAY_FIRST_PDU"
      BY <2>2, <2>9 DEF Ended, Sound, Up
    <3>2. /\ Remains(s2, t) /\ t.timer # "DELAY_FIRST_PDU" /\ ~t.inact_timer
      <4>1. Remains(s2, t) BY <2>6, <2>7, RemainsTrans DEF Checked
      <4> QED BY <2>6, <2>7, <3>1, <4>1 DEF Checked, Remains
    <3>3. Sound(n, t) BY <3>1, <3>2 DEF Sound, Remains, Up
    <3>4. Watched(n, t) /\ ~AliveIn(t) BY <3>1, <3>2 DEF Watched, Up, AliveIn, Remains
    <3> QED BY <2>1, <3>3, <3>4 DEF t
  <2> QED BY <2>4, <2>8, <2>9
<1>5. s.symm_state \in {"LOCAL_XMIT_NEXT", "REMOTE_XMIT_NEXT"} BY DEF Sound, ControlBlock
<1> QED BY <1>1, <1>3, <1>4, <1>5
-----------------------------------------------------------------------------
(* The steps. *)

(* The invariant: every control block is sound and its link watched, and two devices that have, or    *)
(* are about to have, an activated link share one turn.                                               *)
LinkInv ==
    /\ env \in Environments /\ carrier \in BOOLEAN /\ session \in 0..env.max_session
    /\ DOMAIN node = Node /\ node = [n \in Node |-> node[n]]
    /\ \A n \in Node : Sound(n, node[n]) /\ Watched(n, node[n])
    /\ (carrier /\ \A n \in Node : AliveIn(node[n])) =>
         ShareIn(Initiator, node[Initiator]) + ShareIn(Target, node[Target]) = 1

(* What the lemmas on operators need of the state. *)
LEMMA LinkInvFacts ==
  ASSUME LinkInv
  PROVE  /\ env \in Environments /\ session \in Nat /\ \A n \in Node : node[n] \in ControlBlock
BY EnvFacts DEF LinkInv, Sound

(* Soundness and the watch depend on the control block, the carrier and the environment. *)
LEMMA SoundNext ==
  ASSUME NEW m \in Node, NEW x, Sound(m, x), Watched(m, x), carrier' = carrier, env' = env, node'[m] = x
  PROVE  (Sound(m, node[m]) /\ Watched(m, node[m]))'
BY DEF Sound, Watched, Exempt, ClosesRefused, Up

(* The turn is shared by the two devices. *)
LEMMA TwoNodes ==
  /\ \A n \in Node : Peer(n) \in Node /\ Peer(n) # n /\ \A m \in Node : m = n \/ m = Peer(n)
  /\ Initiator \in Node /\ Target \in Node /\ Initiator # Target
BY NodeAssumption DEF Node, Peer

(* A handler of one device. *)
LEMMA UpdateKeeps ==
  ASSUME LinkInv, NEW n \in Node, NEW t, Update(n, t), Moves(n, node[n], t) PROVE LinkInv'
<1>1. /\ carrier' = carrier /\ session' = session /\ env' = env /\ DOMAIN node' = Node
      /\ node'[n] = t /\ \A m \in Node : m # n => node'[m] = node[m]
      /\ node' = [m \in Node |-> node'[m]]
  BY DEF Update, LinkInv
<1>2. ASSUME NEW m \in Node PROVE (Sound(m, node[m]) /\ Watched(m, node[m]))'
  <2>1. CASE m = n BY <1>1, <2>1, SoundNext DEF Moves
  <2>2. CASE m # n BY <1>1, <2>2, SoundNext DEF LinkInv
  <2> QED BY <2>1, <2>2
<1>3. ASSUME carrier, \A m \in Node : AliveIn(node'[m])
      PROVE  ShareIn(Initiator, node'[Initiator]) + ShareIn(Target, node'[Target]) = 1
  <2>1. AliveIn(node[n]) /\ ShareIn(n, node'[n]) = ShareIn(n, node[n]) BY <1>1, <1>3 DEF Moves
  <2>2. \A m \in Node : AliveIn(node[m]) BY <1>1, <1>3, <2>1
  <2>3. ShareIn(Initiator, node[Initiator]) + ShareIn(Target, node[Target]) = 1 BY <1>3, <2>2 DEF LinkInv
  <2>4. \A m \in Node : ShareIn(m, node'[m]) = ShareIn(m, node[m]) BY <1>1, <2>1
  <2> QED BY <2>3, <2>4, TwoNodes
<1> QED BY <1>1, <1>2, <1>3 DEF LinkInv, AliveIn, ShareIn

(* NFC_DATA_CEVT. *)
LEMMA RxDataKeeps == ASSUME LinkInv, NEW n \in Node, RxData(n) PROVE LinkInv'
<1> DEFINE p == Peer(n)
           s == [node[n] EXCEPT !.rx_started = FALSE]
           x == [s EXCEPT !.rx_any = TRUE]
           q == [node[p] EXCEPT !.out = Tail(@)]
           f == Head(node[p].out)
           Out(c) == CASE ~s.cback -> s
                       [] s.cback /\ s.link_state = "DEACTIVATED" -> SendToLower(s, Symm)
                       [] s.cback /\ s.link_state = "ACTIVATION_FAILED" -> SendData(s, [invalid |-> TRUE, pdus |-> <<>>])
                       [] OTHER -> ProcRxData(n, x, f, c)
<1>1. /\ carrier /\ s.rf = "on" /\ node[p].out # <<>> /\ UNCHANGED <<carrier, session, env>>
      /\ \E c \in Choice : node' = [node EXCEPT ![n] = Out(c), ![p].out = Tail(@)]
  BY DEF RxData
<1>2. PICK c \in Choice : node' = [node EXCEPT ![n] = Out(c), ![p].out = Tail(@)] BY <1>1
<1> DEFINE t == Out(c)
<1>3. p \in Node /\ p # n /\ DOMAIN node = Node BY TwoNodes DEF LinkInv
<1>4. node'[n] = t /\ node'[p] = q /\ node' = [m \in Node |-> node'[m]] /\ DOMAIN node' = Node
  <2>1. node' = [node EXCEPT ![n] = t, ![p].out = Tail(@)] BY <1>2
  <2> HIDE DEF t, p
  <2>2. node'[n] = t /\ DOMAIN node' = Node /\ node' = [m \in Node |-> node'[m]] BY <1>3, <2>1
  <2>5. node'[p] = q BY <1>3, <2>1
  <2> QED BY <2>2, <2>5
<1>5. Sound(n, node[n]) /\ Watched(n, node[n]) /\ Sound(p, node[p]) /\ Watched(p, node[p]) BY <1>3 DEF LinkInv
<1>6. env \in Environments /\ session \in Nat BY LinkInvFacts
<1>7. /\ Sound(n, s) /\ s.rf = "on" /\ s.link_state = node[n].link_state /\ s.symm_state = node[n].symm_state
      /\ s.out = node[n].out /\ s.timer = node[n].timer /\ ~s.rx_started /\ node[n].rf = "on"
  <2>1. node[n] \in ControlBlock BY <1>5 DEF Sound
  <2>2. /\ s \in ControlBlock /\ s.rf = node[n].rf /\ s.link_state = node[n].link_state /\ s.symm_state = node[n].symm_state
        /\ s.out = node[n].out /\ s.timer = node[n].timer /\ ~s.rx_started /\ s.cback = node[n].cback
        /\ s.inact_timer = node[n].inact_timer /\ s.reports = node[n].reports
    BY <2>1 DEF ControlBlock
  <2>3. s.rf = "on" BY <1>1
  <2> HIDE DEF s
  <2> QED BY <1>5, <2>2, <2>3 DEF Sound, Up
<1> HIDE DEF s
<1>8. /\ Sound(n, x) /\ x.rf = "on" /\ x.link_state = s.link_state /\ x.symm_state = s.symm_state
      /\ x.out = s.out /\ x.timer = s.timer /\ ~x.rx_started
  BY <1>7, ZenonT(60) DEF Sound, ControlBlock, Up
<1> HIDE DEF x
<1>9. (Watched(n, s) /\ Watched(n, x)) \/ s.symm_state = "REMOTE_XMIT_NEXT"
  BY <1>5, <1>7, <1>8 DEF Watched, Up, Sound, ControlBlock
<1> HIDE DEF p
<1>10. node[p].out \in Seq(Frame) /\ f \in Frame /\ Tail(node[p].out) \in Seq(Frame) /\ Len(Tail(node[p].out)) = Len(node[p].out) - 1
       /\ Len(node[p].out) \in Nat \ {0}
  <2> DEFINE o == node[p].out
  <2>1. o \in Seq(Frame) /\ o # <<>> BY <1>1, <1>5 DEF Sound, ControlBlock
  <2> HIDE DEF o
  <2>2. Head(o) \in Frame /\ Tail(o) \in Seq(Frame) /\ Len(Tail(o)) = Len(o) - 1 /\ Len(o) \in Nat \ {0} BY <2>1
  <2> QED BY <2>1, <2>2 DEF o
<1> HIDE DEF f
<1>11. /\ Sound(p, q) /\ Watched(p, q) /\ (AliveIn(q) => AliveIn(node[p]))
       /\ (AliveIn(q) => ShareIn(p, q) = ShareIn(p, node[p]) - 1 /\ ShareIn(p, node[p]) \in Nat \ {0})
  <2>1. node[p].rf # "starting" BY <1>1, <1>5 DEF Sound
  <2>2. /\ q \in ControlBlock /\ q.link_state = node[p].link_state /\ q.cback = node[p].cback /\ q.rf = node[p].rf
        /\ q.inact_timer = node[p].inact_timer /\ q.timer = node[p].timer /\ q.symm_state = node[p].symm_state
        /\ q.reports = node[p].reports /\ q.rx_started = node[p].rx_started /\ q.out = Tail(node[p].out)
    BY <1>5, <1>10 DEF Sound, ControlBlock
  <2> HIDE DEF q
  <2>3. Sound(p, q) BY <1>1, <1>5, <2>1, <2>2 DEF Sound, Up
  <2>4. Watched(p, q) BY <1>5, <2>2 DEF Watched, Up
  <2>5. AliveIn(q) => AliveIn(node[p]) BY <2>2 DEF AliveIn
  <2>6. ShareIn(p, q) = ShareIn(p, node[p]) - 1 /\ ShareIn(p, node[p]) \in Nat \ {0}
    <3> DEFINE k == IF node[p].symm_state = "LOCAL_XMIT_NEXT" THEN 1 ELSE 0
    <3>1. ShareIn(p, node[p]) = k + Len(node[p].out) BY <2>1 DEF ShareIn
    <3>2. ShareIn(p, q) = k + Len(Tail(node[p].out)) BY <2>1, <2>2 DEF ShareIn
    <3>3. k \in Nat OBVIOUS
    <3> HIDE DEF k
    <3> QED BY <1>10, <3>1, <3>2, <3>3
  <2> QED BY <2>3, <2>4, <2>5, <2>6
<1> HIDE DEF q
<1>12. /\ Sound(n, t) /\ Watched(n, t) /\ (AliveIn(t) => Up(s) /\ AliveIn(s))
       /\ (AliveIn(t) /\ s.symm_state = "REMOTE_XMIT_NEXT" => ShareIn(n, t) = ShareIn(n, s) + 1)
  <2>1. CASE ~s.cback
    <3>1. t = s BY <2>1
    <3>2. ~Up(s) /\ ~AliveIn(s) BY <1>7, <2>1 DEF Sound, Up, AliveIn
    <3> HIDE DEF t
    <3> QED BY <1>7, <3>1, <3>2 DEF Watched
  <2>2. CASE s.cback /\ s.link_state = "DEACTIVATED"
    <3>1. t = SendToLower(s, Symm) BY <2>2
    <3> HIDE DEF t
    <3>2. Remains(s, t) /\ Sends(s, t) /\ t.timer = s.timer /\ t.inact_timer = s.inact_timer
      BY <1>7, <3>1, SymmType, SendToLowerSends DEF Sound
    <3> QED BY <1>1, <1>7, <2>2, <3>2 DEF Remains, Sound, Watched, AliveIn, Up
  <2>3. CASE s.cback /\ s.link_state = "ACTIVATION_FAILED"
    <3> DEFINE y == [invalid |-> TRUE, pdus |-> <<>>]
               o == Append(s.out, y)
    <3>1. t = [s EXCEPT !.out = o] BY <1>1, <2>3 DEF SendData
    <3>2. o \in Seq(Frame)
      <4>1. <<>> \in Seq(Pdu) OBVIOUS
      <4>2. y \in Frame BY <4>1 DEF Frame
      <4> HIDE DEF y
      <4> QED BY <1>7, <4>2 DEF Sound, ControlBlock
    <3> HIDE DEF t, o
    <3>3. /\ t \in ControlBlock /\ t.link_state = s.link_state /\ t.cback = s.cback /\ t.rf = s.rf
          /\ t.inact_timer = s.inact_timer /\ t.timer = s.timer /\ t.symm_state = s.symm_state
          /\ t.reports = s.reports
      BY <1>7, <3>1, <3>2 DEF Sound, ControlBlock
    <3> QED BY <1>1, <1>7, <2>3, <3>3 DEF Sound, Watched, AliveIn, Up
  <2>4. CASE s.cback /\ s.link_state \notin {"DEACTIVATED", "ACTIVATION_FAILED"}
    <3>1. t = ProcRxData(n, x, f, c) BY <2>4
    <3> HIDE DEF t
    <3>2. Up(s) /\ Up(x) BY <1>7, <1>8, <2>4 DEF Up, Sound, ControlBlock, LINK_STATE
    <3>3. x.symm_state = "LOCAL_XMIT_NEXT" => Watched(n, x) BY <1>8, <1>9
    <3>4. /\ Sound(n, t) /\ Watched(n, t) /\ (AliveIn(t) => AliveIn(x))
          /\ (AliveIn(t) /\ x.symm_state = "REMOTE_XMIT_NEXT" => ShareIn(n, t) = ShareIn(n, x) + 1)
      BY <1>1, <1>6, <1>8, <1>10, <3>1, <3>2, <3>3, ProcRxDataMoves
    <3>5. ShareIn(n, x) = ShareIn(n, s) BY <1>7, <1>8 DEF ShareIn
    <3>6. AliveIn(x) => AliveIn(s) BY <1>7, <1>8 DEF AliveIn
    <3> QED BY <1>8, <3>2, <3>4, <3>5, <3>6
  <2> QED BY <2>1, <2>2, <2>3, <2>4
<1> HIDE DEF t
<1>13. ASSUME NEW m \in Node PROVE (Sound(m, node[m]) /\ Watched(m, node[m]))'
  <2>1. CASE m = n BY <1>1, <1>4, <1>12, <2>1, SoundNext
  <2>2. CASE m = p BY <1>1, <1>4, <1>11, <2>2, SoundNext
  <2> QED BY <2>1, <2>2, TwoNodes, SMTT(30) DEF p
<1>14. ASSUME \A m \in Node : AliveIn(node'[m])
       PROVE  ShareIn(Initiator, node'[Initiator]) + ShareIn(Target, node'[Target]) = 1
  <2>1. AliveIn(t) /\ AliveIn(q) BY <1>3, <1>4, <1>14
  <2>2. AliveIn(node[n]) /\ AliveIn(node[p]) BY <1>7, <1>11, <1>12, <2>1 DEF AliveIn
  <2>3. \A m \in Node : AliveIn(node[m]) BY <2>2, TwoNodes DEF p
  <2>4. ShareIn(Initiator, node[Initiator]) + ShareIn(Target, node[Target]) = 1 BY <1>1, <2>3 DEF LinkInv
  <2>5. ShareIn(n, node[n]) + ShareIn(p, node[p]) = 1
    <3>1. ShareIn(n, node[n]) \in Int BY <1>5 DEF ShareIn, Sound, ControlBlock
    <3>2. ShareIn(p, node[p]) \in Int BY <1>11, <2>1
    <3> QED BY <2>4, <3>1, <3>2, TwoNodes DEF p, Peer, Node
  <2>6. ShareIn(n, s) = ShareIn(n, node[n]) BY <1>7 DEF ShareIn
  <2>7. s.symm_state = "REMOTE_XMIT_NEXT"
    <3>1. s.symm_state \in {"LOCAL_XMIT_NEXT", "REMOTE_XMIT_NEXT"} /\ s.out \in Seq(Frame) BY <1>7 DEF Sound, ControlBlock
    <3>2. s.symm_state = "LOCAL_XMIT_NEXT" => ShareIn(n, s) >= 1 BY <1>7, <3>1 DEF ShareIn
    <3>3. ShareIn(p, node[p]) \in Nat \ {0} BY <1>11, <2>1
    <3>4. ShareIn(n, node[n]) \in Int BY <1>5 DEF ShareIn, Sound, ControlBlock
    <3>5. ShareIn(n, node[n]) <= 0 BY <2>5, <3>3, <3>4
    <3> QED BY <2>6, <3>1, <3>2, <3>4, <3>5
  <2>8. ShareIn(n, t) = ShareIn(n, node[n]) + 1 BY <1>12, <2>1, <2>6, <2>7
  <2>9. ShareIn(n, node[n]) \in Int BY <1>5 DEF ShareIn, Sound, ControlBlock
  <2>10. ShareIn(n, node'[n]) + ShareIn(p, node'[p]) = 1 BY <1>4, <1>11, <2>1, <2>5, <2>8, <2>9
  <2>11. ShareIn(n, node'[n]) \in Int /\ ShareIn(p, node'[p]) \in Int BY <1>4, <1>11, <2>1, <2>8, <2>9
  <2> QED BY <2>10, <2>11, TwoNodes DEF p, Peer, Node
<1> QED BY <1>1, <1>4, <1>13, <1>14 DEF LinkInv, AliveIn, ShareIn

(* The handlers of one device that neither end the link nor make one. *)
LEMMA QuietMoves ==
  ASSUME NEW n \in Node, NEW s, Sound(n, s), Watched(n, s), NEW t, Quiet(s, t) PROVE Moves(n, s, t)
BY SoundGrows DEF Moves, Watched, Quiet, Up, AliveIn, ShareIn

(* A device that moves from t, which is as alive as s and has the same share, moves from s. *)
LEMMA MovesTrans ==
  ASSUME NEW n, NEW s, NEW t, NEW u, carrier => (AliveIn(t) => AliveIn(s) /\ ShareIn(n, t) = ShareIn(n, s)), Moves(n, t, u)
  PROVE  Moves(n, s, u)
BY DEF Moves

(* llcp_link_check_send_data for an activated link. *)
LEMMA CheckSendDataMoves ==
  ASSUME NEW n \in Node, NEW s, Sound(n, s), s.link_state = "ACTIVATED", session \in Nat, env \in Environments,
         NEW c \in Choice, s.symm_state = "LOCAL_XMIT_NEXT" \/ Watched(n, s)
  PROVE  Moves(n, s, CheckSendData(s, c))
<1> DEFINE t == CheckSendData(s, c)
<1>1. Checked(s, t) BY CheckSendDataChecked DEF Sound
<1> HIDE DEF t
<1>2. s.rf = "on" /\ t.rf = "on" /\ t.link_state = "ACTIVATED" /\ s.out \in Seq(Frame)
  BY <1>1 DEF Sound, Checked, Remains, ControlBlock
<1>3. Sound(n, t)
  <2>1. ~carrier => t.out = <<>> BY <1>1 DEF Checked, Sends, Sound
  <2>2. t.timer # "DELAY_FIRST_PDU" \/ (t.timer = s.timer /\ t.symm_state = s.symm_state)
    <3>1. s.symm_state \in {"LOCAL_XMIT_NEXT", "REMOTE_XMIT_NEXT"} BY DEF Sound, ControlBlock
    <3>2. CASE s.symm_state = "LOCAL_XMIT_NEXT"
      <4>1. t.timer = "LINK_MANAGER" BY <1>1, <3>2 DEF Checked
      <4>2. t.timer # "DELAY_FIRST_PDU" BY <4>1
      <4> QED BY <4>2
    <3>3. CASE s.symm_state = "REMOTE_XMIT_NEXT" BY <1>1, <3>3 DEF Checked
    <3> QED BY <3>1, <3>2, <3>3
  <2> QED BY <1>1, <1>2, <2>1, <2>2 DEF Sound, Checked, Remains, Up
<1>4. Watched(n, t)
  <2>1. CASE s.symm_state = "LOCAL_XMIT_NEXT"
    <3>1. t.timer = "LINK_MANAGER" BY <1>1, <2>1 DEF Checked
    <3> QED BY <3>1 DEF Watched
  <2>2. CASE s.symm_state = "REMOTE_XMIT_NEXT" BY <1>1, <1>2, <2>2 DEF Checked, Remains, Watched, Up
  <2> QED BY <2>1, <2>2 DEF Sound, ControlBlock
<1>5. carrier => ShareIn(n, t) = ShareIn(n, s)
  <2>1. CASE t.symm_state = s.symm_state /\ t.out = s.out BY <1>2, <2>1 DEF ShareIn
  <2>2. CASE s.symm_state = "LOCAL_XMIT_NEXT" /\ Sends(s, t)
    <3>1. carrier => Len(t.out) = Len(s.out) + 1 BY <1>2, <2>2 DEF Sends
    <3>2. ShareIn(n, s) = 1 + Len(s.out) /\ ShareIn(n, t) = Len(t.out) BY <1>2, <2>2 DEF ShareIn, Sends
    <3> QED BY <1>2, <3>1, <3>2
  <2> QED BY <1>1, <2>1, <2>2 DEF Checked
<1> QED BY <1>2, <1>3, <1>4, <1>5 DEF Moves, AliveIn, t

(* NFC_DATA_START_CEVT. *)
LEMMA DataStartKeeps == ASSUME LinkInv, NEW n \in Node, DataStart(n) PROVE LinkInv'
<1> DEFINE s == node[n]
           tm == IF s.symm_state = "REMOTE_XMIT_NEXT" THEN "none" ELSE s.timer
           t == [s EXCEPT !.rx_started = TRUE, !.timer = tm]
<1>1. Sound(n, s) /\ Watched(n, s) BY DEF LinkInv
<1>2. Update(n, t) BY DEF DataStart
<1>3. /\ t \in ControlBlock /\ t.link_state = s.link_state /\ t.symm_state = s.symm_state /\ t.timer = tm
      /\ t.inact_timer = s.inact_timer /\ t.cback = s.cback /\ t.rf = s.rf
      /\ t.rx_started = TRUE /\ t.out = s.out /\ t.reports = s.reports
  <2>1. tm \in {"none", "LINK_MANAGER", "DELAY_FIRST_PDU"} BY <1>1 DEF Sound, ControlBlock
  <2> HIDE DEF tm
  <2> QED BY <1>1, <2>1 DEF Sound, ControlBlock
<1> HIDE DEF t
<1>4. Sound(n, t) BY <1>1, <1>3 DEF Sound, Up
<1>5. Watched(n, t) BY <1>1, <1>3 DEF Watched, Up, Sound, ControlBlock
<1>6. Moves(n, s, t) BY <1>3, <1>4, <1>5 DEF Moves, AliveIn, ShareIn
<1> QED BY <1>2, <1>6, UpdateKeeps

(* The timer that expires is stopped: the link is sound, but not watched. *)
LEMMA StoppedTimer ==
  ASSUME NEW n \in Node, NEW s, Sound(n, s)
  PROVE  LET t == [s EXCEPT !.timer = "none"]
         IN /\ Sound(n, t) /\ t.timer = "none" /\ t.link_state = s.link_state /\ t.symm_state = s.symm_state
            /\ AliveIn(t) = AliveIn(s) /\ ShareIn(n, t) = ShareIn(n, s)
<1> DEFINE t == [s EXCEPT !.timer = "none"]
<1>1. /\ t \in ControlBlock /\ t.link_state = s.link_state /\ t.symm_state = s.symm_state /\ t.timer = "none"
      /\ t.inact_timer = s.inact_timer /\ t.cback = s.cback /\ t.rf = s.rf
      /\ t.rx_started = s.rx_started /\ t.out = s.out /\ t.reports = s.reports
  BY DEF Sound, ControlBlock
<1> HIDE DEF t
<1>2. Sound(n, t) BY <1>1 DEF Sound, Up
<1> QED BY <1>1, <1>2 DEF AliveIn, ShareIn, t

(* The timer of the link manager, and of the first PDU. *)
LEMMA TimeoutKeeps == ASSUME LinkInv, NEW n \in Node, Timeout(n) PROVE LinkInv'
<1> DEFINE s == [node[n] EXCEPT !.timer = "none"]
<1>1. Sound(n, node[n]) /\ Watched(n, node[n]) /\ env \in Environments /\ session \in Nat
  BY LinkInvFacts DEF LinkInv
<1>2. /\ Sound(n, s) /\ s.timer = "none" /\ s.link_state = node[n].link_state /\ s.symm_state = node[n].symm_state
      /\ AliveIn(s) = AliveIn(node[n]) /\ ShareIn(n, s) = ShareIn(n, node[n])
  BY <1>1, StoppedTimer
<1>3. CASE LinkTimeout(n)
  <2>1. PICK c \in Choice : Update(n, ProcessLinkTimeout(n, s, c)) BY <1>3 DEF LinkTimeout
  <2> HIDE DEF s
  <2>2. Moves(n, s, ProcessLinkTimeout(n, s, c)) BY <1>1, <1>2, ProcessLinkTimeoutMoves
  <2>3. Moves(n, node[n], ProcessLinkTimeout(n, s, c)) BY <1>2, <2>2, MovesTrans
  <2> QED BY <2>1, <2>3, UpdateKeeps
<1>4. CASE FirstPduTimeout(n)
  <2>1. node[n].timer = "DELAY_FIRST_PDU" BY <1>4 DEF FirstPduTimeout
  <2>2. PICK c \in Choice : Update(n, CheckSendData(s, c)) BY <1>4 DEF FirstPduTimeout
  <2>3. s.link_state = "ACTIVATED" /\ s.symm_state = "LOCAL_XMIT_NEXT" BY <1>1, <1>2, <2>1 DEF Sound
  <2> HIDE DEF s
  <2>4. Moves(n, s, CheckSendData(s, c)) BY <1>1, <1>2, <2>3, CheckSendDataMoves
  <2>5. Moves(n, node[n], CheckSendData(s, c)) BY <1>2, <2>4, MovesTrans
  <2> QED BY <2>2, <2>5, UpdateKeeps
<1> QED BY <1>3, <1>4 DEF Timeout

(* The inactivity timer. *)
LEMMA InactivityTimeoutKeeps == ASSUME LinkInv, NEW n \in Node, InactivityTimeout(n) PROVE LinkInv'
<1> DEFINE s == [node[n] EXCEPT !.inact_timer = FALSE]
<1>1. Sound(n, node[n]) /\ Watched(n, node[n]) /\ env \in Environments /\ session \in Nat /\ Up(node[n])
  BY LinkInvFacts DEF LinkInv, InactivityTimeout, Sound
<1>2. PICK c \in Choice : Update(n, LinkDeactivate(n, s, "LOCAL_INITIATED", c)) BY DEF InactivityTimeout
<1>3. /\ s \in ControlBlock /\ s.link_state = node[n].link_state /\ s.symm_state = node[n].symm_state
      /\ s.timer = node[n].timer /\ s.inact_timer = FALSE /\ s.cback = node[n].cback /\ s.rf = node[n].rf
      /\ s.rx_started = node[n].rx_started /\ s.out = node[n].out /\ s.reports = node[n].reports
  BY <1>1 DEF Sound, ControlBlock
<1> HIDE DEF s
<1>4. Sound(n, s) /\ Watched(n, s) /\ Up(s) BY <1>1, <1>3 DEF Sound, Watched, Up
<1> DEFINE t == LinkDeactivate(n, s, "LOCAL_INITIATED", c)
<1>5. Ended(n, s, t) BY <1>1, <1>4, SendDiscEnds
<1> HIDE DEF t
<1>6. Ended(n, node[n], t) BY <1>3, <1>5 DEF Ended
<1> QED BY <1>2, <1>6, EndedMoves, UpdateKeeps DEF t

(* NFC_ERROR_CEVT: the reports of such a device are not counted. *)
LEMMA InterfaceErrorKeeps == ASSUME LinkInv, NEW n \in Node, InterfaceError(n) PROVE LinkInv'
<1>1. Sound(n, node[n]) BY DEF LinkInv
<1>2. PICK c \in Choice : Update(n, LinkDeactivate(n, node[n], "NFCC_ERROR", c)) BY DEF InterfaceError
<1>3. Exempt(n) BY DEF InterfaceError, Exempt
<1>4. Endable(n, node[n]) BY <1>1, <1>3, SoundEndable
<1>5. Ended(n, node[n], LinkDeactivate(n, node[n], "NFCC_ERROR", c)) BY <1>4, LinkDeactivateEnds
<1> QED BY <1>2, <1>5, EndedMoves, UpdateKeeps

(* LLCP_DeactivateLink. *)
LEMMA DeactivateLinkKeeps == ASSUME LinkInv, NEW n \in Node, DeactivateLink(n) PROVE LinkInv'
<1> DEFINE s == [node[n] EXCEPT !.ndeact = @ + 1]
<1>1. Sound(n, node[n]) /\ Watched(n, node[n]) /\ env \in Environments /\ session \in Nat
  BY LinkInvFacts DEF LinkInv
<1>2. PICK c \in Choice : Update(n, LinkDeactivate(n, s, "LOCAL_INITIATED", c)) BY DEF DeactivateLink
<1>3. Quiet(node[n], s)
  <2>1. node[n] \in ControlBlock BY <1>1 DEF Sound
  <2>2. node[n].ndeact + 1 \in Nat BY <2>1 DEF ControlBlock
  <2> QED BY <2>1, <2>2 DEF ControlBlock, Quiet
<1> HIDE DEF s
<1>4. Sound(n, s) /\ Watched(n, s) BY <1>1, <1>3, QuietMoves DEF Moves
<1>5. Up(s) \/ (s.link_state = "ACTIVATION_FAILED" /\ ClosesRefused(n))
  <2>1. s.link_state \in LINK_STATE /\ s.link_state # "DEACTIVATED" BY <1>3 DEF DeactivateLink, Quiet, ControlBlock
  <2>2. s.link_state = "ACTIVATION_FAILED" => ClosesRefused(n) BY <1>4 DEF Sound, ClosesRefused, DeactivateLink
  <2> QED BY <2>1, <2>2 DEF LINK_STATE, Up
<1> DEFINE t == LinkDeactivate(n, s, "LOCAL_INITIATED", c)
<1>6. Ended(n, s, t) BY <1>1, <1>4, <1>5, SendDiscEnds
<1> HIDE DEF t
<1>7. Ended(n, node[n], t) BY <1>3, <1>6 DEF Ended, Quiet
<1> QED BY <1>2, <1>7, EndedMoves, UpdateKeeps DEF t

(* NFC_DEACTIVATE_CEVT. *)
LEMMA RfDeactivatedKeeps == ASSUME LinkInv, NEW n \in Node, RfDeactivated(n) PROVE LinkInv'
<1> DEFINE s == [node[n] EXCEPT !.rf = "off", !.rx_started = FALSE]
           s0 == [s EXCEPT !.timer = "none"]
           Out(c) == CASE ~s.cback -> s
                       [] s.cback /\ s.link_state = "DEACTIVATING" /\ n = Target -> ProcessLinkTimeout(n, s0, c)
                       [] s.cback /\ s.link_state = "ACTIVATION_FAILED" -> [s EXCEPT !.link_state = "DEACTIVATED"]
                       [] s.cback /\ s.link_state = "DEACTIVATED" -> s
                       [] OTHER -> LinkDeactivate(n, s, "RF_LINK_LOSS_ERR", c)
           End(t) == [t EXCEPT !.cback = FALSE, !.rf_deactivate = FALSE]
<1>1. ~carrier /\ node[n].rf = "on" BY DEF RfDeactivated
<1>2. PICK c \in Choice : Update(n, End(Out(c))) BY DEF RfDeactivated
<1>3. Sound(n, node[n]) BY DEF LinkInv
<1>4. /\ s \in ControlBlock /\ s.link_state = node[n].link_state /\ s.symm_state = node[n].symm_state
      /\ s.timer = node[n].timer /\ s.inact_timer = node[n].inact_timer /\ s.cback = node[n].cback /\ s.rf = "off"
      /\ s.out = node[n].out /\ s.reports = node[n].reports /\ s.deact_reason = node[n].deact_reason
  BY <1>3 DEF Sound, ControlBlock
<1>5. /\ s.out = <<>> /\ (~s.cback => s.link_state = "DEACTIVATED") /\ (~Exempt(n) => s.reports <= 1)
      /\ (~Exempt(n) /\ Up(s) => s.reports = 0) /\ (s.link_state = "DEACTIVATED" => ~s.inact_timer)
      /\ (s.link_state # "ACTIVATED" => s.timer # "DELAY_FIRST_PDU")
      /\ (s.link_state = "ACTIVATION_FAILED" => ~s.inact_timer)
  BY <1>1, <1>3, <1>4 DEF Sound, Up
<1>6. /\ s0 \in ControlBlock /\ s0.link_state = s.link_state /\ s0.timer = "none" /\ s0.out = <<>> /\ s0.rf = "off"
      /\ s0.reports = s.reports
  <2> HIDE DEF s
  <2> QED BY <1>4, <1>5, SMTT(30) DEF ControlBlock
<1> HIDE DEF s0
(* A control block whose link is down, whatever was done to it. *)
<1> DEFINE Off(t) == /\ t \in ControlBlock /\ t.link_state = "DEACTIVATED" /\ ~t.inact_timer
                     /\ t.timer # "DELAY_FIRST_PDU" /\ (~Exempt(n) => t.reports <= 1) /\ t.out = <<>> /\ t.rf = "off"
<1>7. Off(Out(c))
  <2>1. CASE ~s.cback
    <3>1. Out(c) = s BY <2>1
    <3> HIDE DEF s, Out
    <3> QED BY <1>4, <1>5, <2>1, <3>1
  <2>2. CASE s.cback /\ s.link_state = "DEACTIVATING" /\ n = Target
    <3> DEFINE d == DeactivateCleanup(n, s0, s0.deact_reason)
               u == [d EXCEPT !.cback = FALSE]
    <3>1. Out(c) = ProcessLinkTimeout(n, s0, c) BY <2>2
    <3>2. ProcessLinkTimeout(n, s0, c) = u BY <1>6, <2>2 DEF ProcessLinkTimeout
    <3> HIDE DEF s, Out
    <3>3. d \in ControlBlock /\ d.link_state = "DEACTIVATED" /\ d.timer = "none" /\ d.inact_timer = FALSE
          /\ d.rf = "off" /\ d.out = <<>> /\ (s0.reports = 0 => d.reports = 1)
      BY <1>6, CleanupType, ZenonT(60)
    <3> HIDE DEF d
    <3>4. /\ u \in ControlBlock /\ u.link_state = "DEACTIVATED" /\ u.timer = "none" /\ u.inact_timer = FALSE
          /\ u.rf = "off" /\ u.out = <<>> /\ u.reports = d.reports
      BY <3>3 DEF ControlBlock
    <3> HIDE DEF u
    <3>5. ~Exempt(n) => u.reports <= 1 BY <1>5, <1>6, <2>2, <3>3, <3>4 DEF Up
    <3> QED BY <3>1, <3>2, <3>4, <3>5
  <2>3. CASE s.cback /\ s.link_state = "ACTIVATION_FAILED"
    <3> DEFINE u == [s EXCEPT !.link_state = "DEACTIVATED"]
    <3>1. Out(c) = u BY <2>3
    <3> HIDE DEF s, Out
    <3>2. /\ u \in ControlBlock /\ u.link_state = "DEACTIVATED" /\ u.timer = s.timer /\ u.inact_timer = s.inact_timer
          /\ u.rf = "off" /\ u.out = s.out /\ u.reports = s.reports
      BY <1>4 DEF ControlBlock, LINK_STATE
    <3> HIDE DEF u
    <3> QED BY <1>5, <2>3, <3>1, <3>2
  <2>4. CASE s.cback /\ s.link_state = "DEACTIVATED"
    <3>1. Out(c) = s BY <2>4
    <3> HIDE DEF s, Out
    <3> QED BY <1>4, <1>5, <2>4, <3>1
  <2>5. CASE s.cback /\ Up(s) /\ ~(s.link_state = "DEACTIVATING" /\ n = Target)
    <3> DEFINE w == [s EXCEPT !.cback = FALSE]
               s1 == FlushQueues(s)
               s2 == FlushData(n, s1, c)
               lost == IF ~s.rx_any THEN "RF_LINK_LOSS_NO_RX_LLC" ELSE "RF_LINK_LOSS_ERR"
    <3>1. Out(c) = LinkDeactivate(n, s, "RF_LINK_LOSS_ERR", c) BY <2>5 DEF Up
    <3> HIDE DEF s, Out
    <3>2. LinkDeactivate(n, s, "RF_LINK_LOSS_ERR", c) = DeactivateCleanup(n, s2, lost) BY DEF LinkDeactivate
    <3> HIDE DEF lost
    <3>3. Quiet(s, s1) /\ s1 \in ControlBlock BY <1>4, FlushQueuesQuiet, QuietType
    <3> HIDE DEF s1
    <3>4. Remains(s1, s2) /\ s2.out \in {s1.out, <<>>} /\ s2 \in ControlBlock BY <3>3, FlushDataDrops, RemainsType
    <3> HIDE DEF s2
    <3>5. s2.rf = "off" /\ s2.out = <<>> /\ s2.reports = s.reports BY <1>4, <1>5, <3>3, <3>4 DEF Quiet, Remains
    <3> DEFINE d == DeactivateCleanup(n, s2, lost)
    <3>6. d \in ControlBlock /\ d.link_state = "DEACTIVATED" /\ d.timer = "none" /\ d.inact_timer = FALSE
          /\ d.rf = "off" /\ d.out = <<>> /\ (s2.reports = 0 => d.reports = 1)
      BY <3>4, <3>5, CleanupType, ZenonT(60)
    <3> HIDE DEF d
    <3>7. ~Exempt(n) => d.reports <= 1 BY <1>5, <2>5, <3>5, <3>6
    <3> QED BY <3>1, <3>2, <3>6, <3>7 DEF d
  <2> QED BY <1>4, <2>1, <2>2, <2>3, <2>4, <2>5 DEF ControlBlock, LINK_STATE, Up
<1> DEFINE o == Out(c)
           t == End(o)
<1>8. Update(n, t) /\ Off(o) BY <1>2, <1>7
<1> HIDE DEF o, Out
<1>9. /\ t \in ControlBlock /\ t.link_state = "DEACTIVATED" /\ ~t.inact_timer /\ t.timer # "DELAY_FIRST_PDU"
      /\ (~Exempt(n) => t.reports <= 1) /\ t.out = <<>> /\ t.rf = "off" /\ t.cback = FALSE
  BY <1>8 DEF ControlBlock
<1> HIDE DEF t
<1>10. Sound(n, t) /\ Watched(n, t) /\ ~AliveIn(t) BY <1>9 DEF Sound, Watched, AliveIn, Up
<1> QED BY <1>8, <1>10, UpdateKeeps DEF Moves

(* LLCP_ActivateLink. *)
LEMMA LinkActivateKeeps ==
  ASSUME LinkInv, NEW n \in Node, NEW accepted \in BOOLEAN, LinkActivate(n, accepted) PROVE LinkInv'
<1> DEFINE s  == [node[n] EXCEPT !.rf = "on"]
           s1 == [s EXCEPT !.rx_any = FALSE, !.link_state = "ACTIVATED", !.cback = TRUE, !.reports = 0]
           f1 == [s EXCEPT !.rf_deactivate = TRUE]
           f2 == [s EXCEPT !.rf_deactivate = TRUE, !.cback = TRUE, !.link_state = "ACTIVATION_FAILED"]
           t1 == StartLinkTimer([s1 EXCEPT !.symm_state = "REMOTE_XMIT_NEXT"])
           i1 == [s1 EXCEPT !.symm_state = "LOCAL_XMIT_NEXT", !.timer = "DELAY_FIRST_PDU"]
           i2 == SendToLower(s1, Symm)
<1>1. /\ node[n].rf = "starting" /\ (accepted \/ "refuse" \in env.uses[n])
      /\ Update(n, CASE s.link_state # "DEACTIVATED" -> s
                     [] s.link_state = "DEACTIVATED" /\ ~accepted -> IF n = Initiator THEN f1 ELSE f2
                     [] s.link_state = "DEACTIVATED" /\ accepted /\ n = Target -> t1
                     [] s.link_state = "DEACTIVATED" /\ accepted /\ n = Initiator ->
                          IF env.first_delay THEN i1 ELSE i2)
  BY DEF LinkActivate
<1>2. Sound(n, node[n]) BY DEF LinkInv
<1>3. /\ s \in ControlBlock /\ s.link_state = "DEACTIVATED" /\ s.symm_state = node[n].symm_state
      /\ s.timer = node[n].timer /\ s.timer # "DELAY_FIRST_PDU" /\ ~s.inact_timer /\ ~s.cback /\ s.rf = "on"
      /\ s.rx_started = node[n].rx_started /\ s.out = <<>> /\ s.reports = node[n].reports
      /\ (~Exempt(n) => s.reports <= 1)
  BY <1>1, <1>2 DEF Sound, ControlBlock, Up
<1> HIDE DEF s
<1>4. AliveIn(node[n]) /\ ShareIn(n, node[n]) = IF n = Initiator THEN 1 ELSE 0 BY <1>1 DEF AliveIn, ShareIn
<1>5. /\ s1 \in ControlBlock /\ s1.link_state = "ACTIVATED" /\ s1.symm_state = s.symm_state /\ s1.timer = s.timer
      /\ ~s1.inact_timer /\ s1.cback /\ s1.rf = "on" /\ s1.out = <<>> /\ s1.reports = 0
  <2>1. s \in ControlBlock BY <1>3
  <2> DEFINE a == [s EXCEPT !.rx_any = FALSE, !.link_state = "ACTIVATED"]
             b == [a EXCEPT !.cback = TRUE]
  <2>6. s1 = [b EXCEPT !.reports = 0] OBVIOUS
  <2>7. a \in ControlBlock BY <2>1 DEF ControlBlock, LINK_STATE
  <2> HIDE DEF a
  <2>8. b \in ControlBlock BY <2>7 DEF ControlBlock
  <2> HIDE DEF b
  <2>9. 0 \in 0..2 OBVIOUS
  <2>2. s1 \in ControlBlock
    <3> HIDE DEF s1
    <3> QED BY <2>6, <2>8, <2>9 DEF ControlBlock
  <2>3. s1.link_state = "ACTIVATED" /\ s1.cback = TRUE /\ s1.reports = 0 BY <2>1 DEF ControlBlock
  <2>4. s1.symm_state = s.symm_state /\ s1.timer = s.timer /\ s1.inact_timer = s.inact_timer
    BY <2>1 DEF ControlBlock
  <2>5. s1.rf = s.rf /\ s1.out = s.out BY <2>1 DEF ControlBlock
  <2> QED BY <1>3, <2>2, <2>3, <2>4, <2>5
<1> HIDE DEF s1
<1>6. CASE ~accepted
  <2> DEFINE t == IF n = Initiator THEN f1 ELSE f2
  <2>1. Update(n, t) BY <1>1, <1>3, <1>6
  <2>2. /\ t \in ControlBlock /\ t.link_state \in {"DEACTIVATED", "ACTIVATION_FAILED"} /\ t.timer = s.timer
        /\ ~t.inact_timer /\ t.rf = "on" /\ t.out = <<>> /\ t.reports = s.reports
        /\ (t.link_state = "ACTIVATION_FAILED" => t.cback)
    <3>1. CASE n = Initiator BY <1>3, <3>1 DEF ControlBlock
    <3>2. CASE n # Initiator BY <1>3, <3>2 DEF ControlBlock, LINK_STATE
    <3> QED BY <3>1, <3>2
  <2> HIDE DEF t
  <2>3. Sound(n, t) /\ Watched(n, t) /\ ~AliveIn(t) BY <1>1, <1>3, <1>6, <2>2 DEF Sound, Watched, AliveIn, Up
  <2> QED BY <2>1, <2>3, UpdateKeeps DEF Moves
<1>7. CASE accepted /\ n = Target
  <2>1. n # Initiator BY <1>7, TwoNodes
  <2>2. Update(n, t1) BY <1>1, <1>3, <1>7, <2>1
  <2>3. /\ t1 \in ControlBlock /\ t1.link_state = "ACTIVATED" /\ t1.symm_state = "REMOTE_XMIT_NEXT" /\ t1.timer = "LINK_MANAGER"
        /\ ~t1.inact_timer /\ t1.cback /\ t1.rf = "on" /\ t1.out = <<>> /\ t1.reports = 0
    BY <1>5, ZenonT(60) DEF ControlBlock, StartLinkTimer
  <2> HIDE DEF t1
  <2>4. Sound(n, t1) /\ Watched(n, t1) BY <2>3 DEF Sound, Watched, Up
  <2>5. ShareIn(n, t1) = 0
    <3>1. Len(<<>>) = 0 OBVIOUS
    <3> QED BY <2>3, <3>1 DEF ShareIn
  <2> QED BY <1>4, <2>1, <2>2, <2>4, <2>5, UpdateKeeps DEF Moves
<1>8. CASE accepted /\ n = Initiator /\ env.first_delay
  <2>1. n # Target BY <1>8, TwoNodes
  <2>2. Update(n, i1) BY <1>1, <1>3, <1>8, <2>1
  <2>3. /\ i1 \in ControlBlock /\ i1.link_state = "ACTIVATED" /\ i1.symm_state = "LOCAL_XMIT_NEXT" /\ i1.timer = "DELAY_FIRST_PDU"
        /\ ~i1.inact_timer /\ i1.cback /\ i1.rf = "on" /\ i1.out = <<>> /\ i1.reports = 0
    BY <1>5, ZenonT(60) DEF ControlBlock
  <2> HIDE DEF i1
  <2>4. Sound(n, i1) /\ Watched(n, i1) BY <2>3 DEF Sound, Watched, Up
  <2>5. ShareIn(n, i1) = 1
    <3>1. Len(<<>>) = 0 OBVIOUS
    <3> QED BY <2>3, <3>1 DEF ShareIn
  <2> QED BY <1>4, <1>8, <2>2, <2>4, <2>5, UpdateKeeps DEF Moves
<1>9. CASE accepted /\ n = Initiator /\ ~env.first_delay
  <2>1. n # Target BY <1>9, TwoNodes
  <2>2. Update(n, i2) BY <1>1, <1>3, <1>9, <2>1
  <2>3. Remains(s1, i2) /\ Sends(s1, i2) /\ i2.timer = s1.timer /\ i2.inact_timer = s1.inact_timer
    BY <1>5, SymmType, SendToLowerSends
  <2> HIDE DEF i2
  <2>4. Sound(n, i2) /\ Watched(n, i2)
    BY <1>3, <1>5, <1>9, <2>3 DEF Sound, Watched, Up, Remains, Sends
  <2>5. carrier => ShareIn(n, i2) = 1
    <3>1. \A f \in Frame : Len(Append(<<>>, f)) = 1 OBVIOUS
    <3> QED BY <1>5, <2>3, <3>1 DEF ShareIn, Remains, Sends
  <2> QED BY <1>4, <1>9, <2>2, <2>4, <2>5, UpdateKeeps DEF Moves
<1> QED BY <1>6, <1>7, <1>8, <1>9 DEF Node
-----------------------------------------------------------------------------
(* The calls. *)

(* A field of one logical link changes. *)
LEMMA LinkFieldQuiet ==
  ASSUME NEW s \in ControlBlock, NEW sap \in Sap
  PROVE  /\ \A q \in Seq(Pdu) : Grows(s, [s EXCEPT !.ll[sap].ui_xmit_q = q])
         /\ \A q \in Seq(RxBuffer) : Grows(s, [s EXCEPT !.ll[sap].ui_rx_q = q])
         /\ \A q \in Seq(Nat) : Grows(s, [s EXCEPT !.ll[sap].pending = q])
         /\ Grows(s, [s EXCEPT !.ll[sap].nfa_congested = TRUE])
<1>1. ASSUME NEW L \in LogicalLink PROVE Grows(s, [s EXCEPT !.ll = [s.ll EXCEPT ![sap] = L]])
  <2>1. [s.ll EXCEPT ![sap] = L] \in [Sap -> LogicalLink] BY LinkFields
  <2> QED BY <2>1, LinksQuiet
<1>2. s.ll \in [Sap -> LogicalLink] /\ s.ll[sap] \in LogicalLink BY LinkFields
<1>3. ASSUME NEW q \in Seq(Pdu) PROVE Grows(s, [s EXCEPT !.ll[sap].ui_xmit_q = q])
  <2> DEFINE L == [s.ll[sap] EXCEPT !.ui_xmit_q = q]
  <2>1. L \in LogicalLink BY <1>2 DEF LogicalLink
  <2>2. [s EXCEPT !.ll[sap].ui_xmit_q = q] = [s EXCEPT !.ll = [s.ll EXCEPT ![sap] = L]] BY <1>2 DEF ControlBlock
  <2> HIDE DEF L
  <2> QED BY <1>1, <2>1, <2>2
<1>4. ASSUME NEW q \in Seq(RxBuffer) PROVE Grows(s, [s EXCEPT !.ll[sap].ui_rx_q = q])
  <2> DEFINE L == [s.ll[sap] EXCEPT !.ui_rx_q = q]
  <2>1. L \in LogicalLink BY <1>2 DEF LogicalLink
  <2>2. [s EXCEPT !.ll[sap].ui_rx_q = q] = [s EXCEPT !.ll = [s.ll EXCEPT ![sap] = L]] BY <1>2 DEF ControlBlock
  <2> HIDE DEF L
  <2> QED BY <1>1, <2>1, <2>2
<1>5. ASSUME NEW q \in Seq(Nat) PROVE Grows(s, [s EXCEPT !.ll[sap].pending = q])
  <2> DEFINE L == [s.ll[sap] EXCEPT !.pending = q]
  <2>1. L \in LogicalLink BY <1>2 DEF LogicalLink
  <2>2. [s EXCEPT !.ll[sap].pending = q] = [s EXCEPT !.ll = [s.ll EXCEPT ![sap] = L]] BY <1>2 DEF ControlBlock
  <2> HIDE DEF L
  <2> QED BY <1>1, <2>1, <2>2
<1>6. Grows(s, [s EXCEPT !.ll[sap].nfa_congested = TRUE])
  <2> DEFINE L == [s.ll[sap] EXCEPT !.nfa_congested = TRUE]
  <2>1. L \in LogicalLink BY <1>2 DEF LogicalLink
  <2>2. [s EXCEPT !.ll[sap].nfa_congested = TRUE] = [s EXCEPT !.ll = [s.ll EXCEPT ![sap] = L]] BY <1>2 DEF ControlBlock
  <2> HIDE DEF L
  <2> QED BY <1>1, <2>1, <2>2
<1> QED BY <1>3, <1>4, <1>5, <1>6

(* Two changes of one control block. *)
LEMMA MovesMoves ==
  ASSUME NEW n, NEW s, NEW t, NEW u, Moves(n, s, t), Moves(n, t, u) PROVE Moves(n, s, u)
BY DEF Moves

(* A quiet change in a state of the system. *)
LEMMA QuietKeeps ==
  ASSUME LinkInv, NEW n \in Node, NEW t, Quiet(node[n], t) PROVE Moves(n, node[n], t)
BY QuietMoves DEF LinkInv

(* LLCP_DiscoverService. *)
LEMMA DiscoverServiceKeeps == ASSUME LinkInv, NEW n \in Node, DiscoverService(n) PROVE LinkInv'
<1> DEFINE s == [node[n] EXCEPT !.nsdp = @ + 1, !.transac = @ \union {node[n].next_tid}, !.next_tid = @ + 1]
           i == [type |-> "SDREQ", tid |-> node[n].next_tid]
           x(c) == AddToSnl(s, i, c)
<1>1. node[n] \in ControlBlock /\ env \in Environments /\ session \in Nat BY LinkInvFacts
<1>2. PICK c \in Choice : Update(n, IF x(c).symm_state = "LOCAL_XMIT_NEXT" THEN CheckSendData(x(c), c) ELSE x(c))
  BY DEF DiscoverService
<1>3. Quiet(node[n], s) /\ s \in ControlBlock
  <2>1. node[n].nsdp + 1 \in Nat /\ node[n].transac \union {node[n].next_tid} \in SUBSET Nat /\ node[n].next_tid + 1 \in Nat
    BY <1>1, SMTT(30) DEF ControlBlock
  <2> QED BY <1>1, <2>1 DEF ControlBlock, Quiet
<1>4. i \in Item BY <1>1 DEF Item, ControlBlock
<1> HIDE DEF s, i
<1> DEFINE t == x(c)
<1>5. Quiet(node[n], t)
  <2>1. Quiet(s, t) BY <1>1, <1>3, <1>4, AddToSnlGrows, GrowsQuiet
  <2> HIDE DEF t
  <2> QED BY <1>3, <2>1, QuietTrans
<1>6. Update(n, IF t.symm_state = "LOCAL_XMIT_NEXT" THEN CheckSendData(t, c) ELSE t) BY <1>2
<1> HIDE DEF t
<1>7. Moves(n, node[n], t) /\ t.link_state = "ACTIVATED" BY <1>5, QuietKeeps DEF DiscoverService, Quiet
<1>8. CASE t.symm_state = "LOCAL_XMIT_NEXT"
  <2>1. Moves(n, t, CheckSendData(t, c)) BY <1>1, <1>7, <1>8, CheckSendDataMoves DEF Moves
  <2>2. Moves(n, node[n], CheckSendData(t, c)) BY <1>7, <2>1, MovesMoves
  <2> QED BY <1>6, <1>8, <2>2, UpdateKeeps
<1>9. CASE t.symm_state # "LOCAL_XMIT_NEXT" BY <1>6, <1>7, <1>9, UpdateKeeps
<1> QED BY <1>8, <1>9

(* NFA_P2pSendUI. *)
LEMMA P2pSendUIKeeps == ASSUME LinkInv, NEW n \in Node, NEW sap \in Sap, P2pSendUI(n, sap) PROVE LinkInv'
<1> DEFINE s == node[n]
           t1 == [s EXCEPT !.ll[sap].nfa_congested = TRUE]
           t2 == SetCongested(s, {sap}, TRUE)
           q == Append(s.ll[sap].pending, s.nui + 1)
           a == [s EXCEPT !.ll[sap].pending = q]
           t3 == [s EXCEPT !.ll[sap].pending = Append(@, s.nui + 1), !.nui = @ + 1]
<1>1. s \in ControlBlock BY LinkInvFacts
<1>2. \E t \in {t1, t2, t3} : Update(n, t) BY DEF P2pSendUI
<1>3. Quiet(s, t1) BY <1>1, LinkFieldQuiet, GrowsQuiet
<1>4. Quiet(s, t2) BY <1>1, SetCongestedQuiet, GrowsQuiet
<1>5. Quiet(s, t3)
  <2>1. q \in Seq(Nat) /\ s.nui + 1 \in Nat BY <1>1, LinkFields DEF ControlBlock
  <2>2. t3 = [a EXCEPT !.nui = s.nui + 1] BY <1>1 DEF ControlBlock
  <2> HIDE DEF q, t3
  <2>3. Quiet(s, a) BY <1>1, <2>1, LinkFieldQuiet, GrowsQuiet
  <2> HIDE DEF a
  <2>4. Quiet(a, [a EXCEPT !.nui = s.nui + 1]) BY <2>1, <2>3 DEF Quiet, ControlBlock
  <2> QED BY <2>2, <2>3, <2>4, QuietTrans
<1> HIDE DEF t1, t2, t3
<1> QED BY <1>2, <1>3, <1>4, <1>5, QuietKeeps, UpdateKeeps

(* LLCP_SendUI. *)
LEMMA SendUiKeeps == ASSUME LinkInv, NEW n \in Node, NEW sap \in Sap, SendUi(n, sap) PROVE LinkInv'
<1> DEFINE s == [node[n] EXCEPT !.ll[sap].pending = Tail(@)]
           k == Head(node[n].ll[sap].pending)
           p == [NewPdu("UI") EXCEPT !.sap = sap, !.sdu = k]
           x == [s EXCEPT !.ll[sap].ui_xmit_q = Append(@, p)]
           t(c) == CheckSendData(x, c)
           u(c) == SetCongested(t(c), {sap}, TRUE)
<1>1. node[n] \in ControlBlock /\ env \in Environments /\ session \in Nat BY LinkInvFacts
<1>2. PICK c \in Choice :
        \/ Update(n, s)
        \/ s.link_state = "ACTIVATED" /\ (Update(n, t(c)) \/ Update(n, u(c)))
  BY ZenonT(60) DEF SendUi
<1>3. Tail(node[n].ll[sap].pending) \in Seq(Nat) /\ k \in Nat
  <2> DEFINE q == node[n].ll[sap].pending
  <2>1. q \in Seq(Nat) /\ q # <<>> BY <1>1, LinkFields DEF SendUi
  <2> HIDE DEF q
  <2>2. Tail(q) \in Seq(Nat) /\ Head(q) \in Nat BY <2>1
  <2> QED BY <2>2 DEF q
<1>4. Quiet(node[n], s) /\ s \in ControlBlock
  <2>1. s = [node[n] EXCEPT !.ll[sap].pending = Tail(node[n].ll[sap].pending)] BY <1>1 DEF ControlBlock
  <2> HIDE DEF s
  <2> QED BY <1>1, <1>3, <2>1, LinkFieldQuiet, GrowsQuiet
<1> HIDE DEF s, k
<1>5. Quiet(s, x)
  <2>1. p \in Pdu BY <1>1, <1>3, NewPduType
  <2> HIDE DEF p
  <2>2. Append(s.ll[sap].ui_xmit_q, p) \in Seq(Pdu) BY <1>4, <2>1, LinkFields
  <2>3. x = [s EXCEPT !.ll[sap].ui_xmit_q = Append(s.ll[sap].ui_xmit_q, p)] BY <1>4 DEF ControlBlock
  <2> HIDE DEF x
  <2> QED BY <1>4, <2>2, <2>3, LinkFieldQuiet, GrowsQuiet
<1> HIDE DEF x
<1>6. Moves(n, node[n], s) BY <1>4, QuietKeeps
<1>7. Moves(n, node[n], x) BY <1>4, <1>5, QuietTrans, QuietKeeps
<1>8. CASE s.link_state = "ACTIVATED"
  <2>1. Moves(n, x, t(c)) BY <1>1, <1>5, <1>7, <1>8, CheckSendDataMoves DEF Moves, Quiet
  <2> DEFINE y == t(c)
  <2>2. Moves(n, x, y) /\ u(c) = SetCongested(y, {sap}, TRUE) BY <2>1
  <2> DEFINE z == SetCongested(y, {sap}, TRUE)
  <2>3. Update(n, s) \/ Update(n, y) \/ Update(n, z) BY <1>2
  <2> HIDE DEF y
  <2>4. Quiet(y, z) BY <2>2, SetCongestedQuiet, GrowsQuiet DEF Moves, Sound
  <2> HIDE DEF z
  <2>5. Moves(n, y, z) BY <2>2, <2>4, QuietMoves DEF Moves
  <2>6. Moves(n, node[n], y) BY <1>7, <2>2, MovesMoves
  <2>7. Moves(n, node[n], z) BY <2>5, <2>6, MovesMoves
  <2> QED BY <1>6, <2>3, <2>6, <2>7, UpdateKeeps
<1>9. CASE s.link_state # "ACTIVATED" BY <1>2, <1>6, <1>9, UpdateKeeps
<1> QED BY <1>8, <1>9

(* LLCP_ReadLogicalLinkData. *)
LEMMA ReadLogicalLinkDataKeeps ==
  ASSUME LinkInv, NEW n \in Node, NEW sap \in Sap, ReadLogicalLinkData(n, sap) PROVE LinkInv'
<1> DEFINE q == node[n].ll[sap].ui_rx_q
           q1 == IF Len(q[1]) = 1 THEN Tail(q) ELSE [q EXCEPT ![1] = Tail(@)]
           t == [node[n] EXCEPT !.ll[sap].ui_rx_q = q1]
<1>1. node[n] \in ControlBlock BY LinkInvFacts
<1>2. q # <<>> /\ Update(n, t) BY DEF ReadLogicalLinkData
<1>3. q1 \in Seq(RxBuffer)
  <2>1. q \in Seq(RxBuffer) /\ q # <<>> BY <1>1, <1>2, LinkFields
  <2> HIDE DEF q
  <2>2. Tail(q) \in Seq(RxBuffer) /\ q[1] \in RxBuffer /\ 1 \in 1..Len(q) BY <2>1
  <2>3. Len(q[1]) # 1 => Tail(q[1]) \in RxBuffer
    <3> DEFINE w == q[1]
    <3>1. w \in Seq(Pdu) /\ w # <<>> BY <2>2 DEF RxBuffer
    <3> HIDE DEF w
    <3>2. Tail(w) \in Seq(Pdu) /\ Len(Tail(w)) = Len(w) - 1 /\ Len(w) \in Nat \ {0} BY <3>1
    <3>3. ASSUME Len(w) # 1 PROVE Tail(w) # <<>>
      <4> DEFINE z == Tail(w)
      <4>1. Len(z) # 0 BY <3>2, <3>3
      <4> HIDE DEF z
      <4>2. z # <<>> BY <4>1
      <4> QED BY <4>2 DEF z
    <3>4. Len(w) # 1 => Tail(w) # <<>> BY <3>3
    <3> QED BY <3>2, <3>4 DEF w, RxBuffer
  <2> QED BY <2>1, <2>2, <2>3, ExceptSeq
<1> HIDE DEF q1
<1>4. Quiet(node[n], t) BY <1>1, <1>3, LinkFieldQuiet, GrowsQuiet
<1> HIDE DEF t
<1> QED BY <1>2, <1>4, QuietKeeps, UpdateKeeps
-----------------------------------------------------------------------------
(* The RF connection, and the theorems. *)

(* The RF connection is made: the initiator will have the turn. *)
LEMMA ConnectKeeps == ASSUME LinkInv, Connect PROVE LinkInv'
<1> DEFINE t(n) == [node[n] EXCEPT !.rf = "starting", !.out = <<>>]
<1>1. ~carrier /\ carrier' = TRUE /\ session' = session + 1 /\ env' = env /\ session < env.max_session
  BY DEF Connect
<1>2. node' = [n \in Node |-> t(n)] /\ \A n \in Node : node[n].rf = "off" BY DEF Connect
<1>3. ASSUME NEW n \in Node PROVE (Sound(n, node[n]) /\ Watched(n, node[n]))' /\ node'[n].rf = "starting" /\ node'[n].out = <<>>
  <2> DEFINE s == node[n]
             x == t(n)
  <2>1. Sound(n, s) /\ s.rf = "off" /\ node'[n] = x BY <1>2 DEF LinkInv
  <2>2. <<>> \in Seq(Frame) OBVIOUS
  <2> HIDE DEF s
  <2>3. x = [s EXCEPT !.rf = "starting", !.out = <<>>] BY DEF s
  <2>4. /\ x \in ControlBlock /\ x.link_state = s.link_state /\ x.symm_state = s.symm_state /\ x.timer = s.timer
        /\ x.inact_timer = s.inact_timer /\ x.cback = s.cback /\ x.rf = "starting"
        /\ x.rx_started = s.rx_started /\ x.out = <<>> /\ x.reports = s.reports
    BY <2>1, <2>2, <2>3 DEF Sound, ControlBlock
  <2> HIDE DEF x
  <2>5. s.link_state = "DEACTIVATED" /\ ~s.cback BY <2>1 DEF Sound
  <2> QED BY <1>1, <2>1, <2>4, <2>5 DEF Sound, Watched, Up, Exempt, ClosesRefused
<1>4. ShareIn(Initiator, node'[Initiator]) = 1 /\ ShareIn(Target, node'[Target]) = 0
  BY <1>3, TwoNodes DEF ShareIn
<1>5. session' \in 0..env'.max_session
  <2>1. env.max_session \in Nat BY EnvAssumption DEF LinkInv, Environment
  <2> QED BY <1>1, <2>1 DEF LinkInv
<1>6. DOMAIN node' = Node /\ node' = [n \in Node |-> node'[n]] BY <1>2
<1>7. ShareIn(Initiator, node'[Initiator]) + ShareIn(Target, node'[Target]) = 1 BY <1>4
<1>8. env' \in Environments /\ carrier' \in BOOLEAN BY <1>1 DEF LinkInv
<1> QED BY <1>3, <1>5, <1>6, <1>7, <1>8 DEF LinkInv, ShareIn

(* The RF connection is lost: nothing is on its way, and its end is being reported. *)
LEMMA RfLostKeeps == ASSUME LinkInv, RfLost PROVE LinkInv'
<1> DEFINE t(n) == [node[n] EXCEPT !.out = <<>>]
<1>1. carrier' = FALSE /\ session' = session /\ env' = env BY DEF RfLost
<1>2. node' = [n \in Node |-> t(n)] BY DEF RfLost
<1>3. ASSUME NEW n \in Node PROVE (Sound(n, node[n]) /\ Watched(n, node[n]))'
  <2> DEFINE s == node[n]
             x == t(n)
  <2>1. Sound(n, s) /\ node'[n] = x BY <1>2 DEF LinkInv
  <2>2. <<>> \in Seq(Frame) OBVIOUS
  <2> HIDE DEF s
  <2>3. x = [s EXCEPT !.out = <<>>] BY DEF s
  <2>4. /\ x \in ControlBlock /\ x.link_state = s.link_state /\ x.symm_state = s.symm_state /\ x.timer = s.timer
        /\ x.inact_timer = s.inact_timer /\ x.cback = s.cback /\ x.rf = s.rf
        /\ x.rx_started = s.rx_started /\ x.out = <<>> /\ x.reports = s.reports
    BY <2>1, <2>2, <2>3 DEF Sound, ControlBlock
  <2> HIDE DEF x
  <2> QED BY <1>1, <2>1, <2>4 DEF Sound, Watched, Up, Exempt, ClosesRefused
<1>4. DOMAIN node' = Node /\ node' = [n \in Node |-> node'[n]] BY <1>2
<1> QED BY <1>1, <1>3, <1>4 DEF LinkInv

(* The control blocks start without a link. *)
LEMMA InitKeeps == ASSUME Init PROVE LinkInv
<1>1. env \in Environments /\ env.max_session \in Nat BY EnvAssumption DEF Init, Environment
<1>2. NewBlock \in ControlBlock
  <2>1. <<>> \in Seq(Pdu) /\ <<>> \in Seq(RxBuffer) /\ <<>> \in Seq(Nat) OBVIOUS
  <2>2. NewLink \in LogicalLink BY <2>1 DEF NewLink, LogicalLink
  <2> DEFINE l == [sap \in Sap |-> NewLink]
  <2>3. l \in [Sap -> LogicalLink] BY <2>2
  <2> HIDE DEF l
  <2>4. <<>> \in Seq(Item) /\ <<>> \in Seq(Frame) OBVIOUS
  <2>5. 1 \in Sap BY SapAssumption DEF Sap
  <2>6. [sap \in Sap |-> NewLink] \in [Sap -> LogicalLink] BY <2>3 DEF l
  <2>7. {} \in SUBSET Nat /\ 0 \in 0..2 OBVIOUS
  <2> QED BY <2>1, <2>4, <2>5, <2>6, <2>7 DEF NewBlock, ControlBlock, LINK_STATE, REASON
<1>3. /\ NewBlock.link_state = "DEACTIVATED" /\ NewBlock.symm_state = "LOCAL_XMIT_NEXT" /\ NewBlock.timer = "none"
      /\ ~NewBlock.inact_timer /\ ~NewBlock.cback /\ NewBlock.rf = "off" /\ NewBlock.out = <<>> /\ NewBlock.reports = 0
  BY DEF NewBlock
<1> DEFINE b == NewBlock
<1> HIDE DEF b
<1>4. ASSUME NEW n \in Node PROVE Sound(n, b) /\ Watched(n, b) BY <1>2, <1>3 DEF Sound, Watched, Up, b
<1>5. carrier = FALSE /\ session = 0 /\ node = [n \in Node |-> b] BY DEF Init, b
<1>6. \A n \in Node : Sound(n, node[n]) /\ Watched(n, node[n]) BY <1>4, <1>5
<1>7. DOMAIN node = Node /\ node = [n \in Node |-> node[n]] BY <1>5
<1>8. 0 \in 0..env.max_session BY <1>1
<1> QED BY <1>1, <1>5, <1>6, <1>7, <1>8 DEF LinkInv

(* A step that changes nothing. *)
LEMMA StutterKeeps == ASSUME LinkInv, UNCHANGED vars PROVE LinkInv'
BY ZenonT(60) DEF vars, LinkInv, Sound, Watched, AliveIn, ShareIn, Up, Exempt, ClosesRefused

(* Every step. *)
LEMMA NextKeeps == ASSUME LinkInv, [Next]_vars PROVE LinkInv'
<1>1. CASE Connect BY <1>1, ConnectKeeps
<1>2. CASE RfLost BY <1>2, RfLostKeeps
<1>3. ASSUME NEW n \in Node, Task(n) PROVE LinkInv'
  <2>1. CASE RxData(n) BY <2>1, RxDataKeeps
  <2>2. CASE DataStart(n) BY <2>2, DataStartKeeps
  <2>3. CASE Timeout(n) BY <2>3, TimeoutKeeps
  <2>4. CASE InactivityTimeout(n) BY <2>4, InactivityTimeoutKeeps
  <2>5. CASE InterfaceError(n) BY <2>5, InterfaceErrorKeeps
  <2>6. CASE RfDeactivated(n) BY <2>6, RfDeactivatedKeeps
  <2>7. ASSUME NEW accepted \in BOOLEAN, LinkActivate(n, accepted) PROVE LinkInv' BY <2>7, LinkActivateKeeps
  <2> QED BY <1>3, <2>1, <2>2, <2>3, <2>4, <2>5, <2>6, <2>7 DEF Task
<1>4. ASSUME NEW n \in Node, Api(n) PROVE LinkInv'
  <2>1. CASE DeactivateLink(n) BY <2>1, DeactivateLinkKeeps
  <2>2. CASE DiscoverService(n) BY <2>2, DiscoverServiceKeeps
  <2>3. ASSUME NEW sap \in Sap, P2pSendUI(n, sap) PROVE LinkInv' BY <2>3, P2pSendUIKeeps
  <2>4. ASSUME NEW sap \in Sap, SendUi(n, sap) PROVE LinkInv' BY <2>4, SendUiKeeps
  <2>5. ASSUME NEW sap \in Sap, ReadLogicalLinkData(n, sap) PROVE LinkInv' BY <2>5, ReadLogicalLinkDataKeeps
  <2> QED BY <1>4, <2>1, <2>2, <2>3, <2>4, <2>5 DEF Api
<1>5. CASE UNCHANGED vars BY <1>5, StutterKeeps
<1> QED BY <1>1, <1>2, <1>3, <1>4, <1>5 DEF Next

(* The share of both devices is the turn: with both links activated on one carrier, the devices with  *)
(* the turn and the frames on their way add up to one.                                                *)
LEMMA InvOneTurn == ASSUME LinkInv PROVE OneTurn
<1> SUFFICES ASSUME \A n \in Node : node[n].link_state = "ACTIVATED"
             PROVE  /\ \/ Cardinality({n \in Node : node[n].symm_state = "LOCAL_XMIT_NEXT"})
                             + Len(node[Initiator].out) + Len(node[Target].out) = 1
                       \/ ~carrier
                    /\ \A n \in Node : node[n].symm_state = "LOCAL_XMIT_NEXT" => node[n].out = <<>>
  BY DEF OneTurn
<1> DEFINE local == {n \in Node : node[n].symm_state = "LOCAL_XMIT_NEXT"}
           k(n)  == IF node[n].symm_state = "LOCAL_XMIT_NEXT" THEN 1 ELSE 0
<1>1. ASSUME NEW n \in Node
      PROVE  /\ node[n].rf = "on" /\ node[n].out \in Seq(Frame) /\ Len(node[n].out) \in Nat
             /\ k(n) \in Nat /\ (~carrier => node[n].out = <<>>) /\ ShareIn(n, node[n]) = k(n) + Len(node[n].out)
  <2>1. Sound(n, node[n]) BY DEF LinkInv
  <2>2. node[n].rf = "on" /\ node[n].out \in Seq(Frame) BY <2>1 DEF Sound, ControlBlock
  <2> QED BY <2>1, <2>2 DEF Sound, ShareIn
<1>2. CASE ~carrier BY <1>1, <1>2
<1>3. CASE carrier
  <2>1. ShareIn(Initiator, node[Initiator]) + ShareIn(Target, node[Target]) = 1 BY <1>3 DEF LinkInv, AliveIn
  <2>2. k(Initiator) + Len(node[Initiator].out) + k(Target) + Len(node[Target].out) = 1
    <3> HIDE DEF k
    <3> QED BY <1>1, <2>1, TwoNodes
  <2>3. Cardinality(local) = k(Initiator) + k(Target)
    <3>1. /\ k(Initiator) = 1 /\ k(Target) = 1 => local = {Initiator, Target}
          /\ k(Initiator) = 1 /\ k(Target) = 0 => local = {Initiator}
          /\ k(Initiator) = 0 /\ k(Target) = 1 => local = {Target}
          /\ k(Initiator) = 0 /\ k(Target) = 0 => local = {}
      BY DEF Node
    <3>2. k(Initiator) \in {0, 1} /\ k(Target) \in {0, 1} OBVIOUS
    <3>3. /\ Cardinality({Initiator}) = 1 /\ Cardinality({Target}) = 1 /\ Cardinality({}) = 0
          /\ IsFiniteSet({Initiator})
      BY FS_Singleton, FS_EmptySet
    <3>4. Cardinality({Initiator, Target}) = 2
      <4>1. {Initiator, Target} = {Initiator} \union {Target} /\ Target \notin {Initiator} BY TwoNodes
      <4>2. Cardinality({Initiator} \union {Target}) = Cardinality({Initiator}) + 1 BY <3>3, <4>1, FS_AddElement
      <4> QED BY <3>3, <4>1, <4>2
    <3> HIDE DEF k, local
    <3> QED BY <3>1, <3>2, <3>3, <3>4
  <2>4. Cardinality(local) + Len(node[Initiator].out) + Len(node[Target].out) = 1
    <3> HIDE DEF k, local
    <3> QED BY <1>1, <2>2, <2>3, TwoNodes
  <2>5. ASSUME NEW n \in Node, node[n].symm_state = "LOCAL_XMIT_NEXT" PROVE node[n].out = <<>>
    <3>1. k(n) = 1 BY <2>5
    <3>2. Len(node[n].out) = 0
      <4> HIDE DEF k
      <4>0. /\ k(Initiator) \in Nat /\ Len(node[Initiator].out) \in Nat
            /\ k(Target) \in Nat /\ Len(node[Target].out) \in Nat
        BY <1>1, TwoNodes
      <4>1. CASE n = Initiator BY <2>2, <3>1, <4>0, <4>1
      <4>2. CASE n = Target
        <5>1. k(Target) = 1 BY <3>1, <4>2
        <5> DEFINE a == k(Initiator)
                   b == Len(node[Initiator].out)
                   d == Len(node[Target].out)
        <5>2. a \in Nat /\ b \in Nat /\ d \in Nat /\ a + b + 1 + d = 1 BY <2>2, <4>0, <5>1
        <5> HIDE DEF a, b, d
        <5>3. d = 0 BY <5>2
        <5> QED BY <4>2, <5>3 DEF d
      <4> QED BY <4>1, <4>2 DEF Node
    <3> DEFINE o == node[n].out
    <3>3. o \in Seq(Frame) /\ Len(o) = 0 BY <1>1, <3>2
    <3> HIDE DEF o
    <3>4. o = <<>> BY <3>3
    <3> QED BY <3>4 DEF o
  <2> QED BY <2>4, <2>5
<1> QED BY <1>2, <1>3

(* The inductive invariant implies the invariants that the model checker looks at. *)
LEMMA InvKept == ASSUME LinkInv PROVE LinkKept /\ OneReport
<1>1. TypeOK BY DEF LinkInv, TypeOK, Sound
<1>2. LinkWatched BY DEF LinkInv, LinkWatched, Watched, Up
<1>3. OneReport BY DEF LinkInv, OneReport, Sound, Exempt
<1> QED BY <1>1, <1>2, <1>3, InvOneTurn DEF LinkKept

(* The control blocks keep their types, the symmetry procedure keeps one turn, and every link that is *)
(* up is watched by a timer, the frame being received or the report of the loss of RF: whatever the   *)
(* order of frames, timers, calls, errors and losses of RF, and whatever the thresholds and bounds.   *)
THEOREM LinkIsKept == Spec => []LinkKept
<1>1. Init => LinkInv BY InitKeeps
<1>2. LinkInv /\ [Next]_vars => LinkInv' BY NextKeeps
<1>3. LinkInv => LinkKept BY InvKept
<1> QED BY <1>1, <1>2, <1>3, PTL DEF Spec

(* The end of a link is reported at most once for an activation. *)
THEOREM ReportedOnce == Spec => []OneReport
<1>1. Init => LinkInv BY InitKeeps
<1>2. LinkInv /\ [Next]_vars => LinkInv' BY NextKeeps
<1>3. LinkInv => OneReport BY InvKept
<1> QED BY <1>1, <1>2, <1>3, PTL DEF Spec
=============================================================================
