------------------------------ MODULE GkiProofs ------------------------------
(***************************************************************************)
(* The buffers of GKI are conserved, for all pools, messages and           *)
(* interleavings of the threads of Gki.                                    *)
(*                                                                         *)
(* The argument.  Owned(c, H, K) says of a control block that the status   *)
(* of a buffer tells where it is, when H is what the threads have in hand  *)
(* and K what is linked.  Every function of gki_buffer.cc moves one buffer *)
(* between its pool, H and K; the functions of gki_time.cc touch none      *)
(* (SameBufs).  A step of a thread calls at most three of them, and only   *)
(* with a buffer the thread has in hand.                                   *)
(***************************************************************************)
EXTENDS Gki, FiniteSetTheorems, SequenceTheorems, WellFoundedInduction, TLAPS

Status == {BUF_STATUS_FREE, BUF_STATUS_UNLINKED, BUF_STATUS_QUEUED}

PoolBufsOf(c, id) == {b \in DOMAIN c.buf : c.buf[b].q_id = id}

(* The fields that describe buffers are there, and a pool has all of its.  *)
Shape(c) ==
  /\ {"buf", "freeq", "mbox", "queue"} \subseteq DOMAIN c
  /\ {0, 2} \subseteq DOMAIN c.mbox /\ "tx" \in DOMAIN c.queue
  /\ \A b \in DOMAIN c.buf :
       {"status", "q_id", "msg"} \subseteq DOMAIN c.buf[b] /\ c.buf[b].q_id \in DOMAIN c.freeq
  /\ \A id \in DOMAIN c.freeq :
       /\ {"free", "cur_cnt", "total"} \subseteq DOMAIN c.freeq[id]
       /\ IsFiniteSet(PoolBufsOf(c, id)) /\ Cardinality(PoolBufsOf(c, id)) = c.freeq[id].total

Counted(c) ==
  \A id \in DOMAIN c.freeq :
    /\ c.freeq[id].free \subseteq PoolBufsOf(c, id)
    /\ c.freeq[id].cur_cnt = c.freeq[id].total - Cardinality(c.freeq[id].free)

StatusOf(c, H, K) ==
  \A b \in DOMAIN c.buf :
    /\ c.buf[b].status \in Status
    /\ c.buf[b].status = BUF_STATUS_FREE <=> b \in c.freeq[c.buf[b].q_id].free
    /\ c.buf[b].status = BUF_STATUS_UNLINKED <=> b \in H
    /\ c.buf[b].status = BUF_STATUS_QUEUED <=> b \in K

Owned(c, H, K) ==
  /\ Shape(c) /\ Counted(c) /\ StatusOf(c, H, K)
  /\ H \subseteq DOMAIN c.buf /\ K \subseteq DOMAIN c.buf /\ NoBuf \notin DOMAIN c.buf

(* What a function that takes a buffer returns: none, and the control      *)
(* block as it was, or one that was free.                                  *)
Gotten(c, H, K, got) ==
  \/ got.b = NoBuf /\ got.com = c
  \/ /\ got.b \in DOMAIN c.buf \ (H \cup K) /\ Owned(got.com, H \cup {got.b}, K)
     /\ got.com.mbox = c.mbox /\ got.com.queue = c.queue
     /\ DOMAIN got.com = DOMAIN c /\ DOMAIN got.com.buf = DOMAIN c.buf /\ DOMAIN got.com.freeq = DOMAIN c.freeq

(* Nothing of a buffer's place differs. *)
SameBufs(c, d) ==
  /\ DOMAIN d = DOMAIN c
  /\ d.buf = c.buf /\ d.freeq = c.freeq /\ d.mbox = c.mbox /\ d.queue = c.queue

(* The three states of a buffer. *)
LEMMA StatusDiffer ==
  /\ BUF_STATUS_FREE # BUF_STATUS_UNLINKED /\ BUF_STATUS_FREE # BUF_STATUS_QUEUED
  /\ BUF_STATUS_UNLINKED # BUF_STATUS_QUEUED
  /\ {BUF_STATUS_FREE, BUF_STATUS_UNLINKED, BUF_STATUS_QUEUED} \subseteq Status
BY DEF BUF_STATUS_FREE, BUF_STATUS_UNLINKED, BUF_STATUS_QUEUED, Status

(* What keeps gki.com, the hands and the chains keeps who owns what. *)
LEMMA SameOwned ==
  ASSUME NEW c, NEW d, NEW H, NEW K, Owned(c, H, K), SameBufs(c, d) PROVE Owned(d, H, K)
<1>1. \A id : PoolBufsOf(d, id) = PoolBufsOf(c, id) BY DEF SameBufs, PoolBufsOf
<1> QED BY <1>1 DEF SameBufs, Owned, Shape, Counted, StatusOf

(* A pool that counts a buffer less than it has holds a free one. *)
LEMMA TakeOwned ==
  ASSUME NEW c, NEW H, NEW K, Owned(c, H, K), NEW id \in DOMAIN c.freeq,
         c.freeq[id].cur_cnt < c.freeq[id].total
  PROVE  Gotten(c, H, K, Take(c, id))
<1> DEFINE fr == c.freeq[id].free
           b == CHOOSE x \in fr : TRUE
           d == [c EXCEPT !.freeq[id].free = @ \ {b}, !.freeq[id].cur_cnt = @ + 1,
                          !.buf[b].status = BUF_STATUS_UNLINKED]
<1>1. fr \subseteq PoolBufsOf(c, id) /\ IsFiniteSet(PoolBufsOf(c, id))
      /\ c.freeq[id].cur_cnt = c.freeq[id].total - Cardinality(fr)
      /\ c.freeq[id].total = Cardinality(PoolBufsOf(c, id))
  BY DEF Owned, Counted, Shape
<1>2. IsFiniteSet(fr) /\ Cardinality(fr) \in Nat BY <1>1, FS_Subset, FS_CardinalityType
<1>3. c.freeq[id].total \in Nat BY <1>1, FS_CardinalityType
<1>4. fr # {}
  <2>1. Cardinality({}) = 0 BY FS_EmptySet
  <2>2. ASSUME Cardinality(fr) = 0 PROVE FALSE BY <1>1, <1>3, <2>2
  <2> QED BY <2>1, <2>2
<1>5. b \in fr BY <1>4
<1>6. b \in DOMAIN c.buf /\ c.buf[b].q_id = id BY <1>1, <1>5 DEF PoolBufsOf
<1>7. c.buf[b].status = BUF_STATUS_FREE BY <1>5, <1>6 DEF Owned, StatusOf
<1>8. b \notin H \cup K BY <1>6, <1>7 DEF Owned, StatusOf, BUF_STATUS_FREE, BUF_STATUS_UNLINKED, BUF_STATUS_QUEUED
<1>9. Take(c, id).b = b /\ Take(c, id).com = d BY DEF Take, Got
<1>10. Cardinality(fr \ {b}) = Cardinality(fr) - 1 BY <1>2, <1>5, FS_RemoveElement
<1> HIDE DEF b
<1>11. /\ DOMAIN d = DOMAIN c /\ DOMAIN d.buf = DOMAIN c.buf /\ DOMAIN d.freeq = DOMAIN c.freeq
       /\ d.mbox = c.mbox /\ d.queue = c.queue
       /\ \A x \in DOMAIN c.buf : /\ DOMAIN d.buf[x] = DOMAIN c.buf[x] /\ d.buf[x].q_id = c.buf[x].q_id
                                  /\ d.buf[x].status = IF x = b THEN BUF_STATUS_UNLINKED ELSE c.buf[x].status
       /\ \A i \in DOMAIN c.freeq :
            /\ DOMAIN d.freeq[i] = DOMAIN c.freeq[i] /\ d.freeq[i].total = c.freeq[i].total
            /\ d.freeq[i].free = IF i = id THEN fr \ {b} ELSE c.freeq[i].free
            /\ d.freeq[i].cur_cnt = IF i = id THEN c.freeq[i].cur_cnt + 1 ELSE c.freeq[i].cur_cnt
  BY <1>6 DEF Owned, Shape
<1> HIDE DEF d
<1>12. \A i : PoolBufsOf(d, i) = PoolBufsOf(c, i) BY <1>11 DEF PoolBufsOf
<1>13. Shape(d) BY <1>11, <1>12 DEF Owned, Shape
<1>14. Counted(d)
  <2>1. \A i \in DOMAIN c.freeq : /\ c.freeq[i].free \subseteq PoolBufsOf(c, i)
                                 /\ c.freeq[i].cur_cnt = c.freeq[i].total - Cardinality(c.freeq[i].free)
    BY DEF Owned, Counted
  <2>2. c.freeq[id].cur_cnt + 1 = c.freeq[id].total - Cardinality(fr \ {b}) BY <1>1, <1>2, <1>3, <1>10
  <2>3. SUFFICES ASSUME NEW i \in DOMAIN c.freeq
                 PROVE  /\ d.freeq[i].free \subseteq PoolBufsOf(c, i)
                        /\ d.freeq[i].cur_cnt = d.freeq[i].total - Cardinality(d.freeq[i].free)
    BY <1>11, <1>12 DEF Counted
  <2>4. CASE i = id BY <1>1, <1>11, <2>2, <2>4
  <2>5. CASE i # id BY <1>11, <2>1, <2>5
  <2> QED BY <2>4, <2>5
<1>15. StatusOf(d, H \cup {b}, K)
  <2>1. ASSUME NEW x \in DOMAIN c.buf
        PROVE  x \in d.freeq[d.buf[x].q_id].free <=> x \in c.freeq[c.buf[x].q_id].free /\ x # b
    BY <1>6, <1>11 DEF Owned, Shape
  <2>2. ASSUME NEW x \in DOMAIN c.buf, x # b
        PROVE  /\ d.buf[x].status \in Status
               /\ d.buf[x].status = BUF_STATUS_FREE <=> x \in d.freeq[d.buf[x].q_id].free
               /\ d.buf[x].status = BUF_STATUS_UNLINKED <=> x \in H \cup {b}
               /\ d.buf[x].status = BUF_STATUS_QUEUED <=> x \in K
    BY <1>11, <2>1, <2>2 DEF Owned, StatusOf
  <2>3. d.buf[b].status = BUF_STATUS_UNLINKED /\ b \notin d.freeq[d.buf[b].q_id].free
    BY <1>6, <1>11, <2>1
  <2> QED BY <1>6, <1>8, <1>11, <2>2, <2>3, StatusDiffer DEF StatusOf
<1>16. Owned(d, H \cup {b}, K) BY <1>6, <1>11, <1>13, <1>14, <1>15 DEF Owned
<1> QED BY <1>6, <1>8, <1>9, <1>11, <1>16 DEF Gotten

(* GKI_getbuf gives a free buffer or none, whatever pools are restricted. *)
LEMMA GetbufOwned ==
  ASSUME NEW c, NEW H, NEW K, Owned(c, H, K), NEW size, DOMAIN c.freeq \subseteq Nat
  PROVE  Gotten(c, H, K, Getbuf(c, size))
<1> DEFINE ids == Usable(c, size)
<1>1. \/ Getbuf(c, size).b = NoBuf /\ Getbuf(c, size).com = c
      \/ ids # {} /\ Getbuf(c, size) = Take(c, Lowest(ids))
  BY DEF Getbuf, Got
<1>2. ASSUME ids # {} PROVE Lowest(ids) \in ids
  <2>1. ids \subseteq Nat BY DEF Usable
  <2>2. PICK n \in ids : \A m \in ids : n <= m
    <3> HIDE DEF ids
    <3>1. PICK x \in ids : \A y \in ids : ~(<<y, x>> \in OpToRel(<, Nat))
      BY <1>2, <2>1, WFMin, NatLessThanWellFounded
    <3>2. \A y \in ids : ~(y < x) BY <2>1, <3>1 DEF OpToRel
    <3> QED BY <2>1, <3>2
  <2> HIDE DEF ids
  <2> QED BY <2>2 DEF Lowest
<1>3. \A id \in ids : id \in DOMAIN c.freeq /\ c.freeq[id].cur_cnt < c.freeq[id].total
  BY DEF Usable
<1> HIDE DEF ids
<1>4. ids # {} => Gotten(c, H, K, Take(c, Lowest(ids))) BY <1>2, <1>3, TakeOwned
<1> QED BY <1>1, <1>4 DEF Gotten

(* GKI_getpoolbuf does so too. *)
LEMMA GetpoolbufOwned ==
  ASSUME NEW c, NEW H, NEW K, Owned(c, H, K), DOMAIN c.freeq \subseteq Nat, NEW id \in DOMAIN c.freeq
  PROVE  Gotten(c, H, K, Getpoolbuf(c, id))
BY GetbufOwned, TakeOwned DEF Getpoolbuf

(* What a buffer holds tells nothing of its place. *)
LEMMA MsgOwned ==
  ASSUME NEW c, NEW H, NEW K, Owned(c, H, K), NEW b, NEW m
  PROVE  Owned([c EXCEPT !.buf[b].msg = m], H, K)
<1> DEFINE d == [c EXCEPT !.buf[b].msg = m]
<1>1. /\ DOMAIN d = DOMAIN c /\ d.freeq = c.freeq /\ d.mbox = c.mbox /\ d.queue = c.queue
      /\ DOMAIN d.buf = DOMAIN c.buf
      /\ \A x \in DOMAIN c.buf : /\ DOMAIN d.buf[x] = DOMAIN c.buf[x] /\ d.buf[x].q_id = c.buf[x].q_id
                                 /\ d.buf[x].status = c.buf[x].status
  BY DEF Owned, Shape
<1> HIDE DEF d
<1>2. \A i : PoolBufsOf(d, i) = PoolBufsOf(c, i) BY <1>1 DEF PoolBufsOf
<1> QED BY <1>1, <1>2 DEF Owned, Shape, Counted, StatusOf, d

(* A buffer in hand is linked. *)
LEMMA LinkOwned ==
  ASSUME NEW c, NEW H, NEW K, Owned(c, H, K), NEW b \in H, NEW d,
         DOMAIN d = DOMAIN c, d.freeq = c.freeq, d.buf = [c.buf EXCEPT ![b].status = BUF_STATUS_QUEUED],
         DOMAIN d.mbox = DOMAIN c.mbox, DOMAIN d.queue = DOMAIN c.queue
  PROVE  Owned(d, H \ {b}, K \cup {b}) /\ b \notin K
<1>1. b \in DOMAIN c.buf BY DEF Owned
<1>2. /\ DOMAIN d.buf = DOMAIN c.buf
      /\ \A x \in DOMAIN c.buf : /\ DOMAIN d.buf[x] = DOMAIN c.buf[x] /\ d.buf[x].q_id = c.buf[x].q_id
                                 /\ d.buf[x].status = IF x = b THEN BUF_STATUS_QUEUED ELSE c.buf[x].status
  BY <1>1 DEF Owned, Shape
<1>3. \A i : PoolBufsOf(d, i) = PoolBufsOf(c, i) BY <1>2 DEF PoolBufsOf
<1>4. Shape(d) /\ Counted(d) BY <1>2, <1>3 DEF Owned, Shape, Counted
<1>5. StatusOf(d, H \ {b}, K \cup {b})
  <2>1. c.buf[b].status = BUF_STATUS_UNLINKED BY <1>1 DEF Owned, StatusOf
  <2>2. b \notin c.freeq[c.buf[b].q_id].free BY <1>1, <2>1, StatusDiffer DEF Owned, StatusOf
  <2> QED BY <1>2, <2>2, StatusDiffer DEF Owned, StatusOf
<1>6. b \notin K BY <1>1, StatusDiffer DEF Owned, StatusOf
<1> QED BY <1>1, <1>2, <1>4, <1>5, <1>6 DEF Owned

(* A linked buffer comes into hand. *)
LEMMA UnlinkOwned ==
  ASSUME NEW c, NEW H, NEW K, Owned(c, H, K), NEW b \in K, NEW d,
         DOMAIN d = DOMAIN c, d.freeq = c.freeq, d.buf = [c.buf EXCEPT ![b].status = BUF_STATUS_UNLINKED],
         DOMAIN d.mbox = DOMAIN c.mbox, DOMAIN d.queue = DOMAIN c.queue
  PROVE  Owned(d, H \cup {b}, K \ {b}) /\ b \notin H
<1>1. b \in DOMAIN c.buf BY DEF Owned
<1>2. /\ DOMAIN d.buf = DOMAIN c.buf
      /\ \A x \in DOMAIN c.buf : /\ DOMAIN d.buf[x] = DOMAIN c.buf[x] /\ d.buf[x].q_id = c.buf[x].q_id
                                 /\ d.buf[x].status = IF x = b THEN BUF_STATUS_UNLINKED ELSE c.buf[x].status
  BY <1>1 DEF Owned, Shape
<1>3. \A i : PoolBufsOf(d, i) = PoolBufsOf(c, i) BY <1>2 DEF PoolBufsOf
<1>4. Shape(d) /\ Counted(d) BY <1>2, <1>3 DEF Owned, Shape, Counted
<1>5. StatusOf(d, H \cup {b}, K \ {b})
  <2>1. c.buf[b].status = BUF_STATUS_QUEUED BY <1>1 DEF Owned, StatusOf
  <2>2. b \notin c.freeq[c.buf[b].q_id].free BY <1>1, <2>1, StatusDiffer DEF Owned, StatusOf
  <2> QED BY <1>2, <2>2, StatusDiffer DEF Owned, StatusOf
<1>6. b \notin H BY <1>1, StatusDiffer DEF Owned, StatusOf
<1> QED BY <1>1, <1>2, <1>4, <1>5, <1>6 DEF Owned

(* A pool never counts less than none out. *)
LEMMA CountType ==
  ASSUME NEW c, NEW H, NEW K, Owned(c, H, K), NEW id \in DOMAIN c.freeq PROVE c.freeq[id].cur_cnt \in Nat
<1>1. IsFiniteSet(PoolBufsOf(c, id)) /\ c.freeq[id].free \in SUBSET PoolBufsOf(c, id)
      /\ c.freeq[id].total = Cardinality(PoolBufsOf(c, id))
      /\ c.freeq[id].cur_cnt = c.freeq[id].total - Cardinality(c.freeq[id].free)
  BY DEF Owned, Shape, Counted
<1>2. IsFiniteSet(c.freeq[id].free) /\ Cardinality(c.freeq[id].free) <= Cardinality(PoolBufsOf(c, id))
  BY <1>1, FS_Subset
<1>3. Cardinality(PoolBufsOf(c, id)) \in Nat /\ Cardinality(c.freeq[id].free) \in Nat
  BY <1>1, <1>2, FS_CardinalityType
<1> QED BY <1>1, <1>2, <1>3

(* Buffers in hand or linked go back to their pools, which count them. *)
LEMMA ReturnOwned ==
  ASSUME NEW c, NEW H, NEW K, Owned(c, H, K), NEW S, S \subseteq H \cup K, NEW d,
         DOMAIN d = DOMAIN c, DOMAIN d.mbox = DOMAIN c.mbox, DOMAIN d.queue = DOMAIN c.queue,
         DOMAIN d.buf = DOMAIN c.buf, DOMAIN d.freeq = DOMAIN c.freeq,
         \A x \in DOMAIN c.buf : /\ DOMAIN d.buf[x] = DOMAIN c.buf[x] /\ d.buf[x].q_id = c.buf[x].q_id
                                /\ d.buf[x].status = IF x \in S THEN BUF_STATUS_FREE ELSE c.buf[x].status,
         \A id \in DOMAIN c.freeq :
           LET T == {b \in S : c.buf[b].q_id = id}
           IN  /\ DOMAIN d.freeq[id] = DOMAIN c.freeq[id] /\ d.freeq[id].total = c.freeq[id].total
               /\ d.freeq[id].free = c.freeq[id].free \cup T
               /\ d.freeq[id].cur_cnt = Larger(0, c.freeq[id].cur_cnt - Cardinality(T))
  PROVE  Owned(d, H \ S, K \ S)
<1>1. S \subseteq DOMAIN c.buf BY DEF Owned
<1>2. \A i : PoolBufsOf(d, i) = PoolBufsOf(c, i) BY DEF PoolBufsOf
<1>3. Shape(d)
  <2>1. \A id \in DOMAIN c.freeq : DOMAIN d.freeq[id] = DOMAIN c.freeq[id] /\ d.freeq[id].total = c.freeq[id].total
    OBVIOUS
  <2>2. Shape(c) BY DEF Owned
  <2> QED BY <1>2, <2>1, <2>2 DEF Shape
<1>4. ASSUME NEW x \in S PROVE x \notin c.freeq[c.buf[x].q_id].free
  BY <1>1, StatusDiffer DEF Owned, StatusOf
<1>5. ASSUME NEW id \in DOMAIN c.freeq
      PROVE  /\ d.freeq[id].free \subseteq PoolBufsOf(c, id)
             /\ d.freeq[id].cur_cnt = d.freeq[id].total - Cardinality(d.freeq[id].free)
  <2> DEFINE T == {b \in S : c.buf[b].q_id = id}
             F == c.freeq[id].free
             B == PoolBufsOf(c, id)
  <2>1. T \subseteq B /\ F \subseteq B /\ F \cap T = {} BY <1>1, <1>4 DEF PoolBufsOf, Owned, Counted
  <2>2. IsFiniteSet(B) /\ Cardinality(B) = c.freeq[id].total /\ c.freeq[id].cur_cnt = c.freeq[id].total - Cardinality(F)
    BY DEF Owned, Shape, Counted
  <2>3. d.freeq[id].free = F \cup T /\ d.freeq[id].total = c.freeq[id].total
        /\ d.freeq[id].cur_cnt = Larger(0, c.freeq[id].cur_cnt - Cardinality(T))
    OBVIOUS
  <2> HIDE DEF T, F, B
  <2>4. IsFiniteSet(F) /\ IsFiniteSet(T) BY <2>1, <2>2, FS_Subset
  <2>5. Cardinality(F \cup T) = Cardinality(F) + Cardinality(T) - Cardinality(F \cap T) BY <2>4, FS_Union
  <2>6. Cardinality(F \cap T) = 0 BY <2>1, FS_EmptySet
  <2>7. Cardinality(F) \in Nat /\ Cardinality(T) \in Nat /\ Cardinality(B) \in Nat
    BY <2>2, <2>4, FS_CardinalityType
  <2>8. F \cup T \subseteq B BY <2>1
  <2>9. Cardinality(F \cup T) <= Cardinality(B) BY <2>2, <2>8, FS_Subset
  <2> QED BY <2>2, <2>3, <2>5, <2>6, <2>7, <2>8, <2>9 DEF Larger, B
<1>6. Counted(d) BY <1>2, <1>5 DEF Counted
<1>7. StatusOf(d, H \ S, K \ S)
  <2>1. ASSUME NEW x \in DOMAIN c.buf
        PROVE  x \in d.freeq[d.buf[x].q_id].free <=> x \in c.freeq[c.buf[x].q_id].free \/ x \in S
    <3>1. d.buf[x].q_id = c.buf[x].q_id /\ c.buf[x].q_id \in DOMAIN c.freeq BY DEF Owned, Shape
    <3>2. d.freeq[c.buf[x].q_id].free = c.freeq[c.buf[x].q_id].free \cup {b \in S : c.buf[b].q_id = c.buf[x].q_id}
      BY <3>1
    <3> QED BY <3>1, <3>2
  <2> QED BY <2>1, StatusDiffer DEF Owned, StatusOf
<1> QED BY <1>3, <1>6, <1>7 DEF Owned

(* GKI_freebuf of a buffer in hand gives it back. *)
LEMMA FreebufOwned ==
  ASSUME NEW c, NEW H, NEW K, Owned(c, H, K), NEW b \in H
  PROVE  /\ Owned(Freebuf(c, b), H \ {b}, K)
         /\ Freebuf(c, b).mbox = c.mbox /\ Freebuf(c, b).queue = c.queue
         /\ DOMAIN Freebuf(c, b) = DOMAIN c /\ DOMAIN Freebuf(c, b).buf = DOMAIN c.buf
         /\ DOMAIN Freebuf(c, b).freeq = DOMAIN c.freeq
<1> DEFINE id == c.buf[b].q_id
           d == [c EXCEPT !.freeq[id].free = @ \cup {b}, !.freeq[id].cur_cnt = IF @ > 0 THEN @ - 1 ELSE 0,
                          !.buf[b].status = BUF_STATUS_FREE, !.buf[b].msg = Nothing]
<1>1. b \in DOMAIN c.buf /\ id \in DOMAIN c.freeq BY DEF Owned, Shape
<1>2. c.buf[b].status = BUF_STATUS_UNLINKED BY <1>1 DEF Owned, StatusOf
<1>3. Freebuf(c, b) = d BY <1>2 DEF Freebuf
<1>4. b \notin K BY <1>1, <1>2, StatusDiffer DEF Owned, StatusOf
<1>5. id = c.buf[b].q_id OBVIOUS
<1> HIDE DEF id
<1>6. \A i : {x \in {b} : c.buf[x].q_id = i} = IF i = id THEN {b} ELSE {} BY <1>5
<1>7. Cardinality({b}) = 1 /\ Cardinality({}) = 0 BY FS_Singleton, FS_EmptySet
<1>8. /\ DOMAIN d = DOMAIN c /\ d.mbox = c.mbox /\ d.queue = c.queue
      /\ DOMAIN d.buf = DOMAIN c.buf /\ DOMAIN d.freeq = DOMAIN c.freeq
      /\ \A x \in DOMAIN c.buf : /\ DOMAIN d.buf[x] = DOMAIN c.buf[x] /\ d.buf[x].q_id = c.buf[x].q_id
                                 /\ d.buf[x].status = IF x \in {b} THEN BUF_STATUS_FREE ELSE c.buf[x].status
      /\ \A i \in DOMAIN c.freeq :
           /\ DOMAIN d.freeq[i] = DOMAIN c.freeq[i] /\ d.freeq[i].total = c.freeq[i].total
           /\ d.freeq[i].free = IF i = id THEN c.freeq[i].free \cup {b} ELSE c.freeq[i].free
           /\ d.freeq[i].cur_cnt = IF i # id THEN c.freeq[i].cur_cnt
                                   ELSE IF c.freeq[i].cur_cnt > 0 THEN c.freeq[i].cur_cnt - 1 ELSE 0
  BY <1>1, ZenonT(60) DEF Owned, Shape
<1> HIDE DEF d
<1>9. \A i \in DOMAIN c.freeq : c.freeq[i].cur_cnt \in Nat BY CountType
<1>10. Owned(d, H \ {b}, K \ {b})
  <2>1. ASSUME NEW i \in DOMAIN c.freeq
        PROVE  LET T == {x \in {b} : c.buf[x].q_id = i}
               IN  /\ DOMAIN d.freeq[i] = DOMAIN c.freeq[i] /\ d.freeq[i].total = c.freeq[i].total
                   /\ d.freeq[i].free = c.freeq[i].free \cup T
                   /\ d.freeq[i].cur_cnt = Larger(0, c.freeq[i].cur_cnt - Cardinality(T))
    <3> DEFINE T == {x \in {b} : c.buf[x].q_id = i}
    <3>1. T = IF i = id THEN {b} ELSE {} BY <1>6
    <3> HIDE DEF T
    <3>2. c.freeq[i].cur_cnt \in Nat BY <1>9
    <3>3. Cardinality(T) = IF i = id THEN 1 ELSE 0 BY <1>7, <3>1
    <3>4. d.freeq[i].free = c.freeq[i].free \cup T BY <1>8, <3>1
    <3>5. d.freeq[i].cur_cnt = Larger(0, c.freeq[i].cur_cnt - Cardinality(T))
      <4>1. d.freeq[i].cur_cnt = IF i # id THEN c.freeq[i].cur_cnt
                                 ELSE IF c.freeq[i].cur_cnt > 0 THEN c.freeq[i].cur_cnt - 1 ELSE 0
        BY <1>8
      <4> QED BY <3>2, <3>3, <4>1 DEF Larger
    <3>6. DOMAIN d.freeq[i] = DOMAIN c.freeq[i] /\ d.freeq[i].total = c.freeq[i].total BY <1>8
    <3> QED BY <3>4, <3>5, <3>6 DEF T
  <2>2. {b} \subseteq H \cup K OBVIOUS
  <2> QED BY <1>8, <2>1, <2>2, ReturnOwned
<1>11. K \ {b} = K BY <1>4
<1> QED BY <1>3, <1>8, <1>10, <1>11

(* A loop that frees linked buffers gives them all back. *)
LEMMA FreeAllOwned ==
  ASSUME NEW c, NEW H, NEW K, Owned(c, H, K), NEW S, S \subseteq K, NEW e,
         DOMAIN e = DOMAIN c, e.buf = c.buf, e.freeq = c.freeq,
         DOMAIN e.mbox = DOMAIN c.mbox, DOMAIN e.queue = DOMAIN c.queue
  PROVE  /\ Owned(FreeAll(e, S), H, K \ S)
         /\ FreeAll(e, S).mbox = e.mbox /\ FreeAll(e, S).queue = e.queue
         /\ DOMAIN FreeAll(e, S) = DOMAIN c /\ DOMAIN FreeAll(e, S).buf = DOMAIN c.buf
         /\ DOMAIN FreeAll(e, S).freeq = DOMAIN c.freeq
<1> DEFINE d == FreeAll(e, S)
<1>1. S \cap H = {} BY StatusDiffer DEF Owned, StatusOf
<1>2. /\ DOMAIN d = DOMAIN c /\ d.mbox = e.mbox /\ d.queue = e.queue
      /\ DOMAIN d.buf = DOMAIN c.buf /\ DOMAIN d.freeq = DOMAIN c.freeq
  BY DEF Owned, Shape, FreeAll
<1>3. ASSUME NEW x \in DOMAIN c.buf
      PROVE  /\ DOMAIN d.buf[x] = DOMAIN c.buf[x] /\ d.buf[x].q_id = c.buf[x].q_id
             /\ d.buf[x].status = IF x \in S THEN BUF_STATUS_FREE ELSE c.buf[x].status
  BY DEF Owned, Shape, FreeAll
<1>4. ASSUME NEW id \in DOMAIN c.freeq
      PROVE  LET T == {b \in S : c.buf[b].q_id = id}
             IN  /\ DOMAIN d.freeq[id] = DOMAIN c.freeq[id] /\ d.freeq[id].total = c.freeq[id].total
                 /\ d.freeq[id].free = c.freeq[id].free \cup T
                 /\ d.freeq[id].cur_cnt = Larger(0, c.freeq[id].cur_cnt - Cardinality(T))
  <2> DEFINE T == {b \in S : c.buf[b].q_id = id}
  <2>1. d.freeq[id] = [c.freeq[id] EXCEPT !.free = @ \cup T, !.cur_cnt = Larger(0, @ - Cardinality(T))]
    <3>1. "freeq" \in DOMAIN e /\ "freeq" # "buf" BY DEF Owned, Shape
    <3>2. OfPool(e, S, id) = T BY DEF OfPool
    <3>3. d.freeq[id] = [e.freeq[id] EXCEPT !.free = @ \cup OfPool(e, S, id),
                                            !.cur_cnt = Larger(0, @ - Cardinality(OfPool(e, S, id)))]
      BY <3>1 DEF FreeAll
    <3> HIDE DEF T, d
    <3> QED BY <3>2, <3>3
  <2>2. {"free", "cur_cnt", "total"} \subseteq DOMAIN c.freeq[id] BY DEF Owned, Shape
  <2> HIDE DEF T, d
  <2>3. DOMAIN d.freeq[id] = DOMAIN c.freeq[id] /\ d.freeq[id].total = c.freeq[id].total
        /\ d.freeq[id].free = c.freeq[id].free \cup T
        /\ d.freeq[id].cur_cnt = Larger(0, c.freeq[id].cur_cnt - Cardinality(T))
    BY <2>1, <2>2
  <2> QED BY <2>3 DEF T
<1> HIDE DEF d
<1>5. Owned(d, H \ S, K \ S) BY <1>2, <1>3, <1>4, ReturnOwned
<1>6. H \ S = H BY <1>1
<1> QED BY <1>2, <1>5, <1>6 DEF d

----------------------------------------------------------------------------
(* The chains: the mailboxes and the queue.  No buffer is in two of them,  *)
(* twice in one, or among those that were lost.                            *)
ChainBufs(c) == UNION {Range(Chain(c, q)) : q \in Chains}

OnceIn(c, L) ==
  \A q, r \in Chains : \A i \in DOMAIN Chain(c, q), j \in DOMAIN Chain(c, r) :
    (Chain(c, q)[i] = Chain(c, r)[j] => q = r /\ i = j) /\ Chain(c, q)[i] \notin L

Chained(c, L) ==
  /\ \A q \in Chains : Chain(c, q) \in Seq(DOMAIN c.buf)
  /\ OnceIn(c, L)

(* The whole of what is said of a control block: H is in hand, L was lost, *)
(* P names the pools.                                                      *)
Placed(c, H, L, P) ==
  /\ Owned(c, H, L \cup ChainBufs(c)) /\ Chained(c, L)
  /\ DOMAIN c.freeq = P /\ P \subseteq Nat

(* What is in a chain. *)
LEMMA InChain ==
  ASSUME NEW c, NEW x
  PROVE  x \in ChainBufs(c) <=> \E q \in Chains : \E i \in DOMAIN Chain(c, q) : x = Chain(c, q)[i]
BY DEF ChainBufs, Range

(* A buffer that was in no chain is put at the end of one. *)
LEMMA ChainAppend ==
  ASSUME NEW c, NEW d, NEW L, Chained(c, L), DOMAIN d.buf = DOMAIN c.buf, NEW q \in Chains,
         NEW b \in DOMAIN c.buf, b \notin L \cup ChainBufs(c),
         \A r \in Chains : Chain(d, r) = IF r = q THEN Append(Chain(c, q), b) ELSE Chain(c, r)
  PROVE  Chained(d, L) /\ ChainBufs(d) = ChainBufs(c) \cup {b}
<1> DEFINE n == Len(Chain(c, q)) + 1
<1>1. \A r \in Chains : Chain(c, r) \in Seq(DOMAIN c.buf) BY DEF Chained
<1>2. \A r \in Chains : Chain(d, r) \in Seq(DOMAIN d.buf) BY <1>1
<1>3. /\ DOMAIN Chain(d, q) = DOMAIN Chain(c, q) \cup {n} /\ n \notin DOMAIN Chain(c, q)
      /\ Chain(d, q)[n] = b /\ \A i \in DOMAIN Chain(c, q) : Chain(d, q)[i] = Chain(c, q)[i]
  <2> DEFINE s == Chain(c, q)
  <2>1. s \in Seq(DOMAIN c.buf) /\ Chain(d, q) = Append(s, b) BY <1>1
  <2> HIDE DEF s
  <2> QED BY <2>1 DEF s
<1>4. \A r \in Chains : r # q => Chain(d, r) = Chain(c, r) OBVIOUS
<1>5. \A r \in Chains : \A i \in DOMAIN Chain(c, r) : Chain(c, r)[i] # b BY InChain
<1> HIDE DEF n
<1>6. ChainBufs(d) = ChainBufs(c) \cup {b}
  <2>1. ASSUME NEW x \in ChainBufs(d) PROVE x \in ChainBufs(c) \cup {b}
    <3>0. PICK r \in Chains : \E i \in DOMAIN Chain(d, r) : x = Chain(d, r)[i] BY InChain
    <3>1. PICK i \in DOMAIN Chain(d, r) : x = Chain(d, r)[i] BY <3>0
    <3>2. CASE r = q BY <1>3, <3>1, <3>2, InChain
    <3>3. CASE r # q BY <1>4, <3>1, <3>3, InChain
    <3> QED BY <3>2, <3>3
  <2>2. ASSUME NEW x \in ChainBufs(c) PROVE x \in ChainBufs(d)
    <3>0. PICK r \in Chains : \E i \in DOMAIN Chain(c, r) : x = Chain(c, r)[i] BY InChain
    <3>1. PICK i \in DOMAIN Chain(c, r) : x = Chain(c, r)[i] BY <3>0
    <3>2. i \in DOMAIN Chain(d, r) /\ Chain(d, r)[i] = x BY <1>3, <1>4, <3>1
    <3> QED BY <3>2, InChain
  <2>3. b \in ChainBufs(d) BY <1>3, InChain
  <2> QED BY <2>1, <2>2, <2>3
<1>7. OnceIn(d, L)
  <2> SUFFICES ASSUME NEW r \in Chains, NEW t \in Chains, NEW i \in DOMAIN Chain(d, r), NEW j \in DOMAIN Chain(d, t)
               PROVE  /\ Chain(d, r)[i] = Chain(d, t)[j] => r = t /\ i = j
                      /\ Chain(d, r)[i] \notin L
    BY DEF OnceIn
  <2>1. OnceIn(c, L) BY DEF Chained
  <2>2. \/ i \in DOMAIN Chain(c, r) /\ Chain(d, r)[i] = Chain(c, r)[i]
        \/ r = q /\ i = n /\ Chain(d, r)[i] = b
    BY <1>3, <1>4
  <2>3. \/ j \in DOMAIN Chain(c, t) /\ Chain(d, t)[j] = Chain(c, t)[j]
        \/ t = q /\ j = n /\ Chain(d, t)[j] = b
    BY <1>3, <1>4
  <2> QED BY <1>5, <2>1, <2>2, <2>3 DEF OnceIn
<1> QED BY <1>2, <1>6, <1>7 DEF Chained

(* The first buffer of a chain is taken out. *)
LEMMA ChainTail ==
  ASSUME NEW c, NEW d, NEW L, Chained(c, L), DOMAIN d.buf = DOMAIN c.buf, NEW q \in Chains, Chain(c, q) # <<>>,
         \A r \in Chains : Chain(d, r) = IF r = q THEN Tail(Chain(c, q)) ELSE Chain(c, r)
  PROVE  /\ Chained(d, L) /\ Head(Chain(c, q)) \in ChainBufs(c) \ L
         /\ ChainBufs(d) = ChainBufs(c) \ {Head(Chain(c, q))}
<1> DEFINE b == Head(Chain(c, q))
<1>1. \A r \in Chains : Chain(c, r) \in Seq(DOMAIN c.buf) BY DEF Chained
<1>2. \A r \in Chains : Chain(d, r) \in Seq(DOMAIN d.buf) BY <1>1
<1>3. /\ 1 \in DOMAIN Chain(c, q) /\ Chain(c, q)[1] = b /\ DOMAIN Chain(c, q) \subseteq Nat
      /\ \A i \in DOMAIN Chain(d, q) : i \in Nat /\ i + 1 \in DOMAIN Chain(c, q) /\ Chain(d, q)[i] = Chain(c, q)[i + 1] /\ i + 1 # 1
      /\ \A i \in DOMAIN Chain(c, q) : i # 1 => i - 1 \in DOMAIN Chain(d, q) /\ Chain(d, q)[i - 1] = Chain(c, q)[i]
  <2> DEFINE s == Chain(c, q)
  <2>1. s \in Seq(DOMAIN c.buf) /\ s # <<>> /\ Chain(d, q) = Tail(s) BY <1>1
  <2> HIDE DEF s
  <2> QED BY <2>1 DEF s
<1>4. \A r \in Chains : r # q => Chain(d, r) = Chain(c, r) OBVIOUS
<1>5. OnceIn(c, L) BY DEF Chained
<1> HIDE DEF b
<1>6. b \in ChainBufs(c) \ L BY <1>3, <1>5, InChain DEF OnceIn
<1>7. ChainBufs(d) = ChainBufs(c) \ {b}
  <2>1. ASSUME NEW x \in ChainBufs(d) PROVE x \in ChainBufs(c) \ {b}
    <3>0. PICK r \in Chains : \E i \in DOMAIN Chain(d, r) : x = Chain(d, r)[i] BY InChain
    <3>1. PICK i \in DOMAIN Chain(d, r) : x = Chain(d, r)[i] BY <3>0
    <3>2. CASE r = q
      <4>1. i + 1 \in DOMAIN Chain(c, q) /\ x = Chain(c, q)[i + 1] /\ i + 1 # 1 BY <1>3, <3>1, <3>2
      <4>2. x # b BY <1>3, <1>5, <4>1 DEF OnceIn
      <4> QED BY <4>1, <4>2, InChain
    <3>3. CASE r # q BY <1>3, <1>4, <1>5, <3>1, <3>3, InChain DEF OnceIn
    <3> QED BY <3>2, <3>3
  <2>2. ASSUME NEW x \in ChainBufs(c), x # b PROVE x \in ChainBufs(d)
    <3>0. PICK r \in Chains : \E i \in DOMAIN Chain(c, r) : x = Chain(c, r)[i] BY InChain
    <3>1. PICK i \in DOMAIN Chain(c, r) : x = Chain(c, r)[i] BY <3>0
    <3>2. CASE r = q BY <1>3, <2>2, <3>1, <3>2, InChain
    <3>3. CASE r # q BY <1>4, <3>1, <3>3, InChain
    <3> QED BY <3>2, <3>3
  <2> QED BY <2>1, <2>2
<1>8. OnceIn(d, L)
  <2> SUFFICES ASSUME NEW r \in Chains, NEW t \in Chains, NEW i \in DOMAIN Chain(d, r), NEW j \in DOMAIN Chain(d, t)
               PROVE  /\ Chain(d, r)[i] = Chain(d, t)[j] => r = t /\ i = j
                      /\ Chain(d, r)[i] \notin L
    BY DEF OnceIn
  <2> DEFINE m == IF r = q THEN i + 1 ELSE i
             k == IF t = q THEN j + 1 ELSE j
  <2>1. m \in DOMAIN Chain(c, r) /\ Chain(d, r)[i] = Chain(c, r)[m] BY <1>3, <1>4
  <2>2. k \in DOMAIN Chain(c, t) /\ Chain(d, t)[j] = Chain(c, t)[k] BY <1>3, <1>4
  <2>3. r = t /\ m = k => i = j
    <3>1. CASE r = q BY <1>3, <3>1
    <3>2. CASE r # q BY <3>2
    <3> QED BY <3>1, <3>2
  <2> HIDE DEF m, k
  <2> QED BY <1>5, <2>1, <2>2, <2>3 DEF OnceIn
<1> QED BY <1>2, <1>6, <1>7, <1>8 DEF Chained, b

(* A chain is emptied. *)
LEMMA ChainClear ==
  ASSUME NEW c, NEW d, NEW L, Chained(c, L), DOMAIN d.buf = DOMAIN c.buf, NEW q \in Chains,
         \A r \in Chains : Chain(d, r) = IF r = q THEN <<>> ELSE Chain(c, r)
  PROVE  /\ Chained(d, L) /\ Range(Chain(c, q)) \subseteq ChainBufs(c) \ L
         /\ ChainBufs(d) = ChainBufs(c) \ Range(Chain(c, q))
         /\ Chained(d, L \cup Range(Chain(c, q)))
<1>1. \A r \in Chains : Chain(c, r) \in Seq(DOMAIN c.buf) BY DEF Chained
<1>2. ASSUME NEW r \in Chains PROVE Chain(d, r) \in Seq(DOMAIN d.buf)
  <2>1. <<>> \in Seq(DOMAIN d.buf) OBVIOUS
  <2> QED BY <1>1, <2>1
<1>3. DOMAIN Chain(d, q) = {} OBVIOUS
<1>4. \A r \in Chains : r # q => Chain(d, r) = Chain(c, r) OBVIOUS
<1>5. OnceIn(c, L) BY DEF Chained
<1>6. \A x : x \in Range(Chain(c, q)) <=> \E i \in DOMAIN Chain(c, q) : x = Chain(c, q)[i] BY DEF Range
<1>7. Range(Chain(c, q)) \subseteq ChainBufs(c) \ L BY <1>5, <1>6, InChain DEF OnceIn
<1>8. ASSUME NEW x PROVE x \in ChainBufs(d) <=> x \in ChainBufs(c) /\ x \notin Range(Chain(c, q))
  <2>1. ASSUME NEW r \in Chains, r # q, NEW i \in DOMAIN Chain(c, r) PROVE Chain(c, r)[i] \notin Range(Chain(c, q))
    BY <1>5, <1>6, <2>1 DEF OnceIn
  <2> QED BY <1>3, <1>4, <1>6, <2>1, InChain
<1>9. OnceIn(d, L \cup Range(Chain(c, q)))
  <2>1. ASSUME NEW r \in Chains, NEW i \in DOMAIN Chain(d, r)
        PROVE  /\ r # q /\ i \in DOMAIN Chain(c, r) /\ Chain(d, r)[i] = Chain(c, r)[i]
               /\ Chain(d, r)[i] \notin L \cup Range(Chain(c, q))
    BY <1>3, <1>4, <1>5, <1>6 DEF OnceIn
  <2> QED BY <1>5, <2>1 DEF OnceIn
<1>10. OnceIn(d, L) BY <1>9 DEF OnceIn
<1> QED BY <1>2, <1>7, <1>8, <1>9, <1>10 DEF Chained

----------------------------------------------------------------------------
(* The operators on control blocks the steps of Gki are built from.        *)

(* An operator that touches no buffer. *)
LEMMA PlacedSame ==
  ASSUME NEW c, NEW d, NEW H, NEW L, NEW P, Placed(c, H, L, P), SameBufs(c, d) PROVE Placed(d, H, L, P)
<1>1. \A q \in Chains : Chain(d, q) = Chain(c, q) BY DEF SameBufs, Chain, Chains
<1>2. ChainBufs(d) = ChainBufs(c) BY <1>1 DEF ChainBufs
<1>3. Chained(d, L) BY <1>1 DEF Placed, SameBufs, Chained, OnceIn
<1> QED BY <1>2, <1>3, SameOwned DEF Placed, SameBufs

(* One that moves buffers between their pools and hands. *)
LEMMA PlacedHands ==
  ASSUME NEW c, NEW d, NEW H, NEW J, NEW L, NEW P, Placed(c, H, L, P), Owned(d, J, L \cup ChainBufs(c)),
         d.mbox = c.mbox, d.queue = c.queue, DOMAIN d.buf = DOMAIN c.buf, DOMAIN d.freeq = DOMAIN c.freeq
  PROVE  Placed(d, J, L, P)
<1>1. \A q \in Chains : Chain(d, q) = Chain(c, q) BY DEF Chain, Chains
<1>2. ChainBufs(d) = ChainBufs(c) BY <1>1 DEF ChainBufs
<1>3. Chained(d, L) BY <1>1 DEF Placed, Chained, OnceIn
<1> QED BY <1>2, <1>3 DEF Placed

(* A buffer that was gotten. *)
LEMMA PlacedGot ==
  ASSUME NEW c, NEW H, NEW L, NEW P, Placed(c, H, L, P), NEW got, Gotten(c, H, L \cup ChainBufs(c), got)
  PROVE  IF got.b = NoBuf THEN got.com = c
         ELSE got.b \notin H /\ got.b \in DOMAIN got.com.buf /\ Placed(got.com, H \cup {got.b}, L, P)
<1>1. CASE got.b = NoBuf BY <1>1 DEF Gotten, Placed, Owned
<1>2. CASE got.b # NoBuf
  <2>1. /\ got.b \notin H /\ got.b \in DOMAIN c.buf /\ Owned(got.com, H \cup {got.b}, L \cup ChainBufs(c))
        /\ got.com.mbox = c.mbox /\ got.com.queue = c.queue
        /\ DOMAIN got.com.buf = DOMAIN c.buf /\ DOMAIN got.com.freeq = DOMAIN c.freeq
    BY <1>2 DEF Gotten
  <2>2. Placed(got.com, H \cup {got.b}, L, P) BY <2>1, PlacedHands
  <2> QED BY <1>2, <2>1, <2>2
<1> QED BY <1>1, <1>2

(* GKI_getbuf and GKI_getpoolbuf. *)
LEMMA PlacedGetbuf ==
  ASSUME NEW c, NEW H, NEW L, NEW P, Placed(c, H, L, P), NEW size, NEW got, got = Getbuf(c, size)
  PROVE  IF got.b = NoBuf THEN got.com = c
         ELSE got.b \notin H /\ got.b \in DOMAIN got.com.buf /\ Placed(got.com, H \cup {got.b}, L, P)
<1>1. Gotten(c, H, L \cup ChainBufs(c), got) BY GetbufOwned DEF Placed
<1> QED BY <1>1, PlacedGot

(* GKI_getpoolbuf, whose pool is named by the caller. *)
LEMMA PlacedGetpoolbuf ==
  ASSUME NEW c, NEW H, NEW L, NEW P, Placed(c, H, L, P), NEW id \in P, NEW got, got = Getpoolbuf(c, id)
  PROVE  IF got.b = NoBuf THEN got.com = c
         ELSE got.b \notin H /\ got.b \in DOMAIN got.com.buf /\ Placed(got.com, H \cup {got.b}, L, P)
<1>1. Gotten(c, H, L \cup ChainBufs(c), got) BY GetpoolbufOwned DEF Placed
<1> QED BY <1>1, PlacedGot

(* GKI_freebuf. *)
LEMMA PlacedFreebuf ==
  ASSUME NEW c, NEW H, NEW L, NEW P, Placed(c, H, L, P), NEW b \in H
  PROVE  Placed(Freebuf(c, b), H \ {b}, L, P)
<1>1. Owned(c, H, L \cup ChainBufs(c)) BY DEF Placed
<1>2. /\ Owned(Freebuf(c, b), H \ {b}, L \cup ChainBufs(c))
      /\ Freebuf(c, b).mbox = c.mbox /\ Freebuf(c, b).queue = c.queue
      /\ DOMAIN Freebuf(c, b).buf = DOMAIN c.buf /\ DOMAIN Freebuf(c, b).freeq = DOMAIN c.freeq
  BY <1>1, FreebufOwned
<1> QED BY <1>2, PlacedHands

(* The content of a buffer is written. *)
LEMMA PlacedMsg ==
  ASSUME NEW c, NEW H, NEW L, NEW P, Placed(c, H, L, P), NEW b, NEW m
  PROVE  Placed([c EXCEPT !.buf[b].msg = m], H, L, P)
<1> DEFINE d == [c EXCEPT !.buf[b].msg = m]
<1>1. Owned(d, H, L \cup ChainBufs(c)) BY MsgOwned DEF Placed
<1>2. d.mbox = c.mbox /\ d.queue = c.queue /\ DOMAIN d.buf = DOMAIN c.buf /\ DOMAIN d.freeq = DOMAIN c.freeq
  BY DEF Placed, Owned, Shape
<1> HIDE DEF d
<1> QED BY <1>1, <1>2, PlacedHands DEF d

(* A buffer in hand is put at the end of a chain. *)
LEMMA PlacedLink ==
  ASSUME NEW c, NEW H, NEW L, NEW P, Placed(c, H, L, P), NEW b \in H, NEW d, NEW q \in Chains,
         DOMAIN d = DOMAIN c, d.freeq = c.freeq, d.buf = [c.buf EXCEPT ![b].status = BUF_STATUS_QUEUED],
         DOMAIN d.mbox = DOMAIN c.mbox, DOMAIN d.queue = DOMAIN c.queue,
         \A r \in Chains : Chain(d, r) = IF r = q THEN Append(Chain(c, q), b) ELSE Chain(c, r)
  PROVE  Placed(d, H \ {b}, L, P)
<1>1. Owned(c, H, L \cup ChainBufs(c)) /\ Chained(c, L) BY DEF Placed
<1>2. Owned(d, H \ {b}, (L \cup ChainBufs(c)) \cup {b}) /\ b \notin L \cup ChainBufs(c) BY <1>1, LinkOwned
<1>3. b \in DOMAIN c.buf /\ DOMAIN d.buf = DOMAIN c.buf BY <1>1 DEF Owned
<1>4. Chained(d, L) /\ ChainBufs(d) = ChainBufs(c) \cup {b} BY <1>1, <1>2, <1>3, ChainAppend
<1>5. (L \cup ChainBufs(c)) \cup {b} = L \cup ChainBufs(d) BY <1>4
<1> QED BY <1>2, <1>4, <1>5 DEF Placed

(* The linking half of GKI_send_msg, and GKI_enqueue. *)
LEMMA PlacedLinkMsg ==
  ASSUME NEW c, NEW H, NEW L, NEW P, Placed(c, H, L, P), NEW b \in H, NEW mb \in Mboxes
  PROVE  Placed(LinkMsg(c, mb, b), H \ {b}, L, P)
<1> DEFINE d == LinkMsg(c, mb, b)
           q == MboxEvt(mb)
<1>1. {"buf", "freeq", "mbox", "queue"} \subseteq DOMAIN c /\ {0, 2} \subseteq DOMAIN c.mbox
  BY DEF Placed, Owned, Shape
<1>2. q \in Chains /\ (mb = 0 => q = "mbox0") /\ (mb = 2 => q = "mbox2") BY DEF Mboxes, MboxEvt, Chains
<1>3. /\ DOMAIN d = DOMAIN c /\ d.freeq = c.freeq /\ d.buf = [c.buf EXCEPT ![b].status = BUF_STATUS_QUEUED]
      /\ d.mbox = [c.mbox EXCEPT ![mb] = Append(@, b)] /\ d.queue = c.queue
  BY <1>1 DEF LinkMsg
<1> HIDE DEF d, q
<1>4. \A r \in Chains : Chain(d, r) = IF r = q THEN Append(Chain(c, q), b) ELSE Chain(c, r)
  <2>1. CASE mb = 0 BY <1>1, <1>2, <1>3, <2>1 DEF Chain, Chains
  <2>2. CASE mb = 2 BY <1>1, <1>2, <1>3, <2>2 DEF Chain, Chains
  <2> QED BY <2>1, <2>2 DEF Mboxes
<1>5. DOMAIN d.mbox = DOMAIN c.mbox /\ DOMAIN d.queue = DOMAIN c.queue BY <1>3
<1>6. Placed(d, H \ {b}, L, P)
  <2>1. /\ q \in Chains /\ DOMAIN d = DOMAIN c /\ d.freeq = c.freeq
        /\ d.buf = [c.buf EXCEPT ![b].status = BUF_STATUS_QUEUED]
    BY <1>2, <1>3
  <2>2. DOMAIN d.mbox = DOMAIN c.mbox /\ DOMAIN d.queue = DOMAIN c.queue BY <1>5
  <2> QED BY ONLY Placed(c, H, L, P), b \in H, <2>1, <2>2, <1>4, PlacedLink
<1> QED BY <1>6 DEF d

(* GKI_enqueue, onto the transmit queue. *)
LEMMA PlacedEnqueue ==
  ASSUME NEW c, NEW H, NEW L, NEW P, Placed(c, H, L, P), NEW b \in H
  PROVE  Placed(Enqueue(c, "tx", b), H \ {b}, L, P)
<1> DEFINE d == Enqueue(c, "tx", b)
<1>1. {"buf", "freeq", "mbox", "queue"} \subseteq DOMAIN c /\ "tx" \in DOMAIN c.queue /\ b \in DOMAIN c.buf
      /\ c.buf[b].status = BUF_STATUS_UNLINKED
  BY DEF Placed, Owned, Shape, StatusOf
<1>2. /\ DOMAIN d = DOMAIN c /\ d.freeq = c.freeq /\ d.buf = [c.buf EXCEPT ![b].status = BUF_STATUS_QUEUED]
      /\ d.mbox = c.mbox /\ d.queue = [c.queue EXCEPT !["tx"] = Append(@, b)]
  BY <1>1 DEF Enqueue, Linked
<1> HIDE DEF d
<1>3. "tx" \in Chains /\ \A r \in Chains : Chain(d, r) = IF r = "tx" THEN Append(Chain(c, "tx"), b) ELSE Chain(c, r)
  BY <1>1, <1>2 DEF Chain, Chains
<1> QED BY <1>2, <1>3, PlacedLink DEF d

(* GKI_read_mbox: the first buffer of the mailbox comes into hand. *)
LEMMA PlacedReadMbox ==
  ASSUME NEW c, NEW H, NEW L, NEW P, Placed(c, H, L, P), NEW mb \in Mboxes, NEW got, got = ReadMbox(c, mb)
  PROVE  IF got.b = NoBuf THEN got.com = c
         ELSE got.b \notin H /\ got.b \in DOMAIN got.com.buf /\ Placed(got.com, H \cup {got.b}, L, P)
<1> DEFINE q == MboxEvt(mb)
           b == Head(c.mbox[mb])
           d == [c EXCEPT !.mbox[mb] = Tail(@), !.buf[b].status = BUF_STATUS_UNLINKED]
<1>1. {"buf", "freeq", "mbox", "queue"} \subseteq DOMAIN c /\ {0, 2} \subseteq DOMAIN c.mbox
  BY DEF Placed, Owned, Shape
<1>2. q \in Chains /\ (mb = 0 => q = "mbox0") /\ (mb = 2 => q = "mbox2") BY DEF Mboxes, MboxEvt, Chains
<1>3. c.mbox[mb] = Chain(c, q) BY <1>2 DEF Chain, Mboxes
<1>4. CASE c.mbox[mb] = <<>> BY <1>4 DEF ReadMbox, Got
<1>5. CASE c.mbox[mb] # <<>>
  <2>1. got.b = b /\ got.com = d BY <1>5 DEF ReadMbox, Got
  <2>2. /\ DOMAIN d = DOMAIN c /\ d.freeq = c.freeq /\ d.buf = [c.buf EXCEPT ![b].status = BUF_STATUS_UNLINKED]
        /\ d.mbox = [c.mbox EXCEPT ![mb] = Tail(@)] /\ d.queue = c.queue
    BY <1>1
  <2>3. b = Head(Chain(c, q)) BY <1>3
  <2> HIDE DEF d, q, b
  <2>4. \A r \in Chains : Chain(d, r) = IF r = q THEN Tail(Chain(c, q)) ELSE Chain(c, r)
    <3>1. CASE mb = 0 BY <1>1, <1>2, <2>2, <3>1 DEF Chain, Chains
    <3>2. CASE mb = 2 BY <1>1, <1>2, <2>2, <3>2 DEF Chain, Chains
    <3> QED BY <3>1, <3>2 DEF Mboxes
  <2>5. Owned(c, H, L \cup ChainBufs(c)) /\ Chained(c, L) BY DEF Placed
  <2>6. Chained(d, L) /\ b \in ChainBufs(c) \ L /\ ChainBufs(d) = ChainBufs(c) \ {b}
    <3>1. DOMAIN d.buf = DOMAIN c.buf BY <2>2
    <3>2. Chain(c, q) # <<>> BY <1>3, <1>5
    <3> QED BY <1>2, <2>3, <2>4, <2>5, <3>1, <3>2, ChainTail
  <2>7. Owned(d, H \cup {b}, (L \cup ChainBufs(c)) \ {b}) /\ b \notin H
    <3>1. b \in L \cup ChainBufs(c) BY <2>6
    <3>2. DOMAIN d.mbox = DOMAIN c.mbox /\ DOMAIN d.queue = DOMAIN c.queue BY <2>2
    <3> QED BY <2>2, <2>5, <3>1, <3>2, UnlinkOwned
  <2>8. (L \cup ChainBufs(c)) \ {b} = L \cup ChainBufs(d) BY <2>6
  <2>9. b \in DOMAIN d.buf /\ b # NoBuf BY <2>2, <2>5, <2>6 DEF Owned
  <2> QED BY <2>1, <2>2, <2>6, <2>7, <2>8, <2>9 DEF Placed
<1> QED BY <1>4, <1>5

(* A chain is emptied and its buffers are freed. *)
LEMMA PlacedClear ==
  ASSUME NEW c, NEW H, NEW L, NEW P, Placed(c, H, L, P), NEW e, NEW q \in Chains,
         DOMAIN e = DOMAIN c, e.freeq = c.freeq, e.buf = c.buf, DOMAIN e.mbox = DOMAIN c.mbox, DOMAIN e.queue = DOMAIN c.queue,
         \A r \in Chains : Chain(e, r) = IF r = q THEN <<>> ELSE Chain(c, r)
  PROVE  Placed(FreeAll(e, Range(Chain(c, q))), H, L, P)
<1> DEFINE S == Range(Chain(c, q))
           d == FreeAll(e, S)
<1>1. Owned(c, H, L \cup ChainBufs(c)) /\ Chained(c, L) BY DEF Placed
<1>2. Chained(e, L) /\ S \subseteq ChainBufs(c) \ L /\ ChainBufs(e) = ChainBufs(c) \ S
  <2>1. DOMAIN e.buf = DOMAIN c.buf OBVIOUS
  <2>2. /\ Chained(e, L) /\ Range(Chain(c, q)) \subseteq ChainBufs(c) \ L
        /\ ChainBufs(e) = ChainBufs(c) \ Range(Chain(c, q))
        /\ Chained(e, L \cup Range(Chain(c, q)))
    BY <1>1, <2>1, ChainClear
  <2> QED BY <2>2
<1> HIDE DEF S
<1>3. /\ Owned(d, H, (L \cup ChainBufs(c)) \ S)
      /\ d.mbox = e.mbox /\ d.queue = e.queue /\ DOMAIN d.buf = DOMAIN c.buf /\ DOMAIN d.freeq = DOMAIN c.freeq
  <2>1. S \subseteq L \cup ChainBufs(c) BY <1>2
  <2> QED BY <1>1, <2>1, FreeAllOwned, Z3T(60)
<1> HIDE DEF d
<1>4. (L \cup ChainBufs(c)) \ S = L \cup ChainBufs(e) BY <1>2
<1>5. \A r \in Chains : Chain(d, r) = Chain(e, r) BY <1>3 DEF Chain, Chains
<1>6. ChainBufs(d) = ChainBufs(e) BY <1>5 DEF ChainBufs
<1>7. Chained(d, L) BY <1>2, <1>3, <1>5 DEF Chained, OnceIn
<1> QED BY <1>3, <1>4, <1>6, <1>7 DEF Placed, d, S

(* The transmit queue is drained. *)
LEMMA PlacedDrainTx ==
  ASSUME NEW c, NEW H, NEW L, NEW P, Placed(c, H, L, P) PROVE Placed(DrainTx(c), H, L, P)
<1> DEFINE e == [c EXCEPT !.queue["tx"] = <<>>]
<1>1. {"buf", "freeq", "mbox", "queue"} \subseteq DOMAIN c /\ "tx" \in DOMAIN c.queue
  BY DEF Placed, Owned, Shape
<1>2. /\ DOMAIN e = DOMAIN c /\ e.freeq = c.freeq /\ e.buf = c.buf /\ e.mbox = c.mbox
      /\ e.queue = [c.queue EXCEPT !["tx"] = <<>>]
  BY <1>1
<1>3. DrainTx(c) = FreeAll(e, Range(Chain(c, "tx"))) BY DEF DrainTx, Chain
<1> HIDE DEF e
<1>4. "tx" \in Chains /\ \A r \in Chains : Chain(e, r) = IF r = "tx" THEN <<>> ELSE Chain(c, r)
  BY <1>1, <1>2 DEF Chain, Chains
<1> QED BY <1>2, <1>3, <1>4, PlacedClear

(* The mailbox of the stack is emptied too. *)
LEMMA PlacedClearMbox ==
  ASSUME NEW c, NEW H, NEW L, NEW P, Placed(c, H, L, P)
  PROVE  Placed(FreeAll([c EXCEPT !.mbox[0] = <<>>], Range(c.mbox[0])), H, L, P)
<1> DEFINE e == [c EXCEPT !.mbox[0] = <<>>]
<1>1. {"buf", "freeq", "mbox", "queue"} \subseteq DOMAIN c /\ {0, 2} \subseteq DOMAIN c.mbox
  BY DEF Placed, Owned, Shape
<1>2. /\ DOMAIN e = DOMAIN c /\ e.freeq = c.freeq /\ e.buf = c.buf /\ e.queue = c.queue
      /\ e.mbox = [c.mbox EXCEPT ![0] = <<>>]
  BY <1>1
<1>3. c.mbox[0] = Chain(c, "mbox0") BY DEF Chain
<1> HIDE DEF e
<1>4. "mbox0" \in Chains /\ \A r \in Chains : Chain(e, r) = IF r = "mbox0" THEN <<>> ELSE Chain(c, r)
  BY <1>1, <1>2 DEF Chain, Chains
<1>5. DOMAIN e.mbox = DOMAIN c.mbox /\ DOMAIN e.queue = DOMAIN c.queue BY <1>2
<1>6. Placed(FreeAll(e, Range(Chain(c, "mbox0"))), H, L, P) BY <1>2, <1>4, <1>5, PlacedClear
<1> QED BY <1>3, <1>6 DEF e

----------------------------------------------------------------------------
(* The functions of gki_time.cc and the timer lists touch no buffer.       *)
(* Two steps that touch no buffer touch none together. *)
LEMMA SameTrans ==
  ASSUME NEW c, NEW d, NEW e, SameBufs(c, d), SameBufs(d, e) PROVE SameBufs(c, e)
BY DEF SameBufs

(* Starting, stopping and updating GKI timers. *)
LEMMA TimersSame ==
  ASSUME NEW c, NEW t, NEW ticks, NEW b
  PROVE  /\ SameBufs(c, TimersInit(c)) /\ SameBufs(c, TickCback(c, b)) /\ SameBufs(c, AdjustTimerCount(c, ticks))
         /\ SameBufs(c, StartSystemTick(c)) /\ SameBufs(c, StartTimer(c, t, ticks, b)) /\ SameBufs(c, StopTimer(c, t))
         /\ SameBufs(c, TimersExpire(c, b))
<1>1. ASSUME NEW x, NEW y PROVE SameBufs(x, TickCback(x, y)) BY DEF TickCback, SameBufs
<1>2. ASSUME NEW x, NEW y PROVE SameBufs(x, AdjustTimerCount(x, y)) BY DEF AdjustTimerCount, SameBufs
<1>3. SameBufs(c, StartSystemTick(c))
  <2>1. SameBufs(c, [c EXCEPT !.system_tick_running = TRUE]) BY DEF SameBufs
  <2>2. SameBufs(c, TickCback([c EXCEPT !.system_tick_running = TRUE], TRUE)) BY <1>1, <2>1, SameTrans
  <2>3. SameBufs(c, [c EXCEPT !.OSTicksTilStop = 0]) /\ SameBufs(c, c) BY DEF SameBufs
  <2> QED BY <2>2, <2>3 DEF StartSystemTick
<1>4. SameBufs(c, StartTimer(c, t, ticks, b))
  <2> DEFINE on == StartSystemTick(c)
             set == [on EXCEPT !.OSTaskTmrR[t] = IF b THEN ticks ELSE 0,
                               !.OSTaskTmr[t]  = ticks + (on.OSNumOrigTicks - on.OSTicksTilExp)]
  <2>1. SameBufs(on, set) BY DEF SameBufs
  <2>2. StartTimer(c, t, ticks, b) = AdjustTimerCount(set, ticks) BY DEF StartTimer
  <2> HIDE DEF on, set
  <2>3. SameBufs(set, AdjustTimerCount(set, ticks)) BY <1>2
  <2>4. SameBufs(c, on) BY <1>3 DEF on
  <2> QED BY <2>1, <2>2, <2>3, <2>4, SameTrans
<1>5. SameBufs(c, StopTimer(c, t))
  <2> DEFINE off == [c EXCEPT !.OSTaskTmrR[t] = 0, !.OSTaskTmr[t] = 0]
  <2>1. SameBufs(c, off) BY DEF SameBufs
  <2>2. SameBufs(off, [off EXCEPT !.OSTicksTilStop = GKI_DELAY_STOP_SYS_TICK]) BY DEF SameBufs
  <2>3. StopTimer(c, t) \in {off, [off EXCEPT !.OSTicksTilStop = GKI_DELAY_STOP_SYS_TICK]} BY DEF StopTimer
  <2> HIDE DEF off
  <2> QED BY <2>1, <2>2, <2>3, SameTrans
<1>6. SameBufs(c, TimersInit(c)) BY DEF TimersInit, SameBufs
<1>7. SameBufs(c, TimersExpire(c, b)) BY DEF TimersExpire, SameBufs
<1> QED BY <1>1, <1>2, <1>3, <1>4, <1>5, <1>6, <1>7

(* The timer lists of the stack and of NFA_SYS. *)
LEMMA ListsSame ==
  ASSUME NEW c, NEW q, NEW x, NEW n
  PROVE  /\ SameBufs(c, AddToTimerList(c, q, x, n)) /\ SameBufs(c, RemoveFromTimerList(c, q, x))
         /\ SameBufs(c, UpdateTimerList(c, q, n)) /\ SameBufs(c, StartList(c, x, n)) /\ SameBufs(c, StopList(c, x))
<1>1. ASSUME NEW d, NEW p PROVE SameBufs(d, AddToTimerList(d, p, x, n)) BY DEF AddToTimerList, SameBufs
<1>2. ASSUME NEW d, NEW p PROVE SameBufs(d, RemoveFromTimerList(d, p, x)) BY DEF RemoveFromTimerList, SameBufs
<1>3. SameBufs(c, UpdateTimerList(c, q, n)) BY DEF UpdateTimerList, SameBufs
<1>4. SameBufs(c, StartList(c, x, n))
  <2> DEFINE p   == ListOf(x)
             at  == IF p = "nfa" THEN [c EXCEPT !.OSTicks = 0, !.last_gki_ticks = 0] ELSE c
             on  == IF c.tl[p].order # <<>> THEN c ELSE StartTimer(at, TimerOf(p), PeriodOf(p), TRUE)
             out == RemoveFromTimerList(on, p, x)
  <2>1. StartList(c, x, n) = AddToTimerList(out, p, x, n) BY DEF StartList
  <2>2. SameBufs(c, at) /\ SameBufs(c, c) BY DEF SameBufs
  <2> HIDE DEF at
  <2>3. SameBufs(at, StartTimer(at, TimerOf(p), PeriodOf(p), TRUE)) BY TimersSame
  <2>4. SameBufs(c, on) BY <2>2, <2>3, SameTrans
  <2> HIDE DEF on, p
  <2>5. SameBufs(on, out) BY <1>2
  <2> HIDE DEF out
  <2>6. SameBufs(out, AddToTimerList(out, p, x, n)) BY <1>1
  <2> QED BY <2>1, <2>4, <2>5, <2>6, SameTrans
<1>5. SameBufs(c, StopList(c, x))
  <2> DEFINE off == RemoveFromTimerList(c, ListOf(x), x)
  <2>1. StopList(c, x) \in {off, StopTimer(off, TimerOf(ListOf(x)))} BY DEF StopList
  <2>2. SameBufs(c, off) BY <1>2
  <2> HIDE DEF off
  <2>3. SameBufs(off, StopTimer(off, TimerOf(ListOf(x)))) BY TimersSame
  <2> QED BY <2>1, <2>2, <2>3, SameTrans
<1> QED BY <1>1, <1>2, <1>3, <1>4, <1>5

(* Nor do those of the events, and of the task that is marked dead. *)
LEMMA EventsSame ==
  ASSUME NEW c, NEW task, NEW evts
  PROVE  /\ SameBufs(c, SendEvent(c, task, evts)) /\ SameBufs(c, MarkDead(c, task))
         /\ SameBufs(c, [c EXCEPT !.OSWaitEvt[task] = {}, !.nfc_waits = FALSE, !.nfc_signal = FALSE])
BY DEF SendEvent, MarkDead, SameBufs

(* The work a message makes ends with its buffer in the queue or free. *)
LEMMA PlacedHandle ==
  ASSUME NEW c, NEW H, NEW L, NEW P, Placed(c, H, L, P), NEW b \in H
  PROVE  Placed(Handle(c, b), H \ {b}, L, P)
<1> DEFINE m == c.buf[b].msg
<1>1. m.op = "keep" => Handle(c, b) = Enqueue(c, "tx", b) BY DEF Handle
<1>2. m.op = "drain" => Handle(c, b) = Freebuf(DrainTx(c), b) BY DEF Handle
<1>3. m.op = "start" => Handle(c, b) = Freebuf(StartList(c, m.tle, m.ticks), b) BY DEF Handle
<1>4. m.op = "stop" => Handle(c, b) = Freebuf(StopList(c, m.tle), b) BY DEF Handle
<1>5. m.op = "close" => Handle(c, b) = Freebuf(ShutdownNfcc(c), b) BY DEF Handle
<1>6. m.op \notin {"keep", "drain", "start", "stop", "close"} => Handle(c, b) = Freebuf(c, b) BY DEF Handle
<1>7. ASSUME NEW d, Placed(d, H, L, P) PROVE Placed(Freebuf(d, b), H \ {b}, L, P) BY <1>7, PlacedFreebuf
<1> HIDE DEF m
<1>8. Placed(ShutdownNfcc(c), H, L, P)
  <2> DEFINE dr == DrainTx(c)
             fr == FreeAll([dr EXCEPT !.mbox[0] = <<>>], Range(dr.mbox[0]))
             t0 == StopTimer(fr, TIMER_0)
             t1 == StopTimer(t0, TIMER_1)
             t2 == StopTimer(t1, TIMER_2)
  <2>1. dr.mbox = c.mbox BY DEF DrainTx, FreeAll
  <2>2. ShutdownNfcc(c) = [t2 EXCEPT !.closing = TRUE] BY <2>1 DEF ShutdownNfcc
  <2>3. Placed(dr, H, L, P) BY PlacedDrainTx
  <2> HIDE DEF dr
  <2>4. Placed(fr, H, L, P) BY <2>3, PlacedClearMbox
  <2> HIDE DEF fr
  <2>5. SameBufs(fr, t0) /\ SameBufs(t0, t1) /\ SameBufs(t1, t2) BY TimersSame
  <2> HIDE DEF t0, t1, t2
  <2>6. SameBufs(t2, [t2 EXCEPT !.closing = TRUE]) BY DEF SameBufs
  <2>7. SameBufs(fr, [t2 EXCEPT !.closing = TRUE]) BY <2>5, <2>6, SameTrans
  <2> QED BY <2>2, <2>4, <2>7, PlacedSame
<1>9. Placed(DrainTx(c), H, L, P) BY PlacedDrainTx
<1>10. Placed(StartList(c, m.tle, m.ticks), H, L, P) BY ListsSame, PlacedSame
<1>11. Placed(StopList(c, m.tle), H, L, P) BY ListsSame, PlacedSame
<1>12. Placed(Enqueue(c, "tx", b), H \ {b}, L, P) BY PlacedEnqueue
<1> QED BY <1>1, <1>2, <1>3, <1>4, <1>5, <1>6, <1>7, <1>8, <1>9, <1>10, <1>11, <1>12

----------------------------------------------------------------------------
(* The inductive invariant: what the threads have in hand is what their    *)
(* places in the program say, no two have the same buffer, and every       *)
(* buffer is where its status says.                                        *)
HandSet(a, n) == {a["hal"].b, a["api"].b, n.new} \ {NoBuf}

Distinct(a, n) ==
  /\ a["hal"].b = a["api"].b => a["hal"].b = NoBuf
  /\ n.new \in {a["hal"].b, a["api"].b} => n.new = NoBuf

ThreadsOK(a, n) ==
  /\ DOMAIN a = Senders
  /\ \A s \in Senders :
       /\ {"pc", "b", "mbox", "todo"} \subseteq DOMAIN a[s]
       /\ a[s].todo \in Seq(Message) /\ a[s].mbox \in Mboxes
       /\ a[s].b # NoBuf <=> a[s].pc = "send"
  /\ {"pc", "todo", "new"} \subseteq DOMAIN n
  /\ n.new # NoBuf <=> n.pc \in {"post", "firepost"}

BufInv ==
  /\ env \in Environment /\ "lost" \in DOMAIN hist
  /\ ThreadsOK(app, nfc) /\ Distinct(app, nfc)
  /\ Placed(com, HandSet(app, nfc), hist.lost, DOMAIN env.pools)

(* A step that moves no buffer. *)
LEMMA QuietStep ==
  ASSUME BufInv, env' = env, SameBufs(com, com'), ThreadsOK(app', nfc'),
         \A s \in Senders : app'[s].b = app[s].b, nfc'.new = nfc.new,
         "lost" \in DOMAIN hist', hist'.lost = hist.lost
  PROVE  BufInv'
<1>1. app'["hal"].b = app["hal"].b /\ app'["api"].b = app["api"].b BY DEF Senders
<1>2. HandSet(app', nfc') = HandSet(app, nfc) /\ Distinct(app', nfc') BY <1>1 DEF HandSet, Distinct, BufInv
<1>3. Placed(com', HandSet(app, nfc), hist.lost, DOMAIN env.pools) BY PlacedSame DEF BufInv
<1> QED BY <1>2, <1>3 DEF BufInv

(* A step of the tick's thread that moves no buffer. *)
LEMMA TickQuiet ==
  ASSUME BufInv, SameBufs(com, com'), UNCHANGED <<env, app, nfc>>,
         "lost" \in DOMAIN hist', hist'.lost = hist.lost
  PROVE  BufInv'
BY QuietStep DEF BufInv

(* One of the application, between two places where it holds no buffer. *)
LEMMA ApiQuiet ==
  ASSUME BufInv, SameBufs(com, com'), UNCHANGED <<env, nfc>>, NEW pc, pc # "send", app["api"].pc # "send", ApiGoes(pc),
         "lost" \in DOMAIN hist', hist'.lost = hist.lost
  PROVE  BufInv'
<1>1. /\ DOMAIN app' = DOMAIN app /\ app'["hal"] = app["hal"] /\ DOMAIN app'["api"] = DOMAIN app["api"]
      /\ app'["api"].b = app["api"].b /\ app'["api"].todo = app["api"].todo /\ app'["api"].mbox = app["api"].mbox
      /\ app'["api"].pc = pc
  BY DEF ApiGoes, BufInv, ThreadsOK, Senders
<1>2. ThreadsOK(app', nfc') BY <1>1 DEF BufInv, ThreadsOK, Senders
<1>3. \A s \in Senders : app'[s].b = app[s].b BY <1>1 DEF Senders
<1> QED BY <1>2, <1>3, QuietStep

(* BTU_TASK. *)
LEMMA TickStepKeeps == ASSUME BufInv, TickStep PROVE BufInv'
<1>1. CASE Register BY <1>1, TickQuiet DEF Register, SameBufs, BufInv
<1>2. CASE Tick BY <1>2, TickQuiet DEF Tick, SameBufs, BufInv
<1>3. CASE Leave BY <1>3, TickQuiet DEF Leave, SameBufs, BufInv
<1>4. CASE StoreTicks BY <1>4, TickQuiet DEF StoreTicks, SameBufs, BufInv
<1>5. CASE CountStop BY <1>5, TickQuiet DEF CountStop, SameBufs, BufInv
<1>6. CASE Stopping
  <2> DEFINE d == [com EXCEPT !.OSTicksTilStop = 0, !.system_tick_running = FALSE]
  <2>0. SameBufs(com, d) BY DEF SameBufs
  <2>1. SameBufs(d, TickCback(d, FALSE)) BY TimersSame
  <2>2. SameBufs(com, [com EXCEPT !.OSTicksTilStop = 0]) BY DEF SameBufs
  <2>3. com' \in {TickCback(d, FALSE), [com EXCEPT !.OSTicksTilStop = 0]} BY <1>6 DEF Stopping, StopTick
  <2> HIDE DEF d
  <2>4. SameBufs(com, com') BY <2>0, <2>1, <2>2, <2>3, SameTrans
  <2> QED BY <1>6, <2>4, TickQuiet DEF Stopping, BufInv
<1>7. CASE UpdateTimers
  <2> DEFINE late == TimersExpire(com, com.OSRdyTbl[NFC_TASK] = "ready")
  <2>1. com' = late \/ \E evts : com' = SendEvent(late, NFC_TASK, evts) BY <1>7 DEF UpdateTimers
  <2>2. SameBufs(com, late) BY TimersSame
  <2> HIDE DEF late
  <2>3. ASSUME com' = late PROVE SameBufs(com, com') BY <2>2, <2>3
  <2>4. ASSUME NEW evts, com' = SendEvent(late, NFC_TASK, evts) PROVE SameBufs(com, com')
    <3>2. SameBufs(late, SendEvent(late, NFC_TASK, evts)) BY EventsSame
    <3>3. SameBufs(com, SendEvent(late, NFC_TASK, evts)) BY <2>2, <3>2, SameTrans
    <3> QED BY <2>4, <3>3
  <2>5. SameBufs(com, com') BY <2>1, <2>3, <2>4
  <2> QED BY <1>7, <2>5, TickQuiet DEF UpdateTimers, BufInv
<1>8. CASE ToWait BY <1>8, TickQuiet DEF ToWait, SameBufs, BufInv
<1>9. CASE Resume BY <1>9, TickQuiet DEF Resume, SameBufs, BufInv
<1> QED BY <1>1, <1>2, <1>3, <1>4, <1>5, <1>6, <1>7, <1>8, <1>9 DEF TickStep

(* GKI_shutdown. *)
LEMMA ApiStepKeeps == ASSUME BufInv, Shutdown \/ ApiStep PROVE BufInv'
<1>1. CASE Shutdown
  BY <1>1, ApiQuiet, EventsSame DEF Shutdown, ShutdownTask, BufInv
<1>2. CASE BtuEvent
  <2> DEFINE sent == SendEvent(com, BTU_TASK, {SHUTDOWN})
             off == [sent EXCEPT !.system_tick_running = FALSE]
  <2>1. com' \in {sent, TickCback(off, FALSE)} BY <1>2 DEF BtuEvent
  <2>2. SameBufs(com, sent) BY EventsSame
  <2>3. SameBufs(sent, off) BY DEF SameBufs
  <2> HIDE DEF sent, off
  <2>4. SameBufs(off, TickCback(off, FALSE)) BY TimersSame
  <2>5. SameBufs(com, TickCback(off, FALSE)) BY <2>2, <2>3, <2>4, SameTrans
  <2>6. SameBufs(com, com') BY <2>1, <2>2, <2>5
  <2> QED BY <1>2, <2>6, ApiQuiet DEF BtuEvent, BufInv
<1>3. CASE BtuPoll BY <1>3, ApiQuiet DEF BtuPoll, SameBufs, BufInv
<1>4. CASE NfcDead BY <1>4, ApiQuiet, EventsSame DEF NfcDead, ShutdownTask, BufInv
<1>5. CASE NfcEvent BY <1>5, ApiQuiet, EventsSame DEF NfcEvent, BufInv
<1>6. CASE NfcPoll BY <1>6, ApiQuiet DEF NfcPoll, SameBufs, BufInv
<1>7. CASE ShutdownExit BY <1>7, ApiQuiet DEF ShutdownExit, SameBufs, BufInv
<1> QED BY <1>1, <1>2, <1>3, <1>4, <1>5, <1>6, <1>7 DEF ApiStep

(* A step that moves buffers. *)
LEMMA MoveStep ==
  ASSUME BufInv, env' = env, ThreadsOK(app', nfc'), Distinct(app', nfc'),
         Placed(com', HandSet(app', nfc'), hist.lost, DOMAIN env.pools),
         "lost" \in DOMAIN hist', hist'.lost = hist.lost
  PROVE  BufInv'
BY DEF BufInv

(* What is in hand after a thread took a buffer, or gave its own away. *)
LEMMA SenderTakes ==
  ASSUME NEW a, NEW n, Distinct(a, n), NEW s \in Senders, a[s].b = NoBuf, NEW b, b \notin HandSet(a, n), b # NoBuf,
         NEW d, \A t \in Senders : d[t].b = IF t = s THEN b ELSE a[t].b
  PROVE  HandSet(d, n) = HandSet(a, n) \cup {b} /\ Distinct(d, n)
<1>1. CASE s = "hal" BY <1>1 DEF HandSet, Distinct, Senders
<1>2. CASE s = "api" BY <1>2 DEF HandSet, Distinct, Senders
<1> QED BY <1>1, <1>2 DEF Senders

(* A sending thread passes on the buffer it holds. *)
LEMMA SenderGives ==
  ASSUME NEW a, NEW n, Distinct(a, n), NEW s \in Senders, a[s].b # NoBuf,
         NEW d, \A t \in Senders : d[t].b = IF t = s THEN NoBuf ELSE a[t].b
  PROVE  a[s].b \in HandSet(a, n) /\ HandSet(d, n) = HandSet(a, n) \ {a[s].b} /\ Distinct(d, n)
<1>1. CASE s = "hal" BY <1>1 DEF HandSet, Distinct, Senders
<1>2. CASE s = "api" BY <1>2 DEF HandSet, Distinct, Senders
<1> QED BY <1>1, <1>2 DEF Senders

(* The task of the stack gets a buffer for a message of its own. *)
LEMMA TaskTakes ==
  ASSUME NEW a, NEW n, Distinct(a, n), n.new = NoBuf, NEW b, b \notin HandSet(a, n), b # NoBuf, NEW d, d.new = b
  PROVE  HandSet(a, d) = HandSet(a, n) \cup {b} /\ Distinct(a, d)
BY DEF HandSet, Distinct

(* The task of the stack passes that buffer on. *)
LEMMA TaskGives ==
  ASSUME NEW a, NEW n, Distinct(a, n), n.new # NoBuf, NEW d, d.new = NoBuf
  PROVE  n.new \in HandSet(a, n) /\ HandSet(a, d) = HandSet(a, n) \ {n.new} /\ Distinct(a, d)
BY DEF HandSet, Distinct

(* The steps of a sending thread. *)
LEMMA SenderKeeps == ASSUME BufInv, NEW s \in Senders, Alloc(s) \/ SendStep(s) PROVE BufInv'
<1> DEFINE H == HandSet(app, nfc)
           L == hist.lost
           P == DOMAIN env.pools
<1>1. Placed(com, H, L, P) /\ ThreadsOK(app, nfc) /\ Distinct(app, nfc) BY DEF BufInv
<1>2. DOMAIN app = Senders /\ {"pc", "b", "mbox", "todo"} \subseteq DOMAIN app[s] /\ app[s].todo \in Seq(Message)
      /\ app[s].mbox \in Mboxes /\ (app[s].b # NoBuf <=> app[s].pc = "send")
  BY <1>1 DEF ThreadsOK
<1> HIDE DEF H, L, P
<1>3. CASE Alloc(s)
  <2> DEFINE m == Head(app[s].todo)
             got == Getbuf(com, m.size)
  <2>1. /\ app[s].pc = "idle" /\ app[s].todo # <<>> /\ UNCHANGED <<env, nfc, hist>>
        /\ IF got.b = NoBuf THEN com' = com /\ app' = [app EXCEPT ![s].todo = Tail(@)]
           ELSE /\ com' = [got.com EXCEPT !.buf[got.b].msg = m]
                /\ app' = [app EXCEPT ![s] = [pc |-> "send", b |-> got.b, mbox |-> m.mbox, todo |-> Tail(@.todo)]]
    BY <1>3 DEF Alloc
  <2>2. m \in Message /\ Tail(app[s].todo) \in Seq(Message)
    <3> DEFINE q == app[s].todo
    <3>1. q \in Seq(Message) /\ q # <<>> BY <1>2, <2>1
    <3> HIDE DEF q
    <3>2. Head(q) \in Message /\ Tail(q) \in Seq(Message) BY <3>1
    <3> QED BY <3>2 DEF q
  <2>3. m.mbox \in Mboxes BY <2>2 DEF Message
  <2>4. app[s].b = NoBuf BY <1>2, <2>1
  <2>5. IF got.b = NoBuf THEN got.com = com
        ELSE got.b \notin H /\ got.b \in DOMAIN got.com.buf /\ Placed(got.com, H \cup {got.b}, L, P)
    BY <1>1, PlacedGetbuf
  <2> HIDE DEF m, got
  <2>6. CASE got.b = NoBuf
    <3>1. \A t \in Senders : /\ app'[t].b = app[t].b /\ app'[t].pc = app[t].pc /\ app'[t].mbox = app[t].mbox
                              /\ DOMAIN app'[t] = DOMAIN app[t]
                              /\ app'[t].todo = IF t = s THEN Tail(app[s].todo) ELSE app[t].todo
      BY <1>1, <1>2, <2>1, <2>6, ZenonT(60) DEF ThreadsOK
    <3>2. DOMAIN app' = Senders BY <1>2, <2>1, <2>6
    <3>3. ThreadsOK(app', nfc') BY <1>1, <2>1, <2>2, <3>1, <3>2, ZenonT(60) DEF ThreadsOK
    <3>4. SameBufs(com, com') BY <2>1, <2>6 DEF SameBufs
    <3> QED BY <2>1, <3>1, <3>3, <3>4, QuietStep DEF BufInv
  <2>7. CASE got.b # NoBuf
    <3>1. app' = [app EXCEPT ![s] = [pc |-> "send", b |-> got.b, mbox |-> m.mbox, todo |-> Tail(@.todo)]]
          /\ com' = [got.com EXCEPT !.buf[got.b].msg = m]
      BY <2>1, <2>7
    <3>2. \A t \in Senders : app'[t] = IF t = s THEN [pc |-> "send", b |-> got.b, mbox |-> m.mbox, todo |-> Tail(app[s].todo)]
                                       ELSE app[t]
      BY <1>2, <3>1
    <3>3. DOMAIN app' = Senders BY <1>2, <3>1
    <3>4. ThreadsOK(app', nfc')
      <4> DEFINE r == [pc |-> "send", b |-> got.b, mbox |-> m.mbox, todo |-> Tail(app[s].todo)]
      <4>1. /\ {"pc", "b", "mbox", "todo"} \subseteq DOMAIN r /\ r.todo \in Seq(Message) /\ r.mbox \in Mboxes
            /\ r.b # NoBuf /\ r.pc = "send"
        BY <2>2, <2>3, <2>7
      <4>2. app'[s] = r /\ \A t \in Senders : t # s => app'[t] = app[t] BY <3>2
      <4> HIDE DEF r
      <4> QED BY <1>1, <2>1, <3>3, <4>1, <4>2 DEF ThreadsOK
    <3>5. \A t \in Senders : app'[t].b = IF t = s THEN got.b ELSE app[t].b BY <3>2
    <3>6. got.b \notin H /\ Placed(got.com, H \cup {got.b}, L, P) BY <2>5, <2>7
    <3>7. HandSet(app', nfc') = H \cup {got.b} /\ Distinct(app', nfc')
      BY <1>1, <2>1, <2>4, <2>7, <3>5, <3>6, SenderTakes DEF H
    <3>8. Placed(com', H \cup {got.b}, L, P) BY <3>1, <3>6, PlacedMsg
    <3> QED BY <2>1, <3>4, <3>7, <3>8, MoveStep DEF L, P, BufInv
  <2> QED BY <2>6, <2>7
<1>4. CASE SendMsg(s)
  <2> DEFINE b == app[s].b
  <2>1. app[s].pc = "send" /\ UNCHANGED <<env, nfc, hist>> /\ b # NoBuf BY <1>2, <1>4 DEF SendMsg
  <2>2. \/ com' = Freebuf(com, b) /\ app' = [app EXCEPT ![s].pc = "idle", ![s].b = NoBuf, ![s].mbox = 0]
        \/ com' = LinkMsg(com, app[s].mbox, b) /\ app' = [app EXCEPT ![s].pc = "event", ![s].b = NoBuf]
    BY <1>4 DEF SendMsg
  <2> HIDE DEF b
  <2>3. /\ DOMAIN app' = Senders
        /\ \A t \in Senders : t # s => app'[t] = app[t]
        /\ DOMAIN app'[s] = DOMAIN app[s] /\ app'[s].todo = app[s].todo /\ app'[s].mbox \in Mboxes
        /\ app'[s].pc \in {"idle", "event"} /\ app'[s].b = NoBuf
    BY <1>2, <2>2 DEF Mboxes
  <2>4. ThreadsOK(app', nfc') BY <1>1, <1>2, <2>1, <2>3 DEF ThreadsOK
  <2>5. \A t \in Senders : app'[t].b = IF t = s THEN NoBuf ELSE app[t].b BY <2>3
  <2>6. b \in H /\ HandSet(app', nfc') = H \ {b} /\ Distinct(app', nfc')
    BY <1>1, <2>1, <2>5, SenderGives DEF H, b
  <2>7. Placed(com', H \ {b}, L, P) BY <1>1, <1>2, <2>2, <2>6, PlacedFreebuf, PlacedLinkMsg
  <2> QED BY <2>1, <2>4, <2>6, <2>7, MoveStep DEF L, P, BufInv
<1>5. CASE MsgEvent(s)
  <2>1. /\ app[s].pc = "event" /\ UNCHANGED <<env, nfc, hist>> /\ app' = [app EXCEPT ![s].pc = "idle", ![s].mbox = 0]
        /\ com' = SendEvent(com, NFC_TASK, {MboxEvt(app[s].mbox)})
    BY <1>5 DEF MsgEvent
  <2>2. /\ DOMAIN app' = Senders
        /\ \A t \in Senders : t # s => app'[t] = app[t]
        /\ DOMAIN app'[s] = DOMAIN app[s] /\ app'[s].todo = app[s].todo /\ app'[s].mbox \in Mboxes
        /\ app'[s].pc = "idle" /\ app'[s].b = app[s].b
    BY <1>2, <2>1 DEF Mboxes
  <2>3. ThreadsOK(app', nfc') BY <1>1, <1>2, <2>1, <2>2 DEF ThreadsOK
  <2>4. SameBufs(com, com') BY <2>1, EventsSame
  <2>5. \A t \in Senders : app'[t].b = app[t].b BY <2>2
  <2> QED BY <2>1, <2>3, <2>4, <2>5, QuietStep DEF BufInv
<1> QED BY <1>3, <1>4, <1>5 DEF SendStep

(* A step of NFC_TASK that moves no buffer. *)
LEMMA TaskQuiet ==
  ASSUME BufInv, SameBufs(com, com'), UNCHANGED <<env, app>>, DOMAIN nfc' = DOMAIN nfc, nfc'.new = nfc.new,
         nfc.pc \notin {"post", "firepost"}, nfc'.pc \notin {"post", "firepost"},
         "lost" \in DOMAIN hist', hist'.lost = hist.lost
  PROVE  BufInv'
<1>1. ThreadsOK(app', nfc') BY DEF BufInv, ThreadsOK
<1> QED BY <1>1, QuietStep

(* What the loop of NFC_TASK leaves as it is. *)
LEMMA NextStageKeeps ==
  ASSUME {"pc", "todo", "new"} \subseteq DOMAIN nfc
  PROVE  DOMAIN NextStage = DOMAIN nfc /\ NextStage.new = nfc.new /\ NextStage.pc \in {"wait", "work"}
BY DEF NextStage

(* A step of NFC_TASK that moves buffers, and leaves it with what it had. *)
LEMMA TaskMoves ==
  ASSUME BufInv, Placed(com', HandSet(app, nfc), hist.lost, DOMAIN env.pools), UNCHANGED <<env, app>>,
         DOMAIN nfc' = DOMAIN nfc, nfc'.new = nfc.new,
         nfc.pc \notin {"post", "firepost"}, nfc'.pc \notin {"post", "firepost"},
         "lost" \in DOMAIN hist', hist'.lost = hist.lost
  PROVE  BufInv'
<1>1. ThreadsOK(app', nfc') BY DEF BufInv, ThreadsOK
<1>2. HandSet(app', nfc') = HandSet(app, nfc) /\ Distinct(app', nfc') BY DEF BufInv, HandSet, Distinct
<1> QED BY <1>1, <1>2, MoveStep

(* One that gets a buffer, and one that gives its own away. *)
LEMMA TaskGets ==
  ASSUME BufInv, NEW b, b \notin HandSet(app, nfc), b # NoBuf, UNCHANGED <<env, app>>,
         Placed(com', HandSet(app, nfc) \cup {b}, hist.lost, DOMAIN env.pools),
         DOMAIN nfc' = DOMAIN nfc, nfc'.new = b, nfc.pc \notin {"post", "firepost"}, nfc'.pc \in {"post", "firepost"},
         "lost" \in DOMAIN hist', hist'.lost = hist.lost
  PROVE  BufInv'
<1>1. ThreadsOK(app', nfc') BY DEF BufInv, ThreadsOK
<1>2. nfc.new = NoBuf BY DEF BufInv, ThreadsOK
<1>3. HandSet(app', nfc') = HandSet(app, nfc) \cup {b} /\ Distinct(app', nfc') BY <1>2, TaskTakes DEF BufInv
<1> QED BY <1>1, <1>3, MoveStep

(* NFC_TASK links its new message, from the posting and from the timer loop. *)
LEMMA TaskPuts ==
  ASSUME BufInv, nfc.pc \in {"post", "firepost"}, UNCHANGED <<env, app>>,
         nfc.new \in HandSet(app, nfc) => Placed(com', HandSet(app, nfc) \ {nfc.new}, hist.lost, DOMAIN env.pools),
         DOMAIN nfc' = DOMAIN nfc, nfc'.new = NoBuf, nfc'.pc \notin {"post", "firepost"},
         "lost" \in DOMAIN hist', hist'.lost = hist.lost
  PROVE  BufInv'
<1>1. ThreadsOK(app', nfc') BY DEF BufInv, ThreadsOK
<1>2. nfc.new # NoBuf BY DEF BufInv, ThreadsOK
<1>3. nfc.new \in HandSet(app, nfc) /\ HandSet(app', nfc') = HandSet(app, nfc) \ {nfc.new} /\ Distinct(app', nfc')
  BY <1>2, TaskGives DEF BufInv
<1> QED BY <1>1, <1>3, MoveStep

(* nfc_task reads a message. *)
LEMMA ReadMsgKeeps == ASSUME BufInv, ReadMsg PROVE BufInv'
<1> DEFINE H == HandSet(app, nfc)
           L == hist.lost
           P == DOMAIN env.pools
           mb == MboxOf(Head(nfc.todo))
           got == ReadMbox(com, mb)
           g == got.b
           new == Getpoolbuf(got.com, Len(env.pools))
           n == new.b
<1>1. Placed(com, H, L, P) /\ "lost" \in DOMAIN hist /\ {"pc", "todo", "new"} \subseteq DOMAIN nfc
  BY DEF BufInv, ThreadsOK
<1>2. nfc.pc = "work" /\ UNCHANGED <<env, app>> BY DEF ReadMsg
<1>3. mb \in Mboxes BY DEF MboxOf, Mboxes
<1> HIDE DEF H, L, P, mb
<1>4. IF g = NoBuf THEN got.com = com
      ELSE g \notin H /\ g \in DOMAIN got.com.buf /\ Placed(got.com, H \cup {g}, L, P)
  BY <1>1, <1>3, PlacedReadMbox
<1>5. CASE g = NoBuf
  <2>1. com' = com /\ nfc' = NextStage /\ hist' = hist BY <1>5 DEF ReadMsg, mb
  <2>2. SameBufs(com, com') BY <2>1 DEF SameBufs
  <2> QED BY <1>1, <1>2, <2>1, <2>2, NextStageKeeps, TaskQuiet
<1>6. CASE g # NoBuf /\ com.buf[g].msg.op = "post"
  <2>1. /\ com' = IF n = NoBuf THEN Freebuf(got.com, g) ELSE [Freebuf(new.com, g) EXCEPT !.buf[n].msg = Plain(2)]
        /\ nfc' = IF n = NoBuf THEN nfc ELSE [nfc EXCEPT !.pc = "post", !.new = n]
        /\ hist' = hist
    BY <1>6 DEF ReadMsg, AfterMsg, mb
  <2>2. g \notin H /\ g \in DOMAIN got.com.buf /\ Placed(got.com, H \cup {g}, L, P) BY <1>4, <1>6
  <2>3. Len(env.pools) \in P
    <3>1. got.com.buf[g].q_id \in P BY <2>2 DEF Placed, Owned, Shape
    <3>2. env.pools \in Seq([size : Nat, total : Nat]) BY DEF BufInv, Environment
    <3> DEFINE p == env.pools
    <3>3. DOMAIN p = 1..Len(p) /\ Len(p) \in Nat BY <3>2
    <3> HIDE DEF p
    <3>4. DOMAIN p # {} => Len(p) \in DOMAIN p BY <3>3
    <3> QED BY <3>1, <3>4 DEF p, P
  <2> HIDE DEF got, g
  <2>4. IF n = NoBuf THEN new.com = got.com
        ELSE n \notin H \cup {g} /\ n \in DOMAIN new.com.buf /\ Placed(new.com, (H \cup {g}) \cup {n}, L, P)
    BY <2>2, <2>3, PlacedGetpoolbuf
  <2> HIDE DEF new, n
  <2>5. CASE n = NoBuf
    <3>1. Placed(Freebuf(got.com, g), (H \cup {g}) \ {g}, L, P) BY <2>2, PlacedFreebuf
    <3>2. (H \cup {g}) \ {g} = H BY <2>2
    <3>3. Placed(com', H, L, P) BY <2>1, <2>5, <3>1, <3>2
    <3> QED BY <1>1, <1>2, <2>1, <2>5, <3>3, TaskMoves DEF H, L, P
  <2>6. CASE n # NoBuf
    <3>1. Placed(Freebuf(new.com, g), ((H \cup {g}) \cup {n}) \ {g}, L, P) BY <2>4, <2>6, PlacedFreebuf
    <3>2. ((H \cup {g}) \cup {n}) \ {g} = H \cup {n} /\ n \notin H BY <2>2, <2>4, <2>6
    <3>3. Placed(com', H \cup {n}, L, P) BY <2>1, <2>6, <3>1, <3>2, PlacedMsg
    <3>4. DOMAIN nfc' = DOMAIN nfc /\ nfc'.new = n /\ nfc'.pc = "post" BY <1>1, <2>1, <2>6
    <3> QED BY <1>1, <1>2, <2>1, <2>6, <3>2, <3>3, <3>4, TaskGets DEF H, L, P
  <2> QED BY <2>5, <2>6
<1>7. CASE g # NoBuf /\ com.buf[g].msg.op # "post"
  <2>1. com' = Handle(got.com, g) /\ nfc' = nfc /\ hist' = Started(com.buf[g].msg) BY <1>7 DEF ReadMsg, AfterMsg, mb
  <2>2. g \notin H /\ Placed(got.com, H \cup {g}, L, P) BY <1>4, <1>7
  <2> HIDE DEF got, g
  <2>3. Placed(com', (H \cup {g}) \ {g}, L, P) BY <2>1, <2>2, PlacedHandle
  <2>4. (H \cup {g}) \ {g} = H BY <2>2
  <2>5. "lost" \in DOMAIN hist' /\ hist'.lost = hist.lost BY <1>1, <2>1 DEF Started
  <2>6. Placed(com', H, L, P) BY <2>3, <2>4
  <2> QED BY <1>2, <2>1, <2>5, <2>6, TaskMoves DEF H, L, P
<1> QED BY <1>5, <1>6, <1>7

(* NFC_TASK waits and takes its events. *)
LEMMA WaitKeeps == ASSUME BufInv, Wait \/ Woken PROVE BufInv'
<1> DEFINE d == [com EXCEPT !.OSWaitEvt[NFC_TASK] = {}, !.nfc_waits = FALSE, !.nfc_signal = FALSE]
<1>1. {"pc", "todo", "new"} \subseteq DOMAIN nfc /\ "lost" \in DOMAIN hist BY DEF BufInv, ThreadsOK
<1>2. /\ com' \in {d, [com EXCEPT !.nfc_waits = TRUE]} /\ UNCHANGED <<env, app>>
      /\ nfc.pc \in {"wait", "blocked"} /\ nfc'.new = nfc.new /\ DOMAIN nfc' = DOMAIN nfc
      /\ nfc'.pc \in {"exit", "wait", "work", "blocked"}
      /\ "lost" \in DOMAIN hist' /\ hist'.lost = hist.lost
  <2>1. CASE Wait BY <1>1, <2>1 DEF Wait, TakeEvents
  <2>2. CASE Woken BY <1>1, <2>2 DEF Woken, TakeEvents
  <2> QED BY <2>1, <2>2
<1>3. SameBufs(com, d) BY EventsSame
<1>4. SameBufs(com, [com EXCEPT !.nfc_waits = TRUE]) BY DEF SameBufs
<1> HIDE DEF d
<1>5. SameBufs(com, com') BY <1>2, <1>3, <1>4
<1> QED BY <1>2, <1>5, TaskQuiet

(* The timer lists of NFC_TASK. *)
LEMMA TimerFiresKeeps == ASSUME BufInv, TimerFires PROVE BufInv'
<1> DEFINE H == HandSet(app, nfc)
           L == hist.lost
           P == DOMAIN env.pools
           q == ListAt(Head(nfc.todo))
           e == Head(com.tl[q].order)
           off == RemoveFromTimerList(com, q, e)
           new == Getbuf(off, 1)
           n == new.b
<1>1. Placed(com, H, L, P) /\ "lost" \in DOMAIN hist /\ {"pc", "todo", "new"} \subseteq DOMAIN nfc
  BY DEF BufInv, ThreadsOK
<1>2. nfc.pc = "fire" /\ UNCHANGED <<env, app>> /\ hist' = [hist EXCEPT !.early = @ \/ hist.age[e] < hist.least[e]]
  BY DEF TimerFires
<1>3. "lost" \in DOMAIN hist' /\ hist'.lost = hist.lost BY <1>1, <1>2
<1>4. \/ n # NoBuf /\ com' = [new.com EXCEPT !.buf[n].msg = Plain(2)] /\ nfc' = [nfc EXCEPT !.pc = "firepost", !.new = n]
      \/ com' = off /\ nfc' \in {nfc, NextStage}
  BY DEF TimerFires
<1> HIDE DEF H, L, P, q, e
<1>5. SameBufs(com, off) BY ListsSame
<1> HIDE DEF off
<1>6. Placed(off, H, L, P) BY <1>1, <1>5, PlacedSame
<1>7. IF n = NoBuf THEN new.com = off
      ELSE n \notin H /\ n \in DOMAIN new.com.buf /\ Placed(new.com, H \cup {n}, L, P)
  BY <1>6, PlacedGetbuf
<1> HIDE DEF new, n
<1>8. CASE com' = off /\ nfc' \in {nfc, NextStage}
  <2>1. DOMAIN nfc' = DOMAIN nfc /\ nfc'.new = nfc.new /\ nfc'.pc \notin {"post", "firepost"}
    BY <1>1, <1>2, <1>8, NextStageKeeps
  <2>2. SameBufs(com, com') BY <1>5, <1>8
  <2> QED BY <1>2, <1>3, <2>1, <2>2, TaskQuiet
<1>9. CASE n # NoBuf /\ com' = [new.com EXCEPT !.buf[n].msg = Plain(2)] /\ nfc' = [nfc EXCEPT !.pc = "firepost", !.new = n]
  <2>1. DOMAIN nfc' = DOMAIN nfc /\ nfc'.new = n /\ nfc'.pc = "firepost" BY <1>1, <1>9
  <2>2. n \notin H /\ Placed(com', H \cup {n}, L, P) BY <1>7, <1>9, PlacedMsg
  <2> QED BY <1>2, <1>3, <1>9, <2>1, <2>2, TaskGets DEF H, L, P
<1> QED BY <1>4, <1>8, <1>9

(* NFC_TASK. *)
LEMMA NfcStepKeeps == ASSUME BufInv, NfcStep \/ SpuriousWake PROVE BufInv'
<1> DEFINE H == HandSet(app, nfc)
           L == hist.lost
           P == DOMAIN env.pools
           b == nfc.new
<1>1. Placed(com, H, L, P) /\ "lost" \in DOMAIN hist /\ {"pc", "todo", "new"} \subseteq DOMAIN nfc
  BY DEF BufInv, ThreadsOK
<1>2. CASE Wait \/ Wake \/ SpuriousWake BY <1>2, WaitKeeps DEF Wake, SpuriousWake
<1>3. CASE ReadMsg BY <1>3, ReadMsgKeeps
<1>4. CASE TimerFires BY <1>4, TimerFiresKeeps
<1> HIDE DEF H, L, P
<1>5. ASSUME b \in H
      PROVE  Placed(Freebuf(com, b), H \ {b}, L, P) /\ Placed(LinkMsg(com, 2, b), H \ {b}, L, P)
  BY <1>1, <1>5, PlacedFreebuf, PlacedLinkMsg DEF Mboxes
<1>6. CASE Post
  <2>1. /\ nfc.pc = "post" /\ UNCHANGED <<env, app, hist>> /\ com' \in {Freebuf(com, b), LinkMsg(com, 2, b)}
        /\ DOMAIN nfc' = DOMAIN nfc /\ nfc'.new = NoBuf /\ nfc'.pc \in {"work", "event"}
    BY <1>1, <1>6 DEF Post
  <2>2. b \in H => Placed(com', H \ {b}, L, P) BY <1>5, <2>1
  <2> QED BY <1>1, <2>1, <2>2, TaskPuts DEF H, L, P
<1>7. CASE FirePost
  <2> DEFINE sent == SendEvent(LinkMsg(com, 2, b), NFC_TASK, {MboxEvt(2)})
  <2>1. /\ nfc.pc = "firepost" /\ UNCHANGED <<env, app, hist>> /\ com' \in {Freebuf(com, b), sent}
        /\ DOMAIN nfc' = DOMAIN nfc /\ nfc'.new = NoBuf /\ nfc'.pc = "fire"
    BY <1>1, <1>7 DEF FirePost
  <2>2. b \in H => Placed(sent, H \ {b}, L, P)
    <3> DEFINE d == LinkMsg(com, 2, b)
    <3>1. SameBufs(d, SendEvent(d, NFC_TASK, {MboxEvt(2)})) BY EventsSame
    <3>2. b \in H => Placed(d, H \ {b}, L, P) BY <1>5
    <3>3. sent = SendEvent(d, NFC_TASK, {MboxEvt(2)}) OBVIOUS
    <3> HIDE DEF d, sent
    <3> QED BY <3>1, <3>2, <3>3, PlacedSame
  <2> HIDE DEF sent
  <2>3. b \in H => Placed(com', H \ {b}, L, P) BY <1>5, <2>1, <2>2
  <2> QED BY <1>1, <2>1, <2>3, TaskPuts DEF H, L, P
<1>8. CASE PostEvent
  <2>1. /\ nfc.pc = "event" /\ UNCHANGED <<env, app, hist>> /\ com' = SendEvent(com, NFC_TASK, {MboxEvt(2)})
        /\ DOMAIN nfc' = DOMAIN nfc /\ nfc'.new = nfc.new /\ nfc'.pc = "work"
    BY <1>1, <1>8 DEF PostEvent
  <2>2. SameBufs(com, com') BY <2>1, EventsSame
  <2> QED BY <1>1, <2>1, <2>2, TaskQuiet
<1>9. CASE TimerEvent
  <2> DEFINE q == ListAt(Head(nfc.todo))
             d == UpdateTimerList(com, q, Units(q))
             f == [d EXCEPT !.last_gki_ticks = IF q = "nfa" THEN com.OSTicks ELSE @]
  <2>1. /\ nfc.pc = "work" /\ UNCHANGED <<env, app, hist>> /\ com' = f
        /\ DOMAIN nfc' = DOMAIN nfc /\ nfc'.new = nfc.new /\ nfc'.pc = "fire"
    BY <1>1, <1>9 DEF TimerEvent
  <2>2. SameBufs(com, d) BY ListsSame
  <2>3. SameBufs(d, f) BY DEF SameBufs
  <2> HIDE DEF d, f
  <2>4. SameBufs(com, com') BY <2>1, <2>2, <2>3, SameTrans
  <2> QED BY <1>1, <2>1, <2>4, TaskQuiet
<1>10. CASE TimersDone
  <2> DEFINE q == ListAt(Head(nfc.todo))
  <2>1. nfc.pc = "fire" /\ UNCHANGED <<env, app, hist>> /\ com' \in {com, StopTimer(com, TimerOf(q))} /\ nfc' = NextStage
    BY <1>10 DEF TimersDone
  <2>2. SameBufs(com, StopTimer(com, TimerOf(q))) BY TimersSame
  <2>3. SameBufs(com, com) BY DEF SameBufs
  <2>4. SameBufs(com, com') BY <2>1, <2>2, <2>3
  <2> QED BY <1>1, <2>1, <2>4, NextStageKeeps, TaskQuiet
<1> QED BY <1>2, <1>3, <1>4, <1>6, <1>7, <1>8, <1>9, <1>10 DEF NfcStep

(* The tasks are created again: what the queue held is lost. *)
LEMMA RestartKeeps == ASSUME BufInv, Restart PROVE BufInv'
<1> DEFINE H == HandSet(app, nfc)
           L == hist.lost
           P == DOMAIN env.pools
           S == Range(Chain(com, "tx"))
           d == TimersInit(com)
<1>1. Placed(com, H, L, P) /\ ThreadsOK(app, nfc) /\ "lost" \in DOMAIN hist BY DEF BufInv
<1>2. /\ env' = env /\ app.api.pc = "down" /\ nfc.pc = "exit" /\ nfc' = [pc |-> "wait", todo |-> <<>>, new |-> NoBuf]
      /\ app' = [app EXCEPT !.api.pc = "idle"] /\ "lost" \in DOMAIN hist' /\ hist'.lost = L \cup S
  BY <1>1 DEF Restart, Chain
<1>3. {"buf", "freeq", "mbox", "queue"} \subseteq DOMAIN com /\ {0, 2} \subseteq DOMAIN com.mbox
  BY <1>1 DEF Placed, Owned, Shape
<1>4. DOMAIN com' = DOMAIN com /\ com'.buf = com.buf /\ com'.freeq = com.freeq /\ com'.mbox = com.mbox
      /\ com'.queue = [q \in {"tx"} |-> <<>>]
  <2>1. SameBufs(com, d) BY TimersSame
  <2>0. com' = [d EXCEPT
               !.no_timer_suspend = RUN_COND, !.tick_waits = FALSE, !.tick_signal = FALSE,
               !.OSWaitEvt = [t \in Tasks |-> {}], !.OSRdyTbl = [t \in Tasks |-> "ready"],
               !.tl = [q \in Lists |-> EmptyList], !.tle = [x \in Entries |-> UnusedEntry],
               !.last_gki_ticks = 0, !.queue = [q \in {"tx"} |-> <<>>], !.closing = FALSE]
    BY DEF Restart
  <2> HIDE DEF d
  <2>2. DOMAIN com' = DOMAIN d /\ com'.buf = d.buf /\ com'.freeq = d.freeq /\ com'.mbox = d.mbox
    <3>1. {"buf", "freeq", "mbox", "queue"} \subseteq DOMAIN d BY <1>3, <2>1 DEF SameBufs
    <3> QED BY <2>0, <3>1
  <2>3. "queue" \in DOMAIN d BY <1>3, <2>1 DEF SameBufs
  <2>4. com'.queue = [q \in {"tx"} |-> <<>>] BY <2>0, <2>3
  <2> QED BY <2>1, <2>2, <2>4 DEF SameBufs
<1>5. /\ DOMAIN app' = DOMAIN app /\ app'["hal"] = app["hal"] /\ DOMAIN app'["api"] = DOMAIN app["api"]
      /\ app'["api"].b = app["api"].b /\ app'["api"].todo = app["api"].todo /\ app'["api"].mbox = app["api"].mbox
      /\ app'["api"].pc = "idle"
  BY <1>1, <1>2 DEF ThreadsOK, Senders
<1>6. ThreadsOK(app', nfc') BY <1>1, <1>2, <1>5 DEF ThreadsOK, Senders
<1>7. nfc.new = NoBuf BY <1>1, <1>2 DEF ThreadsOK
<1>8. HandSet(app', nfc') = H /\ Distinct(app', nfc') BY <1>2, <1>5, <1>7 DEF HandSet, Distinct, BufInv
<1> HIDE DEF H, L, P, d
<1>9. \A r \in Chains : Chain(com', r) = IF r = "tx" THEN <<>> ELSE Chain(com, r) BY <1>4 DEF Chain, Chains
<1>10. ChainBufs(com') = ChainBufs(com) \ S /\ S \subseteq ChainBufs(com) /\ Chained(com', L \cup S)
  <2>1. Chained(com, L) /\ "tx" \in Chains BY <1>1 DEF Placed, Chains
  <2>2. DOMAIN com'.buf = DOMAIN com.buf BY <1>4
  <2>3. /\ Chained(com', L) /\ Range(Chain(com, "tx")) \subseteq ChainBufs(com) \ L
        /\ ChainBufs(com') = ChainBufs(com) \ Range(Chain(com, "tx"))
        /\ Chained(com', L \cup Range(Chain(com, "tx")))
    BY <1>9, <2>1, <2>2, ChainClear
  <2> QED BY <2>3
<1> HIDE DEF S
<1>11. L \cup ChainBufs(com) = (L \cup S) \cup ChainBufs(com') BY <1>10
<1>12. Owned(com', H, L \cup ChainBufs(com))
  <2>1. \A id : PoolBufsOf(com', id) = PoolBufsOf(com, id) BY <1>4 DEF PoolBufsOf
  <2>2. "tx" \in DOMAIN com'.queue BY <1>4
  <2> QED BY <1>1, <1>3, <1>4, <2>1, <2>2 DEF Placed, Owned, Shape, Counted, StatusOf
<1>13. Placed(com', H, L \cup S, P) BY <1>1, <1>4, <1>10, <1>11, <1>12 DEF Placed
<1> QED BY <1>2, <1>6, <1>8, <1>13 DEF BufInv, P

(* The pools have all of their buffers, and as many as they count. *)
LEMMA PoolSize ==
  ASSUME NEW id, NEW n \in Nat
  PROVE  IsFiniteSet({id} \X (1 .. n)) /\ Cardinality({id} \X (1 .. n)) = n
<1> DEFINE f == [i \in 1..n |-> <<id, i>>]
<1>1. IsFiniteSet(1..n) /\ Cardinality(1..n) = n BY FS_Interval
<1>2. f \in Bijection(1..n, {id} \X (1..n))
  <2>1. f \in [1..n -> {id} \X (1..n)] OBVIOUS
  <2>2. \A i, j \in 1..n : f[i] = f[j] => i = j OBVIOUS
  <2>3. \A x \in {id} \X (1..n) : \E i \in 1..n : f[i] = x OBVIOUS
  <2> HIDE DEF f
  <2> QED BY <2>1, <2>2, <2>3 DEF Bijection, Injection, Surjection, IsInjective
<1> QED BY <1>1, <1>2, FS_Bijection, FS_SameCardinalityBij DEF ExistsBijection

(* GKI_init puts every buffer on the free queue of its pool. *)
LEMMA InitKeeps == ASSUME Init PROVE BufInv
<1> DEFINE p == env.pools
<1>1. env \in Environment BY EnvAssumption DEF Init
<1>2. p \in Seq([size : Nat, total : Nat]) /\ env.msgs \in [Senders -> Seq(Message)] BY <1>1 DEF Environment
<1>3. DOMAIN p \subseteq Nat \ {0} /\ \A id \in DOMAIN p : p[id].total \in Nat
  <2> HIDE DEF p
  <2>1. DOMAIN p = 1..Len(p) BY <1>2
  <2>2. ASSUME NEW id \in DOMAIN p PROVE p[id] \in [size : Nat, total : Nat]
    <3> DEFINE R == [size : Nat, total : Nat]
    <3>1. p \in Seq(R) BY <1>2
    <3> HIDE DEF R
    <3>2. p[id] \in R BY <3>1
    <3> QED BY <3>2 DEF R
  <2> QED BY <2>1, <2>2
<1>4. /\ {"buf", "freeq", "mbox", "queue"} \subseteq DOMAIN com
      /\ com.buf = InitBuf(p) /\ com.freeq = InitFreeq(p)
      /\ com.mbox = [mb \in Mboxes |-> <<>>] /\ com.queue = [q \in {"tx"} |-> <<>>]
  BY DEF Init, InitCom, TimersInit
<1>5. /\ DOMAIN app = Senders
      /\ \A s \in Senders : app[s] = [pc |-> "idle", b |-> NoBuf, mbox |-> 0, todo |-> env.msgs[s]]
      /\ nfc = [pc |-> "wait", todo |-> <<>>, new |-> NoBuf] /\ "lost" \in DOMAIN hist /\ hist.lost = {}
  BY DEF Init
<1> HIDE DEF p
<1>6. ThreadsOK(app, nfc) BY <1>2, <1>5 DEF ThreadsOK, Mboxes
<1>7. HandSet(app, nfc) = {} /\ Distinct(app, nfc) BY <1>5 DEF HandSet, Distinct, Senders
<1>8. \A q \in Chains : Chain(com, q) = <<>> BY <1>4 DEF Chain, Chains, Mboxes
<1>9. ChainBufs(com) = {} BY <1>8 DEF ChainBufs, Range
<1>10. Chained(com, {})
  <2>1. <<>> \in Seq(DOMAIN com.buf) /\ DOMAIN <<>> = {} OBVIOUS
  <2>2. OnceIn(com, {}) BY <1>8 DEF OnceIn
  <2> QED BY <1>8, <2>1, <2>2 DEF Chained
<1>11. DOMAIN com.buf = Buffers(p)
       /\ \A b \in Buffers(p) : com.buf[b] = [status |-> BUF_STATUS_FREE, q_id |-> b[1], msg |-> Nothing]
  BY <1>4 DEF InitBuf
<1>12. DOMAIN com.freeq = DOMAIN p
       /\ \A id \in DOMAIN p : com.freeq[id] = [size |-> p[id].size, total |-> p[id].total, cur_cnt |-> 0,
                                              free |-> {id} \X (1 .. p[id].total)]
  BY <1>4 DEF InitFreeq, InitFreeQueue, PoolBufs
<1>13. \A b : b \in Buffers(p) <=> \E id \in DOMAIN p : b \in {id} \X (1 .. p[id].total)
  BY DEF Buffers, PoolBufs
<1>14. ASSUME NEW id \in DOMAIN p, NEW b
       PROVE  b \in {id} \X (1 .. p[id].total)
              <=> b \in Buffers(p) /\ com.buf[b].q_id = id
  <2>1. \A i : b \in {i} \X (1 .. p[i].total) => b[1] = i OBVIOUS
  <2>2. ASSUME b \in Buffers(p) PROVE com.buf[b].q_id = b[1]
    <3>1. com.buf[b] = [status |-> BUF_STATUS_FREE, q_id |-> b[1], msg |-> Nothing] BY <1>11, <2>2
    <3> QED BY <3>1
  <2> QED BY <1>13, <2>1, <2>2
<1>15. ASSUME NEW id \in DOMAIN p PROVE PoolBufsOf(com, id) = {id} \X (1 .. p[id].total)
  BY <1>11, <1>14 DEF PoolBufsOf
<1>16. ASSUME NEW id \in DOMAIN p
       PROVE  /\ DOMAIN com.freeq[id] = {"size", "total", "cur_cnt", "free"}
              /\ com.freeq[id].total = p[id].total /\ com.freeq[id].cur_cnt = 0
              /\ com.freeq[id].free = PoolBufsOf(com, id)
              /\ IsFiniteSet(PoolBufsOf(com, id)) /\ Cardinality(PoolBufsOf(com, id)) = p[id].total /\ p[id].total \in Nat
  <2>1. com.freeq[id] = [size |-> p[id].size, total |-> p[id].total, cur_cnt |-> 0, free |-> PoolBufsOf(com, id)]
    BY <1>12, <1>15
  <2>2. p[id].total \in Nat BY <1>3
  <2>3. IsFiniteSet(PoolBufsOf(com, id)) /\ Cardinality(PoolBufsOf(com, id)) = p[id].total
    <3>1. \A n \in Nat : IsFiniteSet({id} \X (1 .. n)) /\ Cardinality({id} \X (1 .. n)) = n BY PoolSize
    <3> QED BY <1>15, <2>2, <3>1
  <2> QED BY <2>1, <2>2, <2>3
<1>17. ASSUME NEW b \in DOMAIN com.buf
       PROVE  /\ DOMAIN com.buf[b] = {"status", "q_id", "msg"} /\ com.buf[b].status = BUF_STATUS_FREE
              /\ com.buf[b].q_id \in DOMAIN p /\ b \in PoolBufsOf(com, com.buf[b].q_id)
  <2>1. com.buf[b] = [status |-> BUF_STATUS_FREE, q_id |-> b[1], msg |-> Nothing] BY <1>11
  <2>2. PICK id \in DOMAIN p : b \in {id} \X (1 .. p[id].total) BY <1>11, <1>13
  <2>3. com.buf[b].q_id = id BY <1>14, <2>2
  <2>4. b \in PoolBufsOf(com, id) BY <1>15, <2>2
  <2> QED BY <2>1, <2>3, <2>4
<1>18. Shape(com) BY <1>4, <1>12, <1>16, <1>17 DEF Shape, Mboxes
<1>19. Counted(com)
  <2>1. \A n \in Nat : 0 = n - n OBVIOUS
  <2> QED BY <1>12, <1>16, <2>1 DEF Counted
<1>20. StatusOf(com, {}, {}) BY <1>16, <1>17, StatusDiffer DEF StatusOf
<1>21. NoBuf \notin DOMAIN com.buf
  <2>1. \A id : NoBuf \in {id} \X (1 .. p[id].total) => id = 0 BY DEF NoBuf
  <2> QED BY <1>3, <1>11, <1>13, <2>1
<1>22. Owned(com, {}, {} \cup ChainBufs(com)) BY <1>9, <1>18, <1>19, <1>20, <1>21 DEF Owned
<1>23. Placed(com, {}, {}, DOMAIN p) BY <1>3, <1>10, <1>12, <1>22 DEF Placed
<1> QED BY <1>1, <1>5, <1>6, <1>7, <1>23 DEF BufInv, p

(* The invariant says what BuffersConserved does. *)
LEMMA BufInvConserves == ASSUME BufInv PROVE BuffersConserved
<1>1. Placed(com, HandSet(app, nfc), hist.lost, DOMAIN env.pools) /\ Distinct(app, nfc) BY DEF BufInv
<1>2. DOMAIN Hands = {"hal", "api", "nfc"} /\ Hands["hal"] = app["hal"].b /\ Hands["api"] = app["api"].b
      /\ Hands["nfc"] = nfc.new
  BY DEF Hands, Senders, NFC_TASK
<1>3. InHand = HandSet(app, nfc) BY <1>2 DEF InHand, HandSet
<1>4. HeldOnce BY <1>1, <1>2 DEF HeldOnce, Distinct
<1>5. LinkedBufs = hist.lost \cup ChainBufs(com) BY DEF LinkedBufs, ChainBufs
<1>6. Owned(com, InHand, LinkedBufs) BY <1>1, <1>3, <1>5 DEF Placed
<1>7. InHand \cup LinkedBufs \subseteq DOMAIN com.buf BY <1>6 DEF Owned
<1>8. StatusTrue BY <1>6 DEF Owned, StatusOf, StatusTrue, Status
<1>9. LinkedOnce BY <1>1 DEF Placed, Chained, OnceIn, LinkedOnce
<1>10. PoolsCount BY <1>6 DEF Owned, Counted, PoolBufsOf, PoolsCount
<1> QED BY <1>4, <1>7, <1>8, <1>9, <1>10 DEF BuffersConserved

(* No buffer of GKI is ever lost but to a restart, freed twice or in two   *)
(* places, for all pools, messages and interleavings of the threads.       *)
THEOREM BuffersKept == Spec => []BuffersConserved
<1>1. Init => BufInv BY InitKeeps
<1>2. BufInv /\ [Next]_vars => BufInv'
  <2> SUFFICES ASSUME BufInv, [Next]_vars PROVE BufInv' OBVIOUS
  <2>1. CASE \E s \in Senders : Alloc(s) \/ SendStep(s) BY <2>1, SenderKeeps
  <2>2. CASE NfcStep \/ SpuriousWake BY <2>2, NfcStepKeeps
  <2>3. CASE TickStep BY <2>3, TickStepKeeps
  <2>4. CASE Shutdown \/ ApiStep BY <2>4, ApiStepKeeps
  <2>5. CASE Restart BY <2>5, RestartKeeps
  <2>6. CASE UNCHANGED vars BY <2>6 DEF vars, BufInv
  <2> QED BY <2>1, <2>2, <2>3, <2>4, <2>5, <2>6 DEF Next
<1>3. BufInv => BuffersConserved BY BufInvConserves
<1> QED BY <1>1, <1>2, <1>3, PTL DEF Spec
=============================================================================
