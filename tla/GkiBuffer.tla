----------------------------- MODULE GkiBuffer -----------------------------
(***************************************************************************)
(* The buffers of the Generic Kernel Interface (src/gki/common/            *)
(* gki_buffer.cc): pools of buffers of fixed sizes, the queues that link   *)
(* them and the mailboxes of the tasks.  Every operator takes the control  *)
(* block `com' (the record of Gki.tla) and returns the one the function    *)
(* leaves.  A queue of buffer headers is the sequence of its buffers; of    *)
(* the list of free buffers only the members are told apart, and what a    *)
(* free buffer holds is forgotten.                                         *)
(* The section of a function between GKI_disable and GKI_enable is one     *)
(* step of the caller; what a function does before or behind it touches    *)
(* only the buffer the caller holds.                                       *)
(***************************************************************************)
EXTENDS Integers, Sequences, FiniteSets, SequencesExt

CONSTANT Nothing            \* what a free buffer holds

NoBuf == <<0, 0>>           \* NULL: the pools count from 1

BUF_STATUS_FREE     == "free"
BUF_STATUS_UNLINKED == "unlinked"
BUF_STATUS_QUEUED   == "queued"

(* A buffer is named by its pool and its place in the memory of the pool. *)
PoolBufs(pools, id) == {id} \X (1 .. pools[id].total)

Buffers(pools) == UNION {PoolBufs(pools, id) : id \in DOMAIN pools}

(* gki_init_free_queue: the buffers of a pool, all free.                   *)
InitFreeQueue(pools, id) ==
  [size |-> pools[id].size, total |-> pools[id].total, cur_cnt |-> 0, free |-> PoolBufs(pools, id)]

(* gki_buffer_init: the pools in the order of their ids, every mailbox     *)
(* empty.  It runs once in the life of the process.                        *)
InitFreeq(pools) == [id \in DOMAIN pools |-> InitFreeQueue(pools, id)]

InitBuf(pools) ==
  [b \in Buffers(pools) |-> [status |-> BUF_STATUS_FREE, q_id |-> b[1], msg |-> Nothing]]

----------------------------------------------------------------------------
(* A buffer of a pool changes to the caller's hands.                       *)
Lowest(S) == CHOOSE id \in S : \A other \in S : id <= other

Got(com, b, new) == [com |-> new, b |-> b]

Take(com, id) ==
  LET b == CHOOSE x \in com.freeq[id].free : TRUE
  IN  Got(com, b, [com EXCEPT !.freeq[id].free = @ \ {b}, !.freeq[id].cur_cnt = @ + 1,
                              !.buf[b].status = BUF_STATUS_UNLINKED])

(* GKI_getbuf: from the smallest that fits on, the first pool that is not  *)
(* restricted and has a buffer left.                                       *)
Usable(com, size) ==
  {id \in DOMAIN com.freeq :
     /\ \E fit \in 1..id : size <= com.freeq[fit].size
     /\ id \notin com.pool_access_mask
     /\ com.freeq[id].cur_cnt < com.freeq[id].total}

Getbuf(com, size) ==
  LET ids == Usable(com, size)
  IN  IF size = 0 \/ ids = {} THEN Got(com, NoBuf, com) ELSE Take(com, Lowest(ids))

(* GKI_getpoolbuf: a buffer of that pool, whatever its permission, or one  *)
(* GKI_getbuf finds for its size.                                          *)
Getpoolbuf(com, id) ==
  IF com.freeq[id].cur_cnt < com.freeq[id].total THEN Take(com, id)
  ELSE Getbuf(com, com.freeq[id].size)

(* GKI_freebuf: a buffer that is linked, or free already, is refused.      *)
Freebuf_KeepsCount(com, b) ==
  IF com.buf[b].status # BUF_STATUS_UNLINKED THEN com
  ELSE [com EXCEPT !.freeq[com.buf[b].q_id].free = @ \cup {b},
                   !.buf[b].status = BUF_STATUS_FREE, !.buf[b].msg = Nothing]

Freebuf(com, b) ==
  LET id == com.buf[b].q_id
  IN  IF com.buf[b].status # BUF_STATUS_UNLINKED THEN com
      ELSE [com EXCEPT !.freeq[id].free = @ \cup {b},
                       !.freeq[id].cur_cnt = IF @ > 0 THEN @ - 1 ELSE 0,
                       !.buf[b].status = BUF_STATUS_FREE,
                       !.buf[b].msg = Nothing]

(* GKI_enqueue, GKI_enqueue_head: a linked buffer is refused.              *)
Linked(com, b) == [com EXCEPT !.buf[b].status = BUF_STATUS_QUEUED]

Enqueue(com, q, b) ==
  IF com.buf[b].status # BUF_STATUS_UNLINKED THEN com
  ELSE [Linked(com, b) EXCEPT !.queue[q] = Append(@, b)]

EnqueueHead(com, q, b) ==
  IF com.buf[b].status # BUF_STATUS_UNLINKED THEN com
  ELSE [Linked(com, b) EXCEPT !.queue[q] = <<b>> \o @]

(* GKI_dequeue *)
Dequeue(com, q) ==
  IF com.queue[q] = <<>> THEN Got(com, NoBuf, com)
  ELSE Got(com, Head(com.queue[q]),
           [com EXCEPT !.queue[q] = Tail(@), !.buf[Head(com.queue[q])].status = BUF_STATUS_UNLINKED])

(* GKI_remove_from_queue: NULL when the buffer is not in the queue.        *)
RemoveFromQueue(com, q, b) ==
  IF ~Contains(com.queue[q], b) THEN Got(com, NoBuf, com)
  ELSE Got(com, b, [com EXCEPT !.queue[q] = Remove(@, b), !.buf[b].status = BUF_STATUS_UNLINKED])

(* The linking half of GKI_send_msg; the event to the task is a step of    *)
(* its own.                                                                *)
LinkMsg(com, mb, b) ==
  [com EXCEPT !.mbox[mb] = Append(@, b), !.buf[b].status = BUF_STATUS_QUEUED]

(* GKI_read_mbox *)
ReadMbox(com, mb) ==
  IF com.mbox[mb] = <<>> THEN Got(com, NoBuf, com)
  ELSE Got(com, Head(com.mbox[mb]),
           [com EXCEPT !.mbox[mb] = Tail(@), !.buf[Head(com.mbox[mb])].status = BUF_STATUS_UNLINKED])
=============================================================================
