------------------------------- MODULE RwT1t --------------------------------
(***************************************************************************)
(* Type 1 tags (Topaz): rw_t1t.cc and rw_t1t_ndef.cc, and the tag.         *)
(*                                                                         *)
(* A static tag has one segment of which 120 bytes are read at once; a     *)
(* dynamic one several, read by segment or by block of 8 bytes.  The copy  *)
(* in tcb.mem is that of segment 0.  Every answer but those of RID and     *)
(* RALL starts with the address it is for.                                 *)
(*                                                                         *)
(* Which bytes are reserved is worked out from the TLVs here; the code     *)
(* caches it for a segment, as it does, and as is kept here, for the       *)
(* locks.  The DTA mode is off, so b_update and b_rseg, which would let a  *)
(* read use mem, never outlive an operation.                               *)
(***************************************************************************)
EXTENDS RwCommon
LOCAL INSTANCE SequencesExt

CONSTANT T1tInit   \* t1t_init_content, as a function from the header byte HR0

ASSUME T1tInitAssumption ==
    \A hr \in DOMAIN T1tInit :
        T1tInit[hr] \in [dynamic : BOOLEAN, tms : Byte, lock : Seq(Byte), mem : Seq(Byte)]

T1T_BLOCK == 8
T1T_SEGMENT == 128
T1T_STATIC == 120
T1T_STATIC_BLOCKS == 15
T1T_STATIC_HR0 == 17
T1T_NMN == 225
T1T_RWA_RO == 15
T1T_LOCK_BLOCK == 14

T1tState == {"NOT_ACTIVATED", "IDLE", "READ", "WRITE", "TLV_DETECT", "READ_NDEF", "WRITE_NDEF",
             "SET_TAG_RO", "CHECK_PRESENCE", "FORMAT_TAG"}

T1tAttribute == {"UNKNOWN", "INITIALIZED", "INITIALIZED_NDEF", "READ_WRITE", "READ_ONLY"}

NoPrev == [op |-> "NONE", addr |-> 0, n |-> 0]

(* tRW_T1T_CB.  prev is prev_cmd_rsp_info: the command whose retransmission*)
(* may still be answered, n times.                                         *)
T1tSelect(hr) ==
    [state |-> "IDLE", sub |-> "NONE", hr |-> hr, mem |-> Zeros(T1T_SEGMENT), cmd |-> NoCmd,
     prev |-> NoPrev, attribute |-> "UNKNOWN", tlv_detect |-> 0, lockbyte |-> <<>>,
     mem_tlv |-> <<>>, lock_attr |-> {}, lock_attr_seg |-> 0, ndef_msg_len |-> 0, ndef_msg_offset |-> 0,
     ndef_header_offset |-> 0, max_len |-> 0, new_len |-> 0, work_offset |-> 0, segment |-> 0,
     block_read |-> 0, block_written |-> 0, write_byte |-> 0, final |-> 0,
     first_block |-> Zeros(T1T_BLOCK), final_block |-> Zeros(T1T_BLOCK), hard_lock |-> FALSE]

T1Nmn(t) == t.mem[8]
T1Vno(t) == t.mem[9]
T1Tms(t) == t.mem[10]
T1Rwa(t) == t.mem[11]

T1tDynamic(t) == t.hr % 16 # 1
T1tNdefSupported(t) == t.hr \div 16 = 1

T1tAdd(block, byte) == (block * 8) + byte
T1tAdds(segment) == segment * 16
-----------------------------------------------------------------------------
(* Commands, answers, the end of an operation.                             *)

T1tDynOps == {"RSEG", "READ8", "WRITE_E8", "WRITE_NE8"}

T1tRspLen(op) ==
    CASE op = "RID" -> 6
      [] op = "RALL" -> 122
      [] op = "RSEG" -> 129
      [] op \in T1tDynOps -> 9
      [] OTHER -> 2

T1tNoAddress(op) == op \in {"RID", "RALL"}

(* A tag whose header byte is that of a static one has no dynamic commands.*)
T1tSend(h, op, addr, data) ==
    LET c == Cmd(op, addr, data)
    IN  IF op \in T1tDynOps /\ h.t.hr = T1T_STATIC_HR0 THEN Ret(h, "FAILED")
        ELSE Ret(Transmit([h EXCEPT !.retry = 0, !.t.cmd = c], c), "OK")

T1tSendByte(h, op, block, byte, value) == T1tSend(h, op, T1tAdd(block, byte), [i \in {0} |-> value])

T1tOpComplete(h) == [h EXCEPT !.t.state = "IDLE", !.t.sub = "NONE"]

(* rw_t1t_info_to_event; t1t_info_to_evt for the commands of NFA.          *)
T1tInfoToEvent(t) ==
    CASE t.state = "TLV_DETECT" -> IF t.tlv_detect = NDEF_TLV THEN "NDEF_DETECT" ELSE "TLV_DETECT"
      [] t.state = "READ_NDEF" -> "NDEF_READ"
      [] t.state = "WRITE_NDEF" -> "NDEF_WRITE"
      [] t.state = "SET_TAG_RO" -> "SET_TAG_RO"
      [] t.state = "CHECK_PRESENCE" -> "PRESENCE_CHECK"
      [] t.state = "FORMAT_TAG" -> "FORMAT_CPLT"
      [] OTHER -> CASE t.cmd.op = "RID" -> "RID"
                    [] t.cmd.op \in {"RALL", "READ", "RSEG", "READ8"} -> "READ_CPLT"
                    [] OTHER -> "WRITE_CPLT"

T1tEnd(h, status) == Report(T1tOpComplete(h), RwEvt(T1tInfoToEvent(h.t), status))

(* The command was retransmitted n times: as many answers may still come.  *)
T1tPrev(t, n) ==
    [op |-> t.cmd.op, addr |-> IF T1tNoAddress(t.cmd.op) THEN 0 ELSE t.cmd.blk, n |-> n]

(* The event of a failed detection carries no flags: the code tests for the*)
(* event of type 2 tags.                                                   *)
T1tProcessError(h) ==
    IF h.retry < RW_MAX_RETRIES THEN Transmit([h EXCEPT !.retry = @ + 1], h.t.cmd)
    ELSE T1tEnd([h EXCEPT !.t.prev = T1tPrev(h.t, RW_MAX_RETRIES)], "TIMEOUT")

T1tPresenceRsp(h, status) == Report(T1tOpComplete(h), RwEvt("PRESENCE_CHECK", status))
-----------------------------------------------------------------------------
(* Reserved and locked bytes.                                              *)

(* rw_t1t_update_attributes: the blocks 0, D, E and F, and what the TLVs   *)
(* reserve.                                                                *)
T1tReserved(t) == 0..7 \union 104..127 \union ReservedBytes(t.lockbyte, t.mem_tlv)

(* rw_t1t_update_lock_attributes.  Segment 0 has the static lock bits, one *)
(* for a block; dynamic lock bits are for the bytes behind it.             *)
T1tLocked(t) ==
    0..7 \union 104..111
      \union {i \in 0..(T1T_SEGMENT - 1) : LET k == i \div T1T_BLOCK
                                           IN  Bit(t.mem[112 + k \div 8], k % 8)}
      \union BytesLocked(t.lockbyte, T1T_SEGMENT)

T1tUpdateLocks(t) == [t EXCEPT !.lock_attr = T1tLocked(t)]

(* rw_t1t_update_tag_state.                                                *)
T1tUpdateState(t) ==
    LET valid == T1Nmn(t) \in {T1T_NMN, 0} /\ T1Vno(t) \in {16, 17} /\ T1Rwa(t) \in {0, T1T_RWA_RO}
    IN  [t EXCEPT !.attribute = CASE ~valid -> "UNKNOWN"
                                  [] valid /\ t.ndef_msg_len = 0 -> "INITIALIZED"
                                  [] OTHER -> IF T1Rwa(t) = 0 THEN "READ_WRITE" ELSE "READ_ONLY"]

(* rw_t1t_extract_lock_bytes: the unread lock bytes, in order, as far as   *)
(* the data, which starts at address from, have them.                      *)
T1tExtractLocks(t, data, from) ==
    LET unread == {i \in DOMAIN t.lockbyte : ~t.lockbyte[i].read}
        here == {i \in unread : (t.lockbyte[i].addr - from) \in DOMAIN data}
        taken == {i \in here : \A j \in unread \ here : i < j}
    IN  [t EXCEPT !.lockbyte = [i \in DOMAIN @ |->
            IF i \in taken THEN [t.lockbyte[i] EXCEPT !.val = data[t.lockbyte[i].addr - from],
                                                      !.read = TRUE]
            ELSE t.lockbyte[i]]]

(* rw_t1t_read_locks: lock bytes in segment 0 are known, the others are    *)
(* read; it stops at one behind the end of the tag.                        *)
T1tReadLocks(h) ==
    LET t == [h.t EXCEPT !.lockbyte = [i \in DOMAIN @ |->
                 LET l == h.t.lockbyte[i]
                 IN  IF ~l.read /\ l.addr < T1T_STATIC
                       THEN [l EXCEPT !.val = h.t.mem[l.addr], !.read = TRUE] ELSE l]]
        unread == {i \in DOMAIN t.lockbyte : ~t.lockbyte[i].read}
        addr == t.lockbyte[FirstOf(unread)].addr
    IN  IF unread = {} THEN Ret([h EXCEPT !.t = t], "OK")
        ELSE IF addr >= (T1Tms(t) + 1) * T1T_BLOCK THEN Ret([h EXCEPT !.t = t], "FAILED")
        ELSE LET h1 == T1tSend([h EXCEPT !.t = [t EXCEPT !.block_read = addr \div T1T_BLOCK]],
                               "READ8", addr \div T1T_BLOCK, Zeros(T1T_BLOCK))
             IN  IF h1.ret # "OK" THEN h1
                 ELSE Ret([h1 EXCEPT !.t.sub = "WAIT_READ_LOCKS"], "CONTINUE")
-----------------------------------------------------------------------------
(* Detection of a TLV, in the copy of segment 0.                           *)

T1tArea(t) ==
    {i \in t.ndef_msg_offset..(((T1Tms(t) + 1) * T1T_BLOCK) - 1) : i \notin T1tReserved(t)}

(* rw_t1t_is_read_only_byte for the bytes of the data area: what was worked*)
(* out last serves the segment it is for.                                  *)
T1tAreaLocked(t) ==
    LET first == t.ndef_msg_offset \div T1T_SEGMENT
    IN  {i \in T1tArea(t) :
            IF i \div T1T_SEGMENT = first /\ t.lock_attr_seg = first THEN i \in t.lock_attr
            ELSE i \in T1tLocked(t)}

(* The segment the search for a locked byte ended in.                      *)
T1tLastSegment(t) ==
    LET ro == T1tAreaLocked(t)
    IN  IF T1tArea(t) = {} THEN t.lock_attr_seg
        ELSE (IF ro = {} THEN HighestOf(T1tArea(t)) ELSE FirstOf(ro)) \div T1T_SEGMENT

(* rw_t1t_get_ndef_max_size; of a tag whose container says nothing valid   *)
(* the size of its model is taken.                                         *)
T1tMaxSize(t) ==
    LET size == (T1Tms(t) + 1) * T1T_BLOCK
        odd == size < T1T_STATIC \/ size > T1T_SEGMENT * 16 \/ T1Nmn(t) \notin {T1T_NMN, 0}
        init == T1tInit[t.hr]
        ro == T1tAreaLocked(t)
        area == T1tArea(t)
        n == IF odd THEN ((init.tms + 1) * T1T_BLOCK) - 30 - (IF init.dynamic THEN 18 ELSE 0)
             ELSE Cardinality({i \in area : \A j \in ro : i < j})
    IN  IF odd /\ (~T1tNdefSupported(t) \/ t.hr \notin DOMAIN T1tInit) THEN 0
        ELSE IF n >= LONG_NDEF_MIN_LEN /\ t.ndef_msg_offset - t.ndef_header_offset = 1
          THEN IF n = LONG_NDEF_MIN_LEN THEN n - 1 ELSE n - 2
        ELSE n

T1tNdefFlags(t) ==
    (IF T1tNdefSupported(t) THEN {"SUPPORTED"} ELSE {})
      \union (IF t.hr \in DOMAIN T1tInit THEN {"FORMATABLE"} ELSE {})
      \union (IF T1Rwa(t) % 16 = T1T_RWA_RO THEN {"READ_ONLY"} ELSE {})

(* The NDEF tag is described to NFA.                                       *)
T1tNdefDetected(h, status, formatted) ==
    LET t == h.t
        max == T1tMaxSize(t)
        cur == t.ndef_msg_len
        seg == T1tLastSegment(t)
        flags == T1tNdefFlags(t) \union (IF formatted THEN {"FORMATED"} ELSE {})
                   \union (IF max < cur THEN {"READ_ONLY"} ELSE {})
        lockable == IF "READ_ONLY" \in flags THEN {}
                    ELSE {"SOFT_LOCKABLE"} \union (IF status = "OK" THEN {"HARD_LOCKABLE"} ELSE {})
    IN  Report(T1tOpComplete([h EXCEPT !.t.max_len = max, !.t.lock_attr_seg = seg,
                                       !.t.lock_attr = IF seg = t.lock_attr_seg THEN @
                                                       ELSE T1tLocked(t)]),
               DetectEvt(status, flags \union lockable, cur, IF max < cur THEN cur ELSE max))

(* The end of the TLVs: what was found so far decides.                     *)
T1tStop(m) ==
    IF \/ m.t.tlv_detect = LOCK_CTRL_TLV /\ m.t.lockbyte # <<>>
       \/ m.t.tlv_detect = MEM_CTRL_TLV /\ m.t.mem_tlv # <<>>
      THEN [m EXCEPT !.found = TRUE] ELSE [m EXCEPT !.failed = TRUE]

T1tDetectType(m, a) ==
    LET type == m.t.mem[a]
        wanted == m.t.tlv_detect
        m1 == [m EXCEPT !.tlv = type]
        block == (a + 1) - ((a + 1) % T1T_BLOCK)
    IN  CASE type = NULL_TLV -> m1
          [] type = NDEF_TLV /\ wanted = NDEF_TLV ->
               [m1 EXCEPT !.st = "LEN", !.t.first_block = Slice(m.t.mem, block, T1T_BLOCK)]
          [] type = NDEF_TLV /\ wanted = PROPRIETARY_TLV -> [m1 EXCEPT !.st = "LEN"]
          [] type \in {LOCK_CTRL_TLV, MEM_CTRL_TLV} -> [m1 EXCEPT !.st = "LEN0"]
          [] type = PROPRIETARY_TLV -> [m1 EXCEPT !.st = "LEN"]
          [] type = TERMINATOR_TLV \/ type = NDEF_TLV -> T1tStop(m1)
          [] OTHER -> [m1 EXCEPT !.failed = TRUE]

T1tDetectLen(m, a) ==
    LET len == m.t.mem[a]
        m1 == IF m.tlv = NDEF_TLV THEN [m EXCEPT !.t.ndef_header_offset = a] ELSE m
    IN  IF len = LONG_LEN_BYTE0 THEN [m1 EXCEPT !.st = "LEN0"]
        ELSE [m1 EXCEPT !.count = len, !.st = "VALUE",
                        !.t.ndef_msg_len = IF m.tlv = NDEF_TLV THEN len ELSE @]

T1tDetectLen0(m, a) ==
    LET len == m.t.mem[a]
    IN  CASE m.tlv \in {NDEF_TLV, PROPRIETARY_TLV} -> [m EXCEPT !.count = len, !.st = "LEN1"]
          [] m.tlv \notin {NDEF_TLV, PROPRIETARY_TLV} /\ len = 3 ->
               [m EXCEPT !.count = 3, !.st = "VALUE"]
          [] OTHER -> T1tStop(m)

T1tDetectLen1(m, a) ==
    LET len == (m.count * 256) + m.t.mem[a]
    IN  [m EXCEPT !.count = len, !.st = "VALUE",
                  !.t.ndef_msg_len = IF m.tlv = NDEF_TLV THEN len ELSE @]

T1T_MAX_MEM_TLVS == 5

(* A byte of the value.                                                    *)
T1tDetectValue(m, a) ==
    LET left == IF m.count > 0 THEN m.count - 1 ELSE IF m.tlv = NDEF_TLV THEN 0 ELSE 65535
        v == [m.v EXCEPT ![2 - left] = m.t.mem[a]]
        m1 == [m EXCEPT !.count = left, !.st = IF left = 0 THEN "TYPE" ELSE @]
    IN  CASE m.tlv = NDEF_TLV /\ m.t.tlv_detect = NDEF_TLV ->
               LET t == [m.t EXCEPT !.ndef_msg_offset = IF m.count = m.t.ndef_msg_len THEN a ELSE @]
               IN  [m EXCEPT !.found = TRUE, !.count = left,
                             !.t = IF t.ndef_msg_len > 0 THEN T1tUpdateState(t)
                                   ELSE [t EXCEPT !.attribute = "INITIALIZED_NDEF"]]
          [] m.tlv \in {LOCK_CTRL_TLV, MEM_CTRL_TLV} /\ m.t.tlv_detect \in {m.tlv, NDEF_TLV} ->
               IF left > 0 THEN [m1 EXCEPT !.v = v]
               ELSE IF m.tlv = LOCK_CTRL_TLV THEN [m1 EXCEPT !.v = v, !.t.lockbyte = @ \o LockBytes(v)]
               ELSE IF Len(m.t.mem_tlv) >= T1T_MAX_MEM_TLVS THEN [m EXCEPT !.failed = TRUE]
               ELSE [m1 EXCEPT !.v = v, !.t.mem_tlv = Append(@, MemArea(v))]
          [] m.tlv = PROPRIETARY_TLV /\ m.t.tlv_detect = PROPRIETARY_TLV ->
               [m EXCEPT !.found = TRUE]
          [] OTHER -> m1

T1tDetectByte(m, a) ==
    IF m.found \/ m.failed \/ a \in T1tReserved(m.t) THEN m
    ELSE CASE m.st = "TYPE" -> T1tDetectType(m, a)
           [] m.st = "LEN" -> T1tDetectLen(m, a)
           [] m.st = "LEN0" -> T1tDetectLen0(m, a)
           [] m.st = "LEN1" -> T1tDetectLen1(m, a)
           [] OTHER -> T1tDetectValue(m, a)

(* rw_t1t_handle_tlv_detect_rsp: from behind the capability container up to*)
(* the reserved blocks.                                                    *)
T1tFindTlv(h) ==
    LET m == Loop(LAMBDA s, i : T1tDetectByte(s, 12 + i),
                  [t |-> h.t, st |-> "TYPE", tlv |-> NULL_TLV, count |-> 0,
                   v |-> [i \in 0..2 |-> 0], found |-> FALSE, failed |-> FALSE], 104 - 12)
        End(s) == Ret([h EXCEPT !.t = s.t], IF s.failed THEN "FAILED" ELSE "OK")
        Initialized(s) == IF s.t.tlv_detect = NDEF_TLV THEN [s EXCEPT !.t.attribute = "INITIALIZED"] ELSE s
        Ended(s) == End(IF ~s.found /\ ~s.failed THEN Initialized(T1tStop(s)) ELSE s)
    IN  Ended(m)

(* The TLV was found: its lock bytes are read.                             *)
T1tLocksRead(h0) ==
    LET End(h) == CASE h.ret = "CONTINUE" -> h
                    [] h.ret # "CONTINUE" /\ h.t.tlv_detect = NDEF_TLV -> T1tNdefDetected(h, h.ret, TRUE)
                    [] OTHER -> T1tEnd(h, h.ret)
    IN  End(T1tReadLocks(h0))

(* rw_t1t_handle_read_rsp while a TLV is looked for; data are those of the *)
(* answer, from address from on.                                           *)
T1tDetectRsp(h0, data, from) ==
    LET tlv == h0.t.tlv_detect
        Searched == IF tlv = NDEF_TLV /\ T1Nmn(h0.t) # T1T_NMN THEN Ret(h0, "FAILED") ELSE T1tFindTlv(h0)
        Found(h) == IF tlv = MEM_CTRL_TLV \/ h.ret = "FAILED" THEN h
                    ELSE [h EXCEPT !.t = T1tExtractLocks(@, data, from), !.ret = "CONTINUE"]
        End(h) == CASE h.ret = "CONTINUE" -> T1tLocksRead(h)
                    [] h.ret # "CONTINUE" /\ tlv = NDEF_TLV -> T1tNdefDetected(h, "FAILED", FALSE)
                    [] OTHER -> T1tEnd(h, h.ret)
    IN  End(IF h0.t.sub = "WAIT_READ_LOCKS" THEN Ret([h0 EXCEPT !.t = T1tUpdateLocks(@)], "CONTINUE")
            ELSE Found(Searched))
-----------------------------------------------------------------------------
(* Reading an NDEF message.                                                *)

(* The bytes of data from index on that are not reserved, up to the length *)
(* of the message; data are those at address from.                         *)
T1tCollect(h, data, index, from) ==
    LET Take(s, i) == IF i < index \/ Len(s) >= h.t.ndef_msg_len \/ (from + i) \in T1tReserved(h.t)
                        THEN s ELSE Append(s, data[i])
        got == Loop(Take, IF h.t.work_offset = 0 THEN <<>> ELSE h.buf, Size(data))
    IN  [h EXCEPT !.buf = got, !.t.work_offset = Len(got)]

(* rw_t1t_handle_ndef_rall_rsp: all there is of a static tag.              *)
T1tRallRsp(h) ==
    LET h1 == T1tCollect([h EXCEPT !.t.work_offset = 0, !.t.segment = 0],
                         Slice(h.t.mem, 0, T1T_STATIC), h.t.ndef_msg_offset, 0)
    IN  T1tEnd(h1, IF h1.t.work_offset = h1.t.ndef_msg_len THEN "OK" ELSE "FAILED")

(* rw_t1t_handle_ndef_read_rsp: by segment, and by block for the last ones.*)
T1tNdefReadRsp(h, data) ==
    LET t == h.t
        size == Size(data)
        from == IF t.cmd.op = "READ8" THEN t.block_read * T1T_BLOCK ELSE t.segment * T1T_SEGMENT
        h1 == T1tCollect(h, data, IF t.work_offset = 0 THEN t.ndef_msg_offset % size ELSE 0, from)
        h2 == IF t.cmd.op = "READ8" THEN [h1 EXCEPT !.t.segment = from \div T1T_SEGMENT]
              ELSE [h1 EXCEPT !.t.block_read = ((t.segment + 1) * 16) - 1]
        left == t.ndef_msg_len - h2.t.work_offset
    IN  IF left <= 0 THEN T1tEnd(h2, "OK")
        ELSE IF left <= T1T_BLOCK
          THEN T1tSend([h2 EXCEPT !.t.block_read = @ + 1], "READ8", h2.t.block_read + 1,
                       Zeros(T1T_BLOCK))
        ELSE T1tSend([h2 EXCEPT !.t.segment = @ + 1], "RSEG", T1tAdds(h2.t.segment + 1),
                     Zeros(T1T_BLOCK))
-----------------------------------------------------------------------------
(* Writing an NDEF message: the NDEF magic number is cleared, the message  *)
(* is written with its length, byte by byte to a static tag, block by block*)
(* to a dynamic one, and the magic number is set again.                    *)

(* rw_t1t_prepare_ndef_bytes: the first block, from byte index of block on,*)
(* with a byte that is free, and its content; one byte of it at a time if  *)
(* single.                                                                 *)
T1tPrepare(h, data, block, index, single) ==
    LET t == h.t
        field == LenField(t.new_len)
        total == t.new_len + Size(field)
        Free(b) == {i \in 0..(T1T_BLOCK - 1) : /\ b # block \/ i >= index
                                               /\ ((b * T1T_BLOCK) + i) \notin T1tReserved(t)}
        blocks == IF t.work_offset >= total THEN {} ELSE {b \in block..T1Tms(t) : Free(b) # {}}
        b1 == FirstOf(blocks)
        start == IF b1 = t.final /\ b1 # t.ndef_header_offset \div T1T_BLOCK THEN t.final_block
                 ELSE data
        Put(m, i) == IF i \notin Free(b1) \/ m.offset >= total \/ (single /\ m.offset > t.work_offset)
                       THEN m
                     ELSE [data |-> [m.data EXCEPT ![i] = IF m.offset < Size(field)
                                         THEN field[m.offset] ELSE h.new[m.offset - Size(field)]],
                           offset |-> m.offset + 1]
        m1 == Loop(Put, [data |-> start, offset |-> t.work_offset], T1T_BLOCK)
    IN  IF blocks = {} THEN [some |-> FALSE]
        ELSE [some |-> TRUE, block |-> b1, byte |-> FirstOf(Free(b1)), data |-> m1.data,
              offset |-> m1.offset]

(* rw_t1t_send_ndef_block, rw_t1t_send_ndef_byte: OK with the last one.    *)
T1tSendPrepared(h, p, single) ==
    LET total == h.t.new_len + LenFieldLen(h.t.new_len)
        t == [h.t EXCEPT !.work_offset = p.offset, !.block_written = p.block]
        last == IF single THEN p.offset = total ELSE p.block = t.final
        h1 == IF single THEN T1tSendByte([h EXCEPT !.t = [t EXCEPT !.write_byte = p.byte]],
                                         "WRITE_E", p.block, p.byte, p.data[p.byte])
              ELSE T1tSend([h EXCEPT !.t = t], "WRITE_E8", p.block, p.data)
    IN  IF ~p.some THEN Ret(h, "FAILED") ELSE Ret(h1, IF last THEN "OK" ELSE "CONTINUE")

T1tWriteFirstBlock(h) ==
    LET h1 == [h EXCEPT !.t.work_offset = 0]
        single == ~T1tDynamic(h.t)
        a == h.t.ndef_header_offset
    IN  T1tSendPrepared(h1, T1tPrepare(h1, h.t.first_block, a \div T1T_BLOCK, a % T1T_BLOCK, single),
                        single)

(* rw_t1t_next_ndef_write_block.  A block of which a part is reserved is   *)
(* written by the byte, and from the byte behind the last one so written.  *)
T1tWriteNextBlock(h) ==
    LET t == h.t
        Free(b) == {i \in 0..(T1T_BLOCK - 1) : ((b * T1T_BLOCK) + i) \notin T1tReserved(t)}
        blocks == {b \in (t.block_written + 1)..T1Tms(t) : b = t.final \/ Free(b) # {}}
        b1 == IF ~T1tDynamic(t) THEN t.block_written
              ELSE IF blocks = {} THEN T1Tms(t) + 1 ELSE FirstOf(blocks)
        whole == T1tDynamic(t) /\ blocks # {} /\ (b1 = t.final \/ Cardinality(Free(b1)) = T1T_BLOCK)
        wrap == t.write_byte + 1 >= T1T_BLOCK
        none == Zeros(T1T_BLOCK)
    IN  IF whole THEN T1tSendPrepared(h, T1tPrepare(h, none, b1, 0, FALSE), FALSE)
        ELSE T1tSendPrepared(h, T1tPrepare(h, none, IF wrap THEN b1 + 1 ELSE b1,
                                           IF wrap THEN 0 ELSE t.write_byte + 1, TRUE), TRUE)

T1tSetNmn(h, value) == T1tSendByte(h, "WRITE_E", 1, 0, value)

(* rw_t1t_handle_ndef_write_rsp with the transitions of its two callers.   *)
T1tNdefWriteRsp(h, data) ==
    LET Written(h1) == CASE h1.ret = "FAILED" -> T1tEnd(h1, "FAILED")
                         [] h1.ret = "OK" -> [h1 EXCEPT !.t.sub = "WAIT_NDEF_UPDATED"]
                         [] OTHER -> [h1 EXCEPT !.t.sub = "WAIT_NDEF_WRITE"]
    IN  CASE h.t.sub = "WAIT_READ_NDEF_BLOCK" ->
               [T1tSetNmn([h EXCEPT !.t.final_block = data], 0) EXCEPT
                   !.t.sub = "WAIT_INVALIDATE_NDEF"]
          [] h.t.sub = "WAIT_INVALIDATE_NDEF" -> Written(T1tWriteFirstBlock(h))
          [] h.t.sub = "WAIT_NDEF_WRITE" -> Written(T1tWriteNextBlock(h))
          [] h.t.sub = "WAIT_NDEF_UPDATED" ->
               [T1tSetNmn(h, T1T_NMN) EXCEPT !.t.sub = "WAIT_VALIDATE_NDEF"]
          [] OTHER -> T1tEnd([h EXCEPT !.t.ndef_msg_len = h.t.new_len,
                                       !.t.attribute = "READ_WRITE"], "OK")
-----------------------------------------------------------------------------
(* Making the tag read only, and formatting it.                            *)

(* The lock bits of the next lock bytes: those of a block at once, or one  *)
(* byte of a static tag.                                                   *)
T1tSetDynLocks(h) ==
    LET locks == [i \in DOMAIN h.t.lockbyte |-> [h.t.lockbyte[i] EXCEPT
                     !.status = IF @ = "UPDATE_INITIATED" THEN "UPDATED" ELSE @]]
        left == {i \in DOMAIN locks : locks[i].status = "NOT_UPDATED"}
        first == locks[FirstOf(left)]
        block == first.addr \div T1T_BLOCK
        others == {i \in DOMAIN locks : i > FirstOf(left) /\ locks[i].addr \div T1T_BLOCK # block}
        group == IF ~T1tDynamic(h.t) THEN {FirstOf(left)}
                 ELSE {i \in DOMAIN locks : i >= FirstOf(left) /\ \A j \in others : i < j}
        At(b) == {i \in group : locks[i].addr % T1T_BLOCK = b}
        bits == [b \in 0..(T1T_BLOCK - 1) |->
                   IF At(b) = {} THEN 0 ELSE SetLowBits(0, locks[FirstOf(At(b))].bits)]
        h1 == [h EXCEPT !.t.lockbyte = [i \in DOMAIN locks |->
                  IF i \in group THEN [locks[i] EXCEPT !.status = "UPDATE_INITIATED"] ELSE locks[i]]]
    IN  IF left = {} THEN T1tEnd([h EXCEPT !.t = T1tUpdateLocks([@ EXCEPT !.lockbyte = locks])], "OK")
        ELSE IF T1tDynamic(h.t) THEN T1tSend(h1, "WRITE_NE8", block, bits)
        ELSE T1tSendByte(h1, "WRITE_NE", block, first.addr % T1T_BLOCK, bits[first.addr % T1T_BLOCK])

T1tReadOnlyRsp(h) ==
    CASE h.t.sub = "WAIT_SET_CC_RWA_RO" /\ ~h.t.hard_lock -> T1tEnd(h, "OK")
      [] h.t.sub = "WAIT_SET_CC_RWA_RO" /\ h.t.hard_lock /\ T1tDynamic(h.t) ->
           [T1tSend(h, "WRITE_NE8", T1T_LOCK_BLOCK,
                    [i \in 0..(T1T_BLOCK - 1) |-> IF i < 2 THEN 255 ELSE 0])
              EXCEPT !.t.sub = "WAIT_SET_DYN_LOCK_BITS"]
      [] h.t.sub = "WAIT_SET_CC_RWA_RO" /\ h.t.hard_lock /\ ~T1tDynamic(h.t) ->
           [T1tSendByte(h, "WRITE_NE", T1T_LOCK_BLOCK, 0, 255)
              EXCEPT !.t.sub = "WAIT_SET_ST_LOCK_BITS"]
      [] h.t.sub = "WAIT_SET_ST_LOCK_BITS" ->
           [T1tSendByte(h, "WRITE_NE", T1T_LOCK_BLOCK, 1, 255)
              EXCEPT !.t.sub = "WAIT_SET_DYN_LOCK_BITS"]
      [] OTHER -> T1tSetDynLocks(h)

(* The answer to a write of the format operation: byte by byte on a static *)
(* tag, two blocks at most on a dynamic one.                               *)
T1tFormatRsp(h) ==
    LET next == h.t.work_offset + 1
    IN  CASE h.t.sub = "WAIT_SET_CC" ->
               [T1tSend(h, "WRITE_E8", 2, h.t.final_block) EXCEPT !.t.sub = "WAIT_SET_NULL_NDEF"]
          [] h.t.sub # "WAIT_SET_CC" /\ h.t.hr = T1T_STATIC_HR0 /\ next < T1T_BLOCK ->
               T1tSendByte([h EXCEPT !.t.work_offset = next], "WRITE_E", 1, next,
                           h.t.first_block[next])
          [] OTHER -> T1tEnd(h, "OK")
-----------------------------------------------------------------------------
(* Messages from the controller.                                           *)

(* rw_t1t_handle_rsp.  The state of a dynamic tag and its locks are worked *)
(* out before its new content is copied, those of a static one after.      *)
T1tHandleRsp(h, rsp) ==
    LET t == h.t
        op == t.cmd.op
        body == Slice(rsp, 1, Size(rsp) - 1)
        all == Slice(rsp, 2, T1T_STATIC)
        from == IF op = "RSEG" THEN t.segment * T1T_SEGMENT ELSE t.block_read * T1T_BLOCK
        h1 == IF op = "RSEG" /\ rsp[0] = 0
                THEN [h EXCEPT !.t = [T1tUpdateLocks(T1tUpdateState(t)) EXCEPT !.mem = body]] ELSE h
        h2 == [h1 EXCEPT !.t = T1tExtractLocks(@, body, from)]
        rall == [h EXCEPT !.t = T1tUpdateLocks(T1tUpdateState(
                    T1tExtractLocks([t EXCEPT !.mem = Overlay(@, 0, all), !.segment = 0], all, 0)))]
        read == op \in {"RSEG", "READ8"}
    IN  CASE op = "RALL" /\ t.state = "READ_NDEF" -> T1tRallRsp(rall)
          [] read /\ t.state = "READ_NDEF" -> T1tNdefReadRsp(h2, body)
          [] op # "RALL" /\ t.state = "WRITE_NDEF" -> T1tNdefWriteRsp(IF read THEN h2 ELSE h, body)
          [] op = "RALL" /\ t.state # "READ_NDEF" -> T1tDetectRsp(rall, all, 0)
          [] read /\ t.state \notin {"READ_NDEF", "WRITE_NDEF"} -> T1tDetectRsp(h2, body, from)
          [] OTHER -> IF t.state = "FORMAT_TAG" THEN T1tFormatRsp(h) ELSE T1tReadOnlyRsp(h)

(* An answer that a retransmission left behind.                            *)
T1tIsOldAnswer(t, rsp) ==
    /\ t.prev.n > 0 /\ T1tRspLen(t.prev.op) = Size(rsp)
    /\ T1tNoAddress(t.prev.op) \/ t.prev.addr = rsp[0]

T1tDropOld(h) == [h EXCEPT !.t.prev.n = @ - 1]

T1tData(h, rsp) ==
    LET t == h.t
        unlike == Size(rsp.data) # T1tRspLen(t.cmd.op)
                    \/ (~T1tNoAddress(t.cmd.op) /\ rsp.data[0] # t.cmd.blk)
        prev0 == IF t.prev.n > 0 THEN NoPrev ELSE t.prev
        h1 == [StopTimer(h) EXCEPT !.retry = 0,
                                   !.t.prev = IF h.retry > 0 THEN T1tPrev(t, h.retry) ELSE prev0]
        rid == [h1 EXCEPT !.t.hr = rsp.data[0],
                          !.t.mem = Overlay(@, 0, Slice(rsp.data, 2, 4))]
    IN  CASE t.state = "NOT_ACTIVATED" -> h
          [] t.state = "IDLE" \/ t.cmd = NoCmd ->
               IF T1tIsOldAnswer(t, rsp.data) THEN T1tDropOld(h)
               ELSE Report(h, RwEvt("RAW_FRAME", "OK"))
          [] t.state # "IDLE" /\ t.cmd # NoCmd /\ unlike ->
               IF T1tIsOldAnswer(t, rsp.data) THEN T1tDropOld(h) ELSE T1tProcessError(StopTimer(h))
          [] OTHER -> IF t.state = "CHECK_PRESENCE" THEN T1tEnd(h1, "OK")
                      ELSE IF t.cmd.op = "RID" THEN T1tEnd(rid, "OK")
                      ELSE IF t.state \in {"READ", "WRITE"} THEN T1tEnd(h1, "OK")
                      ELSE T1tHandleRsp(h1, rsp.data)

T1tTimeout(h) ==
    LET h1 == StopTimer(h)
    IN  CASE h.t.state = "CHECK_PRESENCE" -> T1tPresenceRsp(h1, "FAILED")
          [] h.t.state = "IDLE" -> h1
          [] OTHER -> T1tProcessError(h1)

T1tError(h) ==
    CASE h.t.state \in {"NOT_ACTIVATED", "IDLE"} -> Report(h, RwEvt("INTF_ERROR", "TIMEOUT"))
      [] h.t.state = "CHECK_PRESENCE" -> T1tPresenceRsp(StopTimer(h), "FAILED")
      [] OTHER -> T1tProcessError(StopTimer(h))

T1tDeactivated(h) == [StopTimer(h) EXCEPT !.t.state = "NOT_ACTIVATED"]
-----------------------------------------------------------------------------
(* The functions NFA RW calls.                                             *)

T1tIn(h, state) == IF h.ret = "OK" THEN [h EXCEPT !.t.state = state] ELSE h

RW_T1tPresenceCheck(h) ==
    CASE h.t.state = "NOT_ACTIVATED" -> Ret(Report(h, RwEvt("PRESENCE_CHECK", "FAILED")), "OK")
      [] h.t.state = "IDLE" -> T1tIn(T1tSend(h, "RID", 0, Zeros(1)), "CHECK_PRESENCE")
      [] OTHER -> Ret(Report(h, RwEvt("PRESENCE_CHECK", "OK")), "OK")

(* RW_T1tRid, RW_T1tReadAll, RW_T1tRead, RW_T1tReadSeg, RW_T1tRead8.       *)
RW_T1tRead(h, op, addr) ==
    IF h.t.state # "IDLE" THEN Ret(h, "BUSY")
    ELSE IF op = "RSEG" /\ addr >= 256 THEN Ret(h, "REFUSED")
    ELSE T1tIn(T1tSend(h, op, addr, Zeros(1)), "READ")

(* RW_T1tWriteErase, RW_T1tWriteNoErase and their eight byte forms.  A read*)
(* only tag refuses all but its capability container.                      *)
RW_T1tWrite(h, op, block, byte, data) ==
    LET eight == op \in T1tDynOps
    IN  CASE h.t.state # "IDLE" -> Ret(h, "BUSY")
          [] \/ h.t.attribute = "READ_ONLY" /\ block # 1 /\ (eight \/ byte # 3)
             \/ ~eight /\ (block >= T1T_STATIC_BLOCKS \/ byte >= T1T_BLOCK)
             \/ block \in {0, 13} -> Ret(h, "REFUSED")
          [] OTHER -> T1tIn(T1tSend(h, op, IF eight THEN block ELSE T1tAdd(block, byte), data),
                            "WRITE")

RW_T1tFormatNDef(h) ==
    LET init == T1tInit[h.t.hr]
        start == <<T1T_NMN, 17, init.tms, 0>>
        lock == <<LOCK_CTRL_TLV, 3, init.lock[1], init.lock[2]>>
        first == start \o (IF init.dynamic THEN lock ELSE <<NDEF_TLV, 0, 0, 0>>)
        second == <<init.lock[3], MEM_CTRL_TLV, 3>> \o init.mem \o <<NDEF_TLV, 0>>
        Block(s) == [i \in 0..(T1T_BLOCK - 1) |-> s[i + 1]]
        h1 == [h EXCEPT !.t.first_block = Block(first), !.t.work_offset = 0,
                        !.t.final_block = IF init.dynamic THEN Block(second) ELSE Zeros(T1T_BLOCK),
                        !.t.sub = IF init.dynamic THEN "WAIT_SET_CC" ELSE "WAIT_SET_NULL_NDEF"]
    IN  CASE h.t.state # "IDLE" -> Ret(h, "FAILED")
          [] ~T1tNdefSupported(h.t) \/ h.t.hr \notin DOMAIN T1tInit -> Ret(h, "REJECTED")
          [] h.t.hr # T1T_STATIC_HR0 -> T1tIn(T1tSend(h1, "WRITE_E8", 1, h1.t.first_block), "FORMAT_TAG")
          [] OTHER -> T1tIn(T1tSendByte(h1, "WRITE_E", 1, 0, h1.t.first_block[0]), "FORMAT_TAG")

T1tReadAll(h) ==
    IF T1tDynamic(h.t) THEN T1tSend(h, "RSEG", T1tAdds(0), Zeros(T1T_BLOCK))
    ELSE T1tSend(h, "RALL", 0, Zeros(1))

RW_T1tLocateTlv(h, type) ==
    LET t == [h.t EXCEPT !.tlv_detect = type, !.segment = 0, !.work_offset = 0, !.sub = "NONE",
                         !.mem_tlv = IF type \in {MEM_CTRL_TLV, NDEF_TLV} THEN <<>> ELSE @,
                         !.lockbyte = IF type \in {LOCK_CTRL_TLV, NDEF_TLV} THEN <<>> ELSE @]
    IN  CASE h.t.state # "IDLE" -> Ret(h, "FAILED")
          [] type = NDEF_TLV /\ ~T1tNdefSupported(h.t) -> Ret([h EXCEPT !.t.tlv_detect = type], "REFUSED")
          [] OTHER -> T1tIn(T1tReadAll([h EXCEPT !.t = t]), "TLV_DETECT")

RW_T1tDetectNDef(h) == RW_T1tLocateTlv(h, NDEF_TLV)

RW_T1tReadNDef(h, size) ==
    CASE h.t.state # "IDLE" -> Ret(h, "FAILED")
      [] ~T1tNdefSupported(h.t) -> Ret(h, "REFUSED")
      [] h.t.attribute = "INITIALIZED_NDEF" -> Ret(h, "NOT_INITIALIZED")
      [] h.t.attribute \notin {"READ_WRITE", "READ_ONLY"} \/ size < h.t.ndef_msg_len -> Ret(h, "FAILED")
      [] OTHER -> T1tIn(T1tReadAll([h EXCEPT !.buf = <<>>, !.t.segment = 0, !.t.work_offset = 0]),
                        "READ_NDEF")

RW_T1tWriteNDef(h, msg) ==
    LET t == h.t
        len == Size(msg)
        t1 == [t EXCEPT !.new_len = len, !.ndef_msg_offset = t.ndef_header_offset + LenFieldLen(len)]
        last == HighestOf(FreeBytes(T1tReserved(t), t1.ndef_msg_offset, len)) \div T1T_BLOCK
        h1 == [h EXCEPT !.new = msg, !.t = t1]
        dyn == [h1 EXCEPT !.t.block_read = last, !.t.final = last, !.t.sub = "WAIT_READ_NDEF_BLOCK"]
    IN  CASE t.state # "IDLE" -> Ret(h, "FAILED")
          [] \/ ~T1tNdefSupported(t) \/ t.attribute \notin {"READ_WRITE", "INITIALIZED_NDEF"}
             \/ len > t.max_len -> Ret(h, "REFUSED")
          [] OTHER -> IF T1tDynamic(t)
                        THEN T1tIn(T1tSend(dyn, "READ8", last, Zeros(T1T_BLOCK)), "WRITE_NDEF")
                      ELSE T1tIn(T1tSetNmn([h1 EXCEPT !.t.sub = "WAIT_INVALIDATE_NDEF"], 0), "WRITE_NDEF")

RW_T1tSetTagReadOnly(h, hard) ==
    LET locks == [i \in DOMAIN h.t.lockbyte |-> [h.t.lockbyte[i] EXCEPT
                     !.status = IF hard THEN "NOT_UPDATED" ELSE @]]
        h1 == [h EXCEPT !.t.hard_lock = hard, !.t.lockbyte = locks, !.t.sub = "WAIT_SET_CC_RWA_RO"]
    IN  CASE h.t.state # "IDLE" -> Ret(h, "BUSY")
          [] h.t.attribute \notin {"READ_WRITE", "INITIALIZED", "INITIALIZED_NDEF"} ->
               Ret([h EXCEPT !.t.hard_lock = hard], "FAILED")
          [] OTHER -> T1tIn(T1tSendByte(h1, "WRITE_NE", 1, 3, T1T_RWA_RO), "SET_TAG_RO")
-----------------------------------------------------------------------------
(* The tag.                                                                *)

T1tTag(hr, mem) == [hr |-> hr, mem |-> mem]

(* A write to a locked block has no effect; one to the lock block, or one  *)
(* without erase, only sets bits.                                          *)
T1tLockedBlock(mem, block) ==
    block \in {0, 13} \/ (block < 14 /\ Bit(mem[112 + block \div 8], block % 8))

T1tSetBits(a, b) ==
    FoldLeft(LAMBDA n, i : n + (IF Bit(a, i - 1) \/ Bit(b, i - 1) THEN 2^(i - 1) ELSE 0), 0,
             [i \in 1..8 |-> i])

T1tStore(mem, op, a, data) ==
    LET ors == op \in {"WRITE_NE", "WRITE_NE8"} \/ a \div T1T_BLOCK = T1T_LOCK_BLOCK
    IN  IF T1tLockedBlock(mem, a \div T1T_BLOCK) THEN mem
        ELSE Overlay(mem, a, [i \in DOMAIN data |-> IF ors THEN T1tSetBits(mem[a + i], data[i])
                                                    ELSE data[i]])

T1tExecute(tag, c) ==
    LET Answer(mem, data) == [tag |-> [tag EXCEPT !.mem = mem], rsp |-> Rsp("data", data)]
        With(d) == [i \in 0..Size(d) |-> IF i = 0 THEN c.blk ELSE d[i - 1]]
        Header(n) == [i \in 0..(n + 1) |-> IF i = 0 THEN tag.hr ELSE IF i = 1 THEN 0 ELSE tag.mem[i - 2]]
        a == IF c.op \in {"READ8", "WRITE_E8", "WRITE_NE8"} THEN c.blk * T1T_BLOCK
             ELSE IF c.op = "RSEG" THEN (c.blk \div 16) * T1T_SEGMENT ELSE c.blk
        new == T1tStore(tag.mem, c.op, a, c.data)
    IN  CASE c.op = "RID" -> Answer(tag.mem, Header(4))
          [] c.op = "RALL" -> Answer(tag.mem, Header(T1T_STATIC))
          [] c.op = "READ" -> Answer(tag.mem, With(Slice(tag.mem, a, 1)))
          [] c.op = "READ8" -> Answer(tag.mem, With(Slice(tag.mem, a, T1T_BLOCK)))
          [] c.op = "RSEG" -> Answer(tag.mem, With(Slice(tag.mem, a, T1T_SEGMENT)))
          [] OTHER -> Answer(new, With(Slice(new, a, Size(c.data))))
(* Block 13 and the lock bytes are never part of the TLVs.                 *)
T1tNdefOf(tag) ==
    IF tag.mem[8] = T1T_NMN THEN TlvNdef(tag.mem, 12, 104..127) ELSE NoNdef
=============================================================================
