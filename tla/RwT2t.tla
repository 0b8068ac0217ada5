------------------------------- MODULE RwT2t --------------------------------
(***************************************************************************)
(* Type 2 tags: rw_t2t.cc and rw_t2t_ndef.cc, and the tag they talk to.    *)
(*                                                                         *)
(* The tag has a sector 0 of at most 128 bytes (one segment of the code's  *)
(* attribute tables) and an empty sector 1.  Lock bits are kept as the set *)
(* of bytes they protect, reserved bytes as a set as well.                 *)
(* A message to be written has at least 3 bytes (NDEF_MsgValidate).        *)
(***************************************************************************)
EXTENDS RwCommon
LOCAL INSTANCE SequencesExt

CONSTANT T2tInit   \* t2t_init_content: the entry of the tag's manufacturer

(* multi, calc, otp, version_block, version: as in the table; tms: its     *)
(* size; blpb the bytes a default lock bit protects; lock: the bytes of the*)
(* lock control TLV that rw_t2t_set_lock_tlv works out (<<>>: it cannot).  *)
ASSUME T2tInitAssumption ==
    T2tInit \in [mid : Byte, multi : BOOLEAN, calc : BOOLEAN, otp : BOOLEAN, version : 1..65535,
                 version_block : 1..15, tms : Nat, blpb : 1..8, lock : Seq(Byte)]

BLOCK == 4          \* T2T_BLOCK_SIZE
READ_BLOCKS == 4
READ_LEN == BLOCK * READ_BLOCKS
FIRST_DATA == 4     \* T2T_FIRST_DATA_BLOCK
STATIC_SIZE == 64
TMS_FACTOR == 8
TMS_STATIC == 6
NMN == 225          \* T2T_CC0_NMN
RWA_RO == 15
MIFARE_MID == 4

T2tState == {"NOT_ACTIVATED", "IDLE", "READ", "WRITE", "SELECT_SECTOR", "DETECT_TLV", "READ_NDEF",
             "WRITE_NDEF", "SET_TAG_RO", "CHECK_PRESENCE", "FORMAT_TAG", "HALT"}

(* tRW_T2T_CB.  info is p_cmd_rsp_info, cur_cmd and sec_cmd the commands in*)
(* p_cur_cmd_buf and p_sec_cmd_buf; a lock byte has its address, the bits  *)
(* of it in use, the bytes a bit protects and the state of its update.     *)
T2tSelect ==
    [state |-> "IDLE", sub |-> "NONE", prev_sub |-> "NONE", halt |-> FALSE, info |-> "NULL",
     cur_cmd |-> NoCmd, sec_cmd |-> NoCmd, sector |-> 0, select_sector |-> 0,
     tlv_detect |-> 0, found_tlv |-> 0, bytes_count |-> 0, tlv_value |-> [i \in 0..2 |-> 0],
     work_offset |-> 0, block_read |-> 0, block_written |-> 0,
     b_read_hdr |-> FALSE, tag_hdr |-> Zeros(READ_LEN),
     b_read_data |-> FALSE, tag_data |-> Zeros(READ_LEN),
     lockbyte |-> <<>>, num_lock_tlvs |-> 0, mem_tlv |-> <<>>, attr |-> {}, lock_attr |-> {},
     ndef_detected |-> FALSE, ndef_msg_len |-> 0, new_len |-> 0, prop_msg_len |-> 0,
     ndef_msg_offset |-> 0, ndef_header_offset |-> 0, max_len |-> 0,
     first_block |-> Zeros(BLOCK), last_block |-> Zeros(BLOCK), term_block |-> Zeros(BLOCK),
     read_block |-> Zeros(BLOCK), final_block |-> Zeros(BLOCK),
     last_block_num |-> 0, term_index |-> 0, read_block_num |-> 0,
     hard_lock |-> FALSE, skip_dyn_locks |-> FALSE]

(* The capability container in tag_hdr.                                    *)
Cc0(t) == t.tag_hdr[12]
Cc1(t) == t.tag_hdr[13]
Tms(t) == t.tag_hdr[14]
Rwa(t) == t.tag_hdr[15]

DataEnd(t) == Tms(t) * TMS_FACTOR + FIRST_DATA * BLOCK
-----------------------------------------------------------------------------
(* Commands and the end of an operation.                                   *)

T2tSendCmd(h, c) ==
    Transmit([h EXCEPT !.retry = 0, !.t.info = c.op, !.t.cur_cmd = c], c)

SecSel == Cmd("SEC_SEL", 0, NoData)

(* The command goes to sector 0; when another one is selected the sector   *)
(* is changed first and the command waits in sec_cmd.                      *)
T2tSend0(h, c) ==
    IF h.t.sector = 0 THEN T2tSendCmd(h, c)
    ELSE [T2tSendCmd(h, SecSel) EXCEPT
             !.t.select_sector = 0, !.t.sec_cmd = c, !.t.prev_sub = h.t.sub,
             !.t.sub = "WAIT_SELECT_SECTOR_SUPPORT"]

T2tReadBlock(h, block) == [T2tSend0(h, Cmd("READ", block, NoData)) EXCEPT !.t.block_read = block]

T2tWriteBlock(h, block, data) ==
    [T2tSend0(h, Cmd("WRITE", block, data)) EXCEPT !.t.block_written = block]

T2tOpComplete(h) ==
    [h EXCEPT !.t.b_read_data = @ /\ h.t.state \notin {"READ_NDEF", "WRITE_NDEF"},
              !.t.state = IF @ = "HALT" THEN @ ELSE "IDLE",
              !.t.sub = "NONE"]

T2tInfoToEvent(t) ==
    CASE t.state = "DETECT_TLV" -> IF t.tlv_detect = NDEF_TLV THEN "NDEF_DETECT" ELSE "TLV_DETECT"
      [] t.state = "READ_NDEF" -> "NDEF_READ"
      [] t.state = "WRITE_NDEF" -> "NDEF_WRITE"
      [] t.state = "SET_TAG_RO" -> "SET_TAG_RO"
      [] t.state = "CHECK_PRESENCE" -> "PRESENCE_CHECK"
      [] t.state = "FORMAT_TAG" -> "FORMAT_CPLT"
      [] OTHER -> CASE t.info = "READ" -> "READ_CPLT"
                    [] t.info = "WRITE" -> "WRITE_CPLT"
                    [] OTHER -> "SELECT_CPLT"

(* The operation t had under way ends with this status.                    *)
T2tEndAs(h, t, status) ==
    LET event == T2tInfoToEvent(t)
        flags == IF t.sub = "WAIT_READ_LOCKS" THEN {"FORMATED"} ELSE {"UNKNOWN"}
    IN  Report(T2tOpComplete(h),
               IF event = "NDEF_DETECT" THEN DetectEvt(status, flags, 0, 0) ELSE RwEvt(event, status))

T2tEnd(h, status) == T2tEndAs(h, h.t, status)

T2tPresenceRsp(h, status) == Report(T2tOpComplete(h), RwEvt("PRESENCE_CHECK", status))

(* Faulty variant: one retransmission too many.                            *)
T2tProcessError_OneMore(h) ==
    IF ~h.t.halt /\ h.retry <= RW_MAX_RETRIES
      THEN Transmit([h EXCEPT !.retry = @ + 1], h.t.cur_cmd)
    ELSE IF h.t.halt THEN T2tEndAs([h EXCEPT !.t.state = "HALT"], h.t, "REJECTED")
    ELSE T2tEnd(h, "TIMEOUT")

T2tProcessError(h) ==
    IF ~h.t.halt /\ h.retry < RW_MAX_RETRIES
      THEN Transmit([h EXCEPT !.retry = @ + 1], h.t.cur_cmd)
    ELSE IF h.t.halt THEN T2tEndAs([h EXCEPT !.t.state = "HALT"], h.t, "REJECTED")
    ELSE T2tEnd(h, "TIMEOUT")

(* The second part of the sector select: the tag stays silent if it agrees.*)
T2tSectorChange(h) ==
    Transmit([h EXCEPT !.t.info = "NULL", !.t.sub = "WAIT_SELECT_SECTOR"],
             Cmd("SECTOR", h.t.select_sector, NoData))

(* The sector has changed: the command that waited for it goes out.        *)
T2tResumeOp(h) ==
    Transmit([h EXCEPT !.t.sub = h.t.prev_sub, !.t.info = h.t.sec_cmd.op,
                       !.t.cur_cmd = h.t.sec_cmd], h.t.sec_cmd)
-----------------------------------------------------------------------------
(* Reserved and protected bytes.                                           *)

(* Faulty variant: reserved bytes count as data.                           *)
IsLockResByte_Never(t, index) == FALSE

IsLockResByte(t, index) == index \in t.attr

(* rw_t2t_update_attributes.                                               *)
UpdateAttributes(t) ==
    [t EXCEPT !.attr = ReservedBytes(t.lockbyte, t.mem_tlv)]

(* Bytes the static lock bits protect: bit k stands for block k; blocks 0  *)
(* and 1 always are.                                                       *)
StaticLocked(hdr) ==
    0..7 \union {b \in 0..(STATIC_SIZE - 1) : LET k == b \div BLOCK IN
                    Bit(hdr[10 + k \div 8], k % 8)}

(* rw_t2t_update_lock_attributes.                                          *)
UpdateLockAttributes(t) == [t EXCEPT !.lock_attr = StaticLocked(t.tag_hdr)
                                                     \union BytesLocked(t.lockbyte, STATIC_SIZE)]

IsReadOnlyByte(t, index) == index \in t.lock_attr

(* The dynamic lock bytes of a tag that does not describe them lie behind  *)
(* the data area.                                                          *)
ExtractDefaultLocks(t) ==
    IF t.num_lock_tlvs # 0 \/ Tms(t) <= TMS_STATIC THEN t
    ELSE LET blpb == IF t.tag_hdr[0] = T2tInit.mid THEN T2tInit.blpb ELSE 8
             bits == (Tms(t) * TMS_FACTOR - (STATIC_SIZE - 16)) \div blpb
         IN  [t EXCEPT !.num_lock_tlvs = 1,
                       !.lockbyte = [i \in 1..Ceil(bits, 8) |->
                           [addr |-> DataEnd(t) + i - 1, val |-> 0, read |-> FALSE,
                            bits |-> IF i * 8 <= bits THEN 8 ELSE bits % 8,
                            blpb |-> blpb, status |-> "NOT_UPDATED"]]]

UnreadLocks(t) == {i \in DOMAIN t.lockbyte : ~t.lockbyte[i].read}

Aligned(block) == block - (block % READ_BLOCKS)
-----------------------------------------------------------------------------
(* Detection of a TLV.                                                     *)

T2tNdefFlags(t) ==
    {"SUPPORTED"}
      \union (IF Tms(t) \in {0, TMS_STATIC} THEN {"FORMATABLE"} ELSE {})
      \union (IF Rwa(t) % 16 = RWA_RO THEN {"READ_ONLY"} ELSE {})
      \union (IF t.tag_hdr[0] = T2tInit.mid /\ T2tInit.otp
                THEN {"OTP"} \union (IF t.ndef_msg_len > 0 THEN {"READ_ONLY"} ELSE {}) ELSE {})

(* rw_t2t_get_ndef_max_size: the bytes from the message on that are neither*)
(* reserved nor behind a protected one.                                    *)
T2tMaxSize(t) ==
    LET size == DataEnd(t) + Len(t.lockbyte)
                  + FoldLeft(LAMBDA n, m : n + m.num_bytes, 0, t.mem_tlv)
        area == {i \in t.ndef_msg_offset..(size - 1) : ~IsLockResByte(t, i)}
        ro == {i \in area : IsReadOnlyByte(t, i)}
        Room(n) == IF IsLong(n) /\ t.ndef_msg_offset - t.ndef_header_offset = 1
                     THEN IF n = LONG_NDEF_MIN_LEN THEN n - 1 ELSE n - 2
                   ELSE n
    IN  IF size < STATIC_SIZE \/ (Cc0(t) # NMN /\ Cc0(t) # 0) THEN STATIC_SIZE - 16 - 2
        ELSE Room(Cardinality({i \in area : \A j \in ro : i < j}))

(* rw_t2t_ntf_tlv_detect_complete, with the room there is for a message.   *)
T2tDetected(h, status, max0) ==
    LET t == h.t
        flags0 == T2tNdefFlags(t) \union (IF status = "OK" THEN {"FORMATED"} ELSE {})
                    \union (IF max0 < t.ndef_msg_len THEN {"READ_ONLY"} ELSE {})
        Lockable(flags) == IF "READ_ONLY" \in flags THEN flags
                           ELSE flags \union {"SOFT_LOCKABLE"}
                                  \union (IF status = "OK" THEN {"HARD_LOCKABLE"} ELSE {})
        max == IF max0 < t.ndef_msg_len THEN t.ndef_msg_len ELSE max0
        h1 == IF Rwa(t) = 0 /\ t.tlv_detect = NDEF_TLV THEN [h EXCEPT !.t.max_len = max0] ELSE h
    IN  Report(T2tOpComplete(h1),
               IF t.tlv_detect = NDEF_TLV THEN DetectEvt(status, Lockable(flags0), t.ndef_msg_len, max)
               ELSE RwEvt("TLV_DETECT", status))

T2tDetectComplete(h, status) ==
    T2tDetected(h, status, IF Rwa(h.t) = 0 THEN T2tMaxSize(h.t) ELSE h.t.ndef_msg_len)

(* The lock bytes are known: the tag is described.                         *)
T2tLocksKnown(h, status) ==
    T2tDetectComplete([h EXCEPT !.t = UpdateLockAttributes(@)], status)

(* rw_t2t_read_locks and the end of the detection: lock bytes that will not*)
(* be read count as clear.                                                 *)
T2tReadLocks(h) ==
    LET t == h.t
        skip == Rwa(t) # 0 \/ t.skip_dyn_locks
                  \/ (t.tag_hdr[0] = MIFARE_MID /\ Tms(t) \in {6, 18})
        unread == UnreadLocks(t)
    IN  IF skip \/ unread = {}
          THEN T2tLocksKnown([h EXCEPT !.t.lockbyte = [i \in DOMAIN @ |-> IF skip
                                  THEN [t.lockbyte[i] EXCEPT !.val = 0, !.read = TRUE]
                                  ELSE t.lockbyte[i]]], "OK")
        ELSE T2tReadBlock([h EXCEPT !.t.sub = "WAIT_READ_LOCKS"],
                          Aligned(t.lockbyte[FirstOf(unread)].addr \div BLOCK))

(* rw_t2t_handle_lock_read_rsp: the answer serves the first unread byte and*)
(* those behind it that it covers; the next one is asked for.              *)
T2tLockReadRsp(h, data) ==
    LET t == h.t
        unread == UnreadLocks(t)
        base == t.lockbyte[FirstOf(unread)].addr
        from == t.block_read * BLOCK
        Fetched(l) == [l EXCEPT !.val = data[l.addr - from], !.read = TRUE]
        Covered(i) == LET a == t.lockbyte[i].addr IN a >= base /\ a - from < READ_LEN
        last == {i \in unread : ~Covered(i)}
        taken == {i \in unread : \A j \in last : i < j}
        h1 == [h EXCEPT !.t.lockbyte = [i \in DOMAIN @ |-> IF i \in taken
                  THEN Fetched(t.lockbyte[i]) ELSE t.lockbyte[i]]]
        next == t.lockbyte[FirstOf(last)].addr
    IN  IF last = {} THEN T2tLocksKnown(h1, "OK")
        ELSE T2tReadBlock(h1, IF next > base THEN Aligned(next \div BLOCK) ELSE next \div BLOCK)
-----------------------------------------------------------------------------
(* rw_t2t_handle_tlv_detect_rsp: the bytes read are parsed one after the   *)
(* other, m is [t, found, failed].                                         *)

(* What the search has when it meets the end of the TLVs.                  *)
Stop(m) ==
    IF \/ m.t.tlv_detect = LOCK_CTRL_TLV /\ m.t.lockbyte # <<>>
       \/ m.t.tlv_detect = MEM_CTRL_TLV /\ m.t.mem_tlv # <<>>
      THEN [m EXCEPT !.found = TRUE] ELSE [m EXCEPT !.failed = TRUE]

(* The type byte, at address a.                                            *)
DetectType(m, a, data, off) ==
    LET type == data[off]
        m1 == [m EXCEPT !.t.found_tlv = type]
        index == (off + 1) % BLOCK
    IN  CASE type = NULL_TLV -> m1
          [] type = NDEF_TLV ->
               IF m.t.tlv_detect = NDEF_TLV
                 THEN [m1 EXCEPT !.t.sub = "WAIT_FIND_LEN_FIELD_LEN",
                                 !.t.first_block = Overlay(@, 0, Slice(data, off + 1 - index, index))]
               ELSE IF m.t.tlv_detect = PROPRIETARY_TLV
                 THEN [m1 EXCEPT !.t.sub = "WAIT_FIND_LEN_FIELD_LEN"]
               ELSE Stop(m1)
          [] type \in {LOCK_CTRL_TLV, MEM_CTRL_TLV} -> [m1 EXCEPT !.t.sub = "WAIT_READ_TLV_LEN0"]
          [] type = PROPRIETARY_TLV -> [m1 EXCEPT !.t.sub = "WAIT_FIND_LEN_FIELD_LEN"]
          [] type = TERMINATOR_TLV -> Stop(m1)
          [] OTHER -> [m1 EXCEPT !.failed = TRUE]

(* The length of the message of an NDEF or proprietary TLV.                *)
MsgLen(t, len) ==
    IF t.found_tlv = NDEF_TLV THEN [t EXCEPT !.ndef_msg_len = len, !.bytes_count = len]
    ELSE [t EXCEPT !.prop_msg_len = len, !.bytes_count = len]

(* The first byte of the length field of these TLVs.                       *)
DetectLen(m, a, len) ==
    LET t == IF m.t.found_tlv = NDEF_TLV THEN [m.t EXCEPT !.ndef_header_offset = a] ELSE m.t
    IN  IF len = LONG_LEN_BYTE0 THEN [m EXCEPT !.t = [t EXCEPT !.sub = "WAIT_READ_TLV_LEN0"]]
        ELSE [m EXCEPT !.t = [MsgLen(t, len) EXCEPT !.sub = "WAIT_READ_TLV_VALUE"]]

(* The length of a control TLV, or the second byte of a long length field. *)
DetectLen0(m, len) ==
    IF m.t.found_tlv \in {NDEF_TLV, PROPRIETARY_TLV}
      THEN [m EXCEPT !.t.bytes_count = len, !.t.sub = "WAIT_READ_TLV_LEN1"]
    ELSE IF len = 3 THEN [m EXCEPT !.t.bytes_count = 3, !.t.sub = "WAIT_READ_TLV_VALUE"]
    ELSE Stop(m)

DetectLen1(m, len) ==
    [m EXCEPT !.t = [MsgLen(m.t, (m.t.bytes_count * 256) + len) EXCEPT !.sub = "WAIT_READ_TLV_VALUE"]]

(* A lock control TLV is complete: its lock bytes are added.               *)
AddLockTlv(t, v) ==
    UpdateAttributes([t EXCEPT
        !.num_lock_tlvs = @ + 1,
        !.lockbyte = @ \o LockBytes(v)])

AddMemTlv(t, v) ==
    UpdateAttributes([t EXCEPT !.mem_tlv = Append(@, MemArea(v))])

MAX_MEM_TLVS == 5

(* A byte of the value.  The NDEF message is found with its first byte, or *)
(* with the byte behind an empty one; the value of a control TLV is used if*)
(* it is looked for, or if the NDEF TLV is.                                *)
DetectValue(m, a, byte) ==
    LET t == m.t
        left == IF t.bytes_count > 0 THEN t.bytes_count - 1
                ELSE IF t.found_tlv = NDEF_TLV THEN 0 ELSE 65535
        wanted == t.tlv_detect \in {t.found_tlv, NDEF_TLV}
        v == [t.tlv_value EXCEPT ![2 - left] = byte]
    IN  CASE t.found_tlv = NDEF_TLV /\ t.tlv_detect = NDEF_TLV ->
               [m EXCEPT !.found = TRUE, !.t.ndef_detected = TRUE, !.t.bytes_count = left,
                         !.t.ndef_msg_offset = IF t.bytes_count = t.ndef_msg_len THEN a ELSE @]
          [] t.found_tlv \in {LOCK_CTRL_TLV, MEM_CTRL_TLV} /\ wanted ->
               IF left > 0 THEN [m EXCEPT !.t.bytes_count = left, !.t.tlv_value = v]
               ELSE LET t1 == [t EXCEPT !.bytes_count = 0, !.tlv_value = v,
                                        !.sub = "WAIT_TLV_DETECT"]
                    IN  IF t.found_tlv = LOCK_CTRL_TLV THEN [m EXCEPT !.t = AddLockTlv(t1, v)]
                        ELSE IF Len(t.mem_tlv) >= MAX_MEM_TLVS THEN [m EXCEPT !.failed = TRUE]
                        ELSE [m EXCEPT !.t = AddMemTlv(t1, v)]
          [] t.found_tlv = PROPRIETARY_TLV /\ t.tlv_detect = PROPRIETARY_TLV ->
               [m EXCEPT !.found = TRUE, !.t.bytes_count = left]
          [] OTHER -> [m EXCEPT !.t.bytes_count = left,
                                !.t.sub = IF left = 0 THEN "WAIT_TLV_DETECT" ELSE @]

DetectByte(m, a, data, off) ==
    IF m.found \/ m.failed \/ IsLockResByte(m.t, a) THEN m
    ELSE CASE m.t.sub = "WAIT_TLV_DETECT" -> DetectType(m, a, data, off)
           [] m.t.sub = "WAIT_FIND_LEN_FIELD_LEN" -> DetectLen(m, a, data[off])
           [] m.t.sub = "WAIT_READ_TLV_LEN0" -> DetectLen0(m, data[off])
           [] m.t.sub = "WAIT_READ_TLV_LEN1" -> DetectLen1(m, data[off])
           [] OTHER -> DetectValue(m, a, data[off])

(* The block asked for next: as in the code, FIRST_DATA blocks behind the  *)
(* one that follows the bytes parsed so far.                               *)
NextDetectBlock(t) == t.work_offset \div BLOCK + FIRST_DATA

(* The search is over.                                                     *)
T2tDetectEnd(h0, failed) ==
    LET tlv == h0.t.tlv_detect
        End(h) == IF tlv = LOCK_CTRL_TLV \/ (tlv = NDEF_TLV /\ ~failed) THEN T2tReadLocks(h)
                  ELSE T2tDetectComplete(h, IF failed THEN "FAILED" ELSE "OK")
    IN  End(IF tlv \in {LOCK_CTRL_TLV, NDEF_TLV} THEN [h0 EXCEPT !.t = ExtractDefaultLocks(@)] ELSE h0)

T2tDetectRsp(h, data) ==
    LET t0 == IF h.t.work_offset # 0 THEN h.t
              ELSE [h.t EXCEPT !.work_offset = FIRST_DATA * BLOCK, !.b_read_data = TRUE,
                               !.tag_data = data]
        Searched(m) == [m EXCEPT !.t.work_offset = @ + READ_LEN]
        More(m) == ~m.found /\ ~m.failed
        AtEnd(m) == m.t.work_offset >= Tms(m.t) * TMS_FACTOR
        End(m) == T2tDetectEnd([h EXCEPT !.t = m.t], m.failed)
        Next(m) == IF More(m) /\ ~AtEnd(m) THEN T2tReadBlock([h EXCEPT !.t = m.t], NextDetectBlock(m.t))
                   ELSE End(IF More(m) THEN Stop(m) ELSE m)
        Search(t) == Loop(LAMBDA s, off : DetectByte(s, t.work_offset + off, data, off),
                          [t |-> t, found |-> FALSE, failed |-> FALSE], READ_LEN)
    IN  Next(Searched(Search(t0)))

(* rw_t2t_handle_cc_read_rsp.                                              *)
T2tCcReadRsp(h) ==
    IF \/ h.t.tlv_detect = NDEF_TLV /\ Cc0(h.t) # NMN
       \/ Rwa(h.t) \notin {0, RWA_RO} \/ Cc1(h.t) \notin {16, 17, 18}
      THEN T2tDetectComplete(h, "FAILED")
    ELSE T2tReadBlock([h EXCEPT !.t.sub = "WAIT_TLV_DETECT"], FIRST_DATA)

T2tDetectState(h, data) ==
    CASE h.t.sub = "WAIT_READ_CC" -> T2tCcReadRsp(h)
      [] h.t.sub = "WAIT_READ_LOCKS" /\ h.t.tlv_detect \in {LOCK_CTRL_TLV, NDEF_TLV} ->
           T2tLockReadRsp(h, data)
      [] OTHER -> T2tDetectRsp(h, data)
-----------------------------------------------------------------------------
(* Reading an NDEF message: the bytes that are not reserved are collected, *)
(* four blocks at a time.                                                  *)

T2tNdefReadRsp(h, data) ==
    LET t == h.t
        from == t.block_read * BLOCK
        start == IF t.work_offset = 0 THEN t.ndef_msg_offset - from ELSE 0
        Take(m, i) == IF i < start \/ Len(m) >= t.ndef_msg_len \/ IsLockResByte(t, from + i) THEN m
                      ELSE Append(m, data[i])
        got == Loop(Take, IF t.work_offset = 0 THEN <<>> ELSE h.buf, READ_LEN)
        h1 == [h EXCEPT !.buf = got, !.t.work_offset = Len(got)]
    IN  IF Len(got) >= t.ndef_msg_len
          THEN Report(T2tOpComplete(h1), RwEvt("NDEF_READ", "OK"))
        ELSE T2tReadBlock(h1, t.block_read + READ_BLOCKS)
-----------------------------------------------------------------------------
(* Writing an NDEF message: the last block and the block of the terminator *)
(* are read, the blocks are written with an empty length field, then the   *)
(* length, then the terminator.                                            *)

HeaderBlock(t) == t.ndef_header_offset \div BLOCK

TotalBlocks(t) == Tms(t) * 2 + FIRST_DATA

(* rw_t2t_read_ndef_last_block: the terminator goes behind the message if  *)
(* there is room for it.                                                   *)
ReadNdefLastBlock(h) ==
    LET t == h.t
        n == LenFieldLen(t.new_len) + t.new_len
        last == HighestOf(FreeBytes(t.attr, t.ndef_header_offset, n))
        term == IF t.new_len + 1 <= t.max_len
                  THEN HighestOf(FreeBytes(t.attr, t.ndef_header_offset, n + 1)) ELSE 0
        block == last \div BLOCK
    IN  T2tReadBlock([h EXCEPT !.t.last_block_num = block, !.t.term_index = term,
                               !.t.sub = "WAIT_READ_NDEF_LAST_BLOCK"], block)

ReadTermBlock(h) ==
    T2tReadBlock([h EXCEPT !.t.sub = "WAIT_READ_TERM_TLV_BLOCK"], Aligned(h.t.term_index \div BLOCK))

(* rw_t2t_update_cb: the copies of the special blocks follow what is       *)
(* written, the substate says what comes next.                             *)
UpdateCb(t, block, data, update) ==
    LET t1 == [t EXCEPT !.first_block = IF block = HeaderBlock(t) THEN data ELSE @,
                        !.term_block = IF block = t.term_index \div BLOCK THEN data ELSE @,
                        !.last_block = IF block = t.last_block_num THEN data ELSE @]
    IN  IF ~update
          THEN IF block = t.last_block_num
                 THEN [t1 EXCEPT !.sub = "WAIT_WRITE_NDEF_LAST_BLOCK", !.work_offset = 0]
               ELSE [t1 EXCEPT !.sub = "WAIT_WRITE_NDEF_NEXT_BLOCK"]
        ELSE IF t.work_offset < LenFieldLen(t.new_len)
          THEN [t1 EXCEPT !.sub = "WAIT_WRITE_NDEF_LEN_NEXT_BLOCK"]
        ELSE [t1 EXCEPT !.sub = IF t.term_index # 0 THEN "WAIT_WRITE_NDEF_LEN_BLOCK"
                                ELSE "WAIT_WRITE_TERM_TLV_CMPLT"]

(* The block, from byte start on, filled with the length field and the     *)
(* message from work_offset on: [data, offset].                            *)
Fill(h, block, data, start, update) ==
    LET t == h.t
        field == IF update THEN LenField(t.new_len) ELSE Zeros(LenFieldLen(t.new_len))
        n == Size(field)
        Put(m, i) ==
          IF i < start \/ m.offset >= t.new_len + n \/ IsLockResByte(t, block * BLOCK + i) THEN m
          ELSE [data |-> [m.data EXCEPT ![i] = IF m.offset < n THEN field[m.offset]
                                               ELSE h.new[m.offset - n]],
                offset |-> m.offset + 1]
    IN  Loop(Put, [data |-> data, offset |-> t.work_offset], BLOCK)

(* A filled block is written, unless it lies behind the data area or has no*)
(* byte of the message.                                                    *)
T2tWriteFilled(h, block, data, start, update) ==
    LET f == Fill(h, block, data, start, update)
    IN  IF block >= TotalBlocks(h.t) \/ f.offset = h.t.work_offset THEN T2tEnd(h, "FAILED")
        ELSE T2tWriteBlock([h EXCEPT !.t = UpdateCb([@ EXCEPT !.work_offset = f.offset],
                                                    block, f.data, update)],
                           block, f.data)

WriteNdefFirstBlock(h, update) ==
    LET h1 == [h EXCEPT !.t.work_offset = 0, !.t.b_read_data = FALSE]
    IN  T2tWriteFilled(h1, HeaderBlock(h.t), h.t.first_block, h.t.ndef_header_offset % BLOCK, update)

WriteNdefNextBlock(h, block, update) == T2tWriteFilled(h, block, h.t.read_block, 0, update)

(* rw_t2t_is_read_before_write_block: the next block that is not reserved  *)
(* as a whole, whether it must be read first because a part of it is, and  *)
(* the content known of it.                                                *)
NextWriteBlock(t, block) ==
    LET Free(b) == {i \in 0..(BLOCK - 1) : ~IsLockResByte(t, b * BLOCK + i)}
        usable == {b \in block..(TotalBlocks(t) - 1) : Free(b) # {}}
        b1 == IF usable = {} THEN TotalBlocks(t) ELSE FirstOf(usable)
    IN  CASE block = HeaderBlock(t) -> [block |-> block, read |-> FALSE, data |-> t.first_block]
          [] block = t.last_block_num -> [block |-> block, read |-> FALSE, data |-> t.last_block]
          [] block = t.term_index \div BLOCK -> [block |-> block, read |-> FALSE,
                                                 data |-> t.term_block]
          [] OTHER -> [block |-> b1, data |-> t.read_block,
                       read |-> usable = {} \/ Cardinality(Free(b1)) < BLOCK]

WriteNdefContinue(h) ==
    LET next == NextWriteBlock(h.t, h.t.block_written + 1)
        h1 == [h EXCEPT !.t.read_block = next.data]
    IN  IF next.read
          THEN T2tReadBlock([h1 EXCEPT !.t.read_block_num = next.block,
                                       !.t.sub = "WAIT_READ_NDEF_NEXT_BLOCK"], Aligned(next.block))
        ELSE WriteNdefNextBlock(h1, next.block, h.t.sub = "WAIT_WRITE_NDEF_LEN_NEXT_BLOCK")

AddTerminator(h) ==
    LET t == h.t
        data == [t.term_block EXCEPT ![t.term_index % BLOCK] = TERMINATOR_TLV]
    IN  T2tWriteBlock([h EXCEPT !.t.term_block = data, !.t.sub = "WAIT_WRITE_TERM_TLV_CMPLT"],
                      t.term_index \div BLOCK, data)

(* The message is written: the offsets follow the size of its length field.*)
WriteNdefDone(h) ==
    LET t == h.t
        shift == LenFieldLen(t.new_len) - LenFieldLen(t.ndef_msg_len)
    IN  Report(T2tOpComplete([h EXCEPT !.t.ndef_msg_offset = @ + shift,
                                       !.t.ndef_msg_len = t.new_len]),
               RwEvt("NDEF_WRITE", "OK"))

(* rw_t2t_handle_ndef_write_rsp.  (The code's WAIT_READ_NDEF_LEN_BLOCK is  *)
(* never entered: the first block is always known.)                        *)
T2tNdefWriteRsp(h, data) ==
    LET t == h.t
        Block(n) == Slice(data, (n - t.block_read) * BLOCK, BLOCK)
    IN  CASE t.sub = "WAIT_READ_NDEF_FIRST_BLOCK" ->
               ReadNdefLastBlock([h EXCEPT !.t.first_block = Slice(data, 0, BLOCK)])
          [] t.sub = "WAIT_READ_NDEF_LAST_BLOCK" ->
               LET last == Block(t.last_block_num)
                   same == t.term_index \div BLOCK = t.last_block_num
                   h1 == [h EXCEPT !.t.last_block = last, !.t.term_block = IF same THEN last ELSE @]
               IN  IF ~same /\ t.term_index # 0 THEN ReadTermBlock(h1)
                   ELSE WriteNdefFirstBlock(h1, FALSE)
          [] t.sub = "WAIT_READ_TERM_TLV_BLOCK" ->
               WriteNdefFirstBlock([h EXCEPT !.t.term_block = Block(t.term_index \div BLOCK)], FALSE)
          [] t.sub = "WAIT_READ_NDEF_NEXT_BLOCK" ->
               WriteNdefNextBlock([h EXCEPT !.t.read_block = Block(t.read_block_num)],
                                  t.read_block_num, FALSE)
          [] t.sub \in {"WAIT_WRITE_NDEF_NEXT_BLOCK", "WAIT_WRITE_NDEF_LEN_NEXT_BLOCK"} ->
               WriteNdefContinue(h)
          [] t.sub = "WAIT_WRITE_NDEF_LAST_BLOCK" -> WriteNdefFirstBlock(h, TRUE)
          [] t.sub = "WAIT_WRITE_NDEF_LEN_BLOCK" -> AddTerminator(h)
          [] OTHER -> WriteNdefDone(h)
-----------------------------------------------------------------------------
(* Making the tag read only.                                               *)

(* rw_t2t_soft_lock_tag.                                                   *)
T2tSoftLock(h) ==
    LET t == h.t
        locks == IF ~t.hard_lock THEN t.lockbyte
                 ELSE [i \in DOMAIN t.lockbyte |-> [t.lockbyte[i] EXCEPT
                         !.status = IF @ = "UPDATED" THEN @ ELSE "NOT_UPDATED"]]
        cc == [Slice(t.tag_hdr, 12, BLOCK) EXCEPT ![3] = RWA_RO]
    IN  IF Rwa(t) % 16 = RWA_RO \/ (t.hard_lock /\ Tms(t) # TMS_STATIC /\ t.lockbyte = <<>>)
          THEN Ret(h, "FAILED")
        ELSE Ret([T2tWriteBlock([h EXCEPT !.t.lockbyte = locks, !.t.sub = "WAIT_SET_CC_RO"], 3, cc)
                    EXCEPT !.t.state = "SET_TAG_RO", !.t.b_read_hdr = FALSE], "OK")

(* rw_t2t_set_dynamic_lock_bits: the lock bits of a block are set at once. *)
SetDynLockBits(h, data) ==
    LET t == h.t
        first == FirstOf({i \in DOMAIN t.lockbyte : t.lockbyte[i].status = "NOT_UPDATED"})
        block == t.lockbyte[first].addr \div BLOCK
        others == {i \in DOMAIN t.lockbyte : i > first /\ t.lockbyte[i].addr \div BLOCK # block}
        group == {i \in DOMAIN t.lockbyte : i >= first /\ \A j \in others : i < j}
        Bits(b) == {i \in group : t.lockbyte[i].addr % BLOCK = b}
        content == [b \in 0..(BLOCK - 1) |->
                      IF Bits(b) = {} THEN data[b]
                      ELSE SetLowBits(data[b], t.lockbyte[FirstOf(Bits(b))].bits)]
        h1 == [h EXCEPT !.t.sub = "WAIT_SET_DYN_LOCK_BITS",
                        !.t.lockbyte = [i \in DOMAIN @ |-> IF i \in group
                            THEN [t.lockbyte[i] EXCEPT !.status = "UPDATE_INITIATED"]
                            ELSE t.lockbyte[i]]]
    IN  T2tWriteBlock(h1, block, content)

(* The lock bits of the block were set: those of the next one, or at last  *)
(* the static ones.                                                        *)
DynLocksSet(h) ==
    LET t == h.t
        h1 == [h EXCEPT !.t.lockbyte = [i \in DOMAIN @ |-> [t.lockbyte[i] EXCEPT
                  !.status = IF @ = "UPDATE_INITIATED" THEN "UPDATED" ELSE @]]]
        left == {i \in DOMAIN t.lockbyte : t.lockbyte[i].status = "NOT_UPDATED"}
        static == [i \in 0..(BLOCK - 1) |-> IF i < 2 THEN t.tag_hdr[8 + i] ELSE 255]
    IN  IF left # {}
          THEN T2tReadBlock([h1 EXCEPT !.t.sub = "WAIT_READ_DYN_LOCK_BYTE_BLOCK"],
                            t.lockbyte[FirstOf(left)].addr \div BLOCK)
        ELSE T2tWriteBlock([h1 EXCEPT !.t.sub = "WAIT_SET_ST_LOCK_BITS"], 2, static)

(* rw_t2t_handle_config_tag_readonly.  The result of the soft lock in the  *)
(* first case is dropped: the operation ends although its write is out.    *)
T2tConfigReadOnly(h, data) ==
    CASE h.t.sub = "WAIT_READ_CC" -> T2tEnd(T2tSoftLock(h), "FAILED")
      [] h.t.sub = "WAIT_SET_CC_RO" ->
           LET h1 == [h EXCEPT !.t.tag_hdr[15] = RWA_RO]
           IN  IF h.t.hard_lock THEN DynLocksSet(h1) ELSE T2tEnd(h1, "OK")
      [] h.t.sub = "WAIT_SET_DYN_LOCK_BITS" -> DynLocksSet(h)
      [] h.t.sub = "WAIT_READ_DYN_LOCK_BYTE_BLOCK" -> SetDynLockBits(h, data)
      [] OTHER -> T2tEnd(h, "OK")
-----------------------------------------------------------------------------
(* Formatting: capability container, lock control TLV, empty NDEF TLV.     *)

T2tSetCc(h, tms) ==
    [T2tWriteBlock([h EXCEPT !.t.sub = "WAIT_SET_CC", !.t.final_block = Zeros(BLOCK)], 3,
                   [i \in 0..3 |-> <<NMN, 17, tms, 0>>[i + 1]])
       EXCEPT !.t.state = "FORMAT_TAG", !.t.b_read_hdr = FALSE]

(* rw_t2t_format_tag.                                                      *)
T2tFormatTag(h) ==
    LET t == h.t
        known == t.tag_hdr[0] = T2tInit.mid
        blank == Tms(t) = 0
        h1 == [h EXCEPT !.t.tag_data = Zeros(READ_LEN)]
        odd == (T2tInit.otp /\ t.ndef_msg_len > 0) \/ Cc0(t) \notin {0, NMN}
                 \/ Cc1(t) \notin {0, 16, 17, 18}
    IN  IF ~known \/ (~blank /\ odd) THEN Ret(h, "FAILED")
        ELSE IF ~blank \/ ~T2tInit.multi
          THEN Ret(T2tSetCc(h1, IF blank THEN T2tInit.tms ELSE Tms(t)), "OK")
        ELSE Ret([T2tReadBlock([h1 EXCEPT !.t.sub = "WAIT_READ_VERSION_INFO"], T2tInit.version_block)
                    EXCEPT !.t.state = "FORMAT_TAG"], "OK")

(* rw_t2t_set_lock_tlv.                                                    *)
T2tSetLockTlv(h) ==
    LET v == T2tInit.lock
        data == [i \in 0..3 |-> <<LOCK_CTRL_TLV, 3, v[1], v[2]>>[i + 1]]
    IN  [T2tWriteBlock([h EXCEPT !.t.sub = "WAIT_SET_LOCK_TLV",
                                 !.t.tlv_value = [i \in 0..2 |-> v[i + 1]]], FIRST_DATA, data)
           EXCEPT !.t.b_read_data = FALSE]

(* The empty NDEF TLV, behind the last byte of a lock control TLV if there *)
(* is one.                                                                 *)
T2tSetNullNdef(h, block, locks) ==
    LET tlv == <<NDEF_TLV, 0, IF T2tInit.otp THEN 0 ELSE TERMINATOR_TLV>>
        data == IF locks THEN [i \in 0..3 |-> (<<h.t.tlv_value[2]>> \o tlv)[i + 1]]
                ELSE Overlay([h.t.final_block EXCEPT ![0] = h.t.tlv_value[2]], 0,
                             [i \in 0..2 |-> tlv[i + 1]])
    IN  [T2tWriteBlock([h EXCEPT !.t.sub = "WAIT_SET_NULL_NDEF", !.t.final_block = data], block, data)
           EXCEPT !.t.b_read_data = FALSE]

Word(data, i) == (data[i] * 256) + data[i + 1]

(* rw_t2t_get_tag_size: from the chunks the version block tells of.        *)
T2tTagSize(data) == ((Word(data, 2) * Word(data, 4)) + STATIC_SIZE - 16) \div 8

(* rw_t2t_handle_format_tag_rsp.                                           *)
T2tFormatRsp(h, data) ==
    CASE h.t.sub = "WAIT_READ_CC" ->
           LET h1 == T2tFormatTag(h) IN IF h1.ret = "OK" THEN h1 ELSE T2tEnd(h1, "FAILED")
      [] h.t.sub = "WAIT_READ_VERSION_INFO" ->
           LET h1 == [h EXCEPT !.t.tag_data = data, !.t.b_read_data = TRUE]
           IN  IF Word(data, 0) # T2tInit.version THEN T2tEnd(h1, "FAILED")
               ELSE T2tSetCc(h1, IF T2tInit.calc THEN T2tTagSize(data) ELSE T2tInit.tms)
      [] h.t.sub = "WAIT_SET_CC" ->
           IF T2tInit.multi /\ T2tInit.calc /\ T2tInit.lock # <<>>
                /\ Word(h.t.tag_data, 0) = T2tInit.version
             THEN T2tSetLockTlv(h)
           ELSE T2tSetNullNdef(h, FIRST_DATA, FALSE)
      [] h.t.sub = "WAIT_SET_LOCK_TLV" -> T2tSetNullNdef(h, FIRST_DATA + 1, TRUE)
      [] OTHER -> T2tEnd(h, "OK")
-----------------------------------------------------------------------------
(* The functions NFA RW calls.                                             *)

RW_T2tPresenceCheck(h) ==
    CASE h.t.state = "NOT_ACTIVATED" -> Ret(Report(h, RwEvt("PRESENCE_CHECK", "FAILED")), "OK")
      [] h.t.state = "IDLE" ->
           Ret([T2tSendCmd(h, Cmd("READ", 0, NoData)) EXCEPT !.t.state = "CHECK_PRESENCE"], "OK")
      [] OTHER -> Ret(Report(h, RwEvt("PRESENCE_CHECK", "OK")), "OK")

RW_T2tRead(h, block) ==
    IF h.t.state # "IDLE" THEN Ret(h, "FAILED")
    ELSE Ret([T2tReadBlock(h, block) EXCEPT !.t.state = "READ"], "OK")

RW_T2tWrite(h, block, data) ==
    IF h.t.state # "IDLE" THEN Ret(h, "FAILED")
    ELSE Ret([T2tWriteBlock(h, block, data) EXCEPT
                 !.t.state = "WRITE",
                 !.t.b_read_hdr = @ /\ block >= FIRST_DATA,
                 !.t.b_read_data = @ /\ block \notin FIRST_DATA..(FIRST_DATA + READ_BLOCKS - 1)],
             "OK")

(* T2T_MAX_SECTOR is 2.                                                    *)
RW_T2tSectorSelect(h, sector) ==
    IF h.t.state # "IDLE" \/ sector >= 2 THEN Ret(h, "FAILED")
    ELSE Ret([T2tSendCmd(h, SecSel) EXCEPT !.t.state = "SELECT_SECTOR", !.t.select_sector = sector,
                                           !.t.sub = "WAIT_SELECT_SECTOR_SUPPORT"], "OK")

RW_T2tFormatNDef(h) ==
    IF h.t.state # "IDLE" THEN Ret(h, "FAILED")
    ELSE IF ~h.t.b_read_hdr
      THEN Ret([T2tReadBlock([h EXCEPT !.t.sub = "WAIT_READ_CC"], 0) EXCEPT
                   !.t.state = "FORMAT_TAG"], "OK")
    ELSE LET h1 == T2tFormatTag(h)
         IN  IF h1.ret = "OK" THEN h1 ELSE [h1 EXCEPT !.t.b_read_hdr = FALSE]

RW_T2tLocateTlv(h, type) ==
    LET t == h.t
        unfit == t.b_read_hdr /\ \/ type = LOCK_CTRL_TLV /\ Tms(t) = TMS_STATIC
                                 \/ type = NDEF_TLV /\ Cc0(t) # NMN
        t1 == [t EXCEPT !.work_offset = 0, !.tlv_detect = type]
        t2 == CASE type = LOCK_CTRL_TLV -> [t1 EXCEPT !.lockbyte = <<>>, !.num_lock_tlvs = 0]
                [] type = MEM_CTRL_TLV -> [t1 EXCEPT !.mem_tlv = <<>>]
                [] type = NDEF_TLV ->
                     [t1 EXCEPT !.ndef_msg_offset = 0, !.lockbyte = <<>>, !.num_lock_tlvs = 0,
                                !.mem_tlv = <<>>, !.ndef_msg_len = 0, !.ndef_detected = FALSE]
                [] OTHER -> [t1 EXCEPT !.prop_msg_len = 0]
        sub == IF t.b_read_hdr THEN "WAIT_TLV_DETECT" ELSE "WAIT_READ_CC"
    IN  CASE t.state # "IDLE" -> Ret(h, "BUSY")
          [] type \notin {LOCK_CTRL_TLV, MEM_CTRL_TLV, NDEF_TLV, PROPRIETARY_TLV} -> Ret(h, "FAILED")
          [] unfit -> Ret([h EXCEPT !.t.b_read_hdr = FALSE], "FAILED")
          [] OTHER -> Ret([T2tReadBlock([h EXCEPT !.t = [t2 EXCEPT !.sub = sub]],
                                        IF t.b_read_hdr THEN FIRST_DATA ELSE 0)
                             EXCEPT !.t.state = "DETECT_TLV"], "OK")

RW_T2tDetectNDef(h, skip_dyn_locks) ==
    RW_T2tLocateTlv([h EXCEPT !.t.skip_dyn_locks = skip_dyn_locks], NDEF_TLV)

(* The data the detection has read is used again if the message is there.  *)
RW_T2tReadNDef(h) ==
    LET t == h.t
        block == Aligned(t.ndef_msg_offset \div BLOCK)
        h1 == [h EXCEPT !.t.work_offset = 0, !.t.sub = "NONE"]
    IN  CASE t.state # "IDLE" \/ ~t.ndef_detected -> Ret(h, "FAILED")
          [] t.ndef_msg_len = 0 -> Ret(h, "NOT_INITIALIZED")
          [] block = FIRST_DATA /\ t.b_read_data ->
               Ret(T2tNdefReadRsp([h1 EXCEPT !.t.state = "READ_NDEF", !.t.block_read = FIRST_DATA],
                                  t.tag_data), "OK")
          [] OTHER -> Ret([T2tReadBlock(h1, block) EXCEPT !.t.state = "READ_NDEF"], "OK")

RW_T2tWriteNDef(h) ==
    LET t == h.t
        len == Size(h.new)
        block == HeaderBlock(t)
        h1 == [h EXCEPT !.t.new_len = len, !.t.work_offset = 0,
                        !.t.sub = "WAIT_READ_NDEF_FIRST_BLOCK"]
        otp == t.ndef_msg_len > 0 /\ t.tag_hdr[0] = T2tInit.mid /\ T2tInit.otp
    IN  CASE t.state # "IDLE" \/ ~t.ndef_detected -> Ret(h, "FAILED")
          [] Rwa(t) # 0 -> Ret(h, "REFUSED")
          [] len > t.max_len \/ otp -> Ret(h, "FAILED")
          [] block < FIRST_DATA + READ_BLOCKS /\ t.b_read_data ->
               Ret(T2tNdefWriteRsp([h1 EXCEPT !.t.state = "WRITE_NDEF", !.t.block_read = block],
                                   Slice(t.tag_data, (block - FIRST_DATA) * BLOCK, BLOCK)), "OK")
          [] OTHER -> Ret([T2tReadBlock(h1, block) EXCEPT !.t.state = "WRITE_NDEF"], "OK")

RW_T2tSetTagReadOnly(h, hard) ==
    LET h1 == [h EXCEPT !.t.hard_lock = hard]
    IN  IF h.t.state # "IDLE" THEN Ret(h, "FAILED")
        ELSE IF ~h.t.b_read_hdr
          THEN Ret([T2tReadBlock([h1 EXCEPT !.t.sub = "WAIT_READ_CC"], 0) EXCEPT
                       !.t.state = "SET_TAG_RO"], "OK")
        ELSE LET h2 == T2tSoftLock(h1)
             IN  IF h2.ret = "OK" THEN h2 ELSE [h2 EXCEPT !.t.b_read_hdr = FALSE]
-----------------------------------------------------------------------------
(* Answers, time-outs and errors.                                          *)

(* rw_t2t_handle_rsp.                                                      *)
T2tHandleRsp(h, data) ==
    LET h1 == IF h.t.sub # "WAIT_READ_CC" THEN h
              ELSE [h EXCEPT !.t.b_read_hdr = TRUE, !.t.tag_hdr = data]
    IN  CASE h.t.state = "DETECT_TLV" -> T2tDetectState(h1, data)
          [] h.t.state = "SET_TAG_RO" -> T2tConfigReadOnly(h1, data)
          [] h.t.state = "FORMAT_TAG" -> T2tFormatRsp(h1, data)
          [] h.t.state = "READ_NDEF" -> T2tNdefReadRsp(h1, data)
          [] h.t.state = "WRITE_NDEF" -> T2tNdefWriteRsp(h1, data)
          [] OTHER -> h1

(* The tag agreed: the part of rw_t2t_proc_data for a good answer.         *)
T2tGoodRsp(h0, data) ==
    LET h == [h0 EXCEPT !.t.halt = FALSE]
    IN  CASE h.t.state = "CHECK_PRESENCE" -> T2tPresenceRsp(h, "OK")
          [] h.t.state = "READ" ->
               T2tEnd(IF h.t.block_read # 0 THEN h
                      ELSE [h EXCEPT !.t.b_read_hdr = TRUE, !.t.tag_hdr = data], "OK")
          [] h.t.state = "WRITE" -> T2tEnd(h, "OK")
          [] OTHER -> T2tHandleRsp(h, data)

(* A NACK: the command is sent again once, the tag may have halted.        *)
T2tNack(h) ==
    IF ~h.t.halt THEN [T2tProcessError(h) EXCEPT !.t.halt = TRUE]
    ELSE T2tEnd([h EXCEPT !.t.halt = FALSE], "FAILED")

(* rw_t2t_proc_data.  A bad answer is one of neither expected length.      *)
T2tData(h0, r) ==
    LET h == [h0 EXCEPT !.timer = FALSE]
        h1 == [h EXCEPT !.retry = 0]
        nack == \/ h.t.info = "READ" /\ r.kind # "data"
                \/ h.t.info = "WRITE" /\ r.kind # "ack"
    IN  CASE h0.t.state = "IDLE" \/ h0.t.info = "NULL" -> Report(h0, RwEvt("RAW_FRAME", "OK"))
          [] h.t.state = "HALT" -> h
          [] r.kind = "bad" -> [T2tProcessError(h) EXCEPT !.t.halt = FALSE]
          [] h.t.sub = "WAIT_SELECT_SECTOR_SUPPORT" ->
               IF r.kind = "ack" THEN T2tSectorChange(h1) ELSE T2tEnd(h1, "REJECTED")
          [] nack -> T2tNack(h1)
          [] OTHER -> T2tGoodRsp(h1, r.data)

(* The end of a presence check without an answer.                          *)
T2tPresenceLost(h) ==
    IF h.t.halt THEN T2tPresenceRsp([h EXCEPT !.t.state = "HALT"], "REJECTED")
    ELSE T2tPresenceRsp(h, "FAILED")

(* rw_t2t_process_timeout: silence after the second part of a sector       *)
(* select is the tag's consent.                                            *)
T2tTimeout(h0) ==
    LET h == StopTimer(h0)
        h1 == [h EXCEPT !.t.sector = h.t.select_sector]
    IN  CASE h.t.state = "CHECK_PRESENCE" -> T2tPresenceLost(h)
          [] h.t.sub = "WAIT_SELECT_SECTOR" ->
               IF h.t.state = "SELECT_SECTOR"
                 THEN Report(T2tOpComplete(h1), RwEvt("SELECT_CPLT", "OK"))
               ELSE T2tResumeOp(h1)
          [] h.t.state # "IDLE" -> T2tProcessError(h)
          [] OTHER -> h

(* NFC_ERROR_CEVT and data with a bad status in rw_t2t_conn_cback.         *)
T2tError(h) ==
    CASE h.t.state \in {"NOT_ACTIVATED", "IDLE", "HALT"} -> Report(h, RwEvt("INTF_ERROR", "FAILED"))
      [] h.t.state = "CHECK_PRESENCE" -> T2tPresenceLost(StopTimer(h))
      [] OTHER -> T2tProcessError(StopTimer(h))

(* NFC_DEACTIVATE_CEVT.                                                    *)
T2tDeactivated(h) ==
    [StopTimer(h) EXCEPT !.t.state = "NOT_ACTIVATED", !.t.cur_cmd = NoCmd, !.t.sec_cmd = NoCmd]
-----------------------------------------------------------------------------
(* The tag (external): its memory, the selected sector, whether it expects *)
(* the number of a sector, whether it has halted after a NACK.             *)

T2tTag(mem) == [mem |-> mem, sector |-> 0, select |-> FALSE, halted |-> FALSE]

T2tReadMem(tag, block) ==
    [i \in 0..(READ_LEN - 1) |-> LET a == (block * BLOCK) + i IN
        IF tag.sector = 0 /\ a \in DOMAIN tag.mem THEN tag.mem[a] ELSE 0]

T2tProtected(tag, block) ==
    block * BLOCK \notin DOMAIN tag.mem
      \/ (block \in 3..15 /\ Bit(tag.mem[10 + block \div 8], block % 8))

(* What the tag does with a command, and its answer.                       *)
T2tExecute(tag, c) ==
    LET heard == [tag EXCEPT !.select = FALSE]
    IN  CASE tag.halted -> [tag |-> tag, rsp |-> Rsp("none", NoData)]
          [] c.op = "READ" -> [tag |-> heard, rsp |-> Rsp("data", T2tReadMem(tag, c.blk))]
          [] c.op = "SEC_SEL" -> [tag |-> [tag EXCEPT !.select = TRUE], rsp |-> Rsp("ack", NoData)]
          [] c.op = "SECTOR" /\ tag.select ->
               [tag |-> [heard EXCEPT !.sector = c.blk], rsp |-> Rsp("none", NoData)]
          [] c.op = "WRITE" /\ tag.sector = 0 /\ ~T2tProtected(tag, c.blk) ->
               [tag |-> [heard EXCEPT !.mem = Overlay(@, c.blk * BLOCK, c.data)],
                rsp |-> Rsp("ack", NoData)]
          [] OTHER -> [tag |-> [heard EXCEPT !.halted = TRUE], rsp |-> Rsp("nack", NoData)]
T2tNdefOf(tag) == IF tag.mem[12] = NMN THEN TlvNdef(tag.mem, FIRST_DATA * BLOCK, {}) ELSE NoNdef
=============================================================================
