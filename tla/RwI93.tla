------------------------------- MODULE RwI93 --------------------------------
(***************************************************************************)
(* Type 5 tags (ISO 15693 vicinity cards): rw_i93.cc, and the tag.         *)
(*                                                                         *)
(* A card is a row of blocks, each of which can be locked; block 0 has the *)
(* capability container, the TLVs are behind it.  What a card can do is    *)
(* guessed from its identifier, from its answer to GET_SYSTEM_INFO and     *)
(* from the container, and an operation begins by asking for what is not   *)
(* known yet.                                                              *)
(*                                                                         *)
(* uid is a record: whether it is known (its first byte is 0xE0), the      *)
(* manufacturer, and the product its next byte names.  The IC reference is *)
(* a record too: the product, and whether the bit that takes READ_MULTIPLE *)
(* away is set.  The extended forms of the block commands (two bytes for a *)
(* block number) do what the short ones do and have the same names here.   *)
(***************************************************************************)
EXTENDS RwCommon
LOCAL INSTANCE SequencesExt

CONSTANTS
    I93_READ_MULTI_SIZE,   \* RW_I93_READ_MULTI_BLOCK_SIZE: bytes of one read
    I93_STM_SECTOR,        \* I93_STM_BLOCKS_PER_SECTOR: no read crosses one
    I93_SEC_SIZE           \* RW_I93_GET_MULTI_BLOCK_SEC_SIZE

ASSUME I93Assumption ==
    {I93_READ_MULTI_SIZE, I93_STM_SECTOR, I93_SEC_SIZE} \subseteq Nat \ {0}

I93_CC_MAGIC == {225, 226}
I93_CC_MAGIC_E2 == 226
I93_FORMAT_DATA_LEN == 8
I93_AFI_LOCATION == 40

I93State == {"NOT_ACTIVATED", "IDLE", "BUSY", "DETECT_NDEF", "READ_NDEF", "UPDATE_NDEF", "FORMAT",
             "SET_READ_ONLY", "PRESENCE_CHECK"}

I93Uid(mfg, code) == [known |-> TRUE, mfg |-> mfg, code |-> code]
I93NoUid == [known |-> FALSE, mfg |-> "NONE", code |-> "NONE"]
I93IcRef(name, mbread) == [name |-> name, mbread |-> mbread]

I93StdPro == {"STD_CHIP", "PRO_CHIP"}
I93TagIt == I93StdPro \union {"PLUS_INLAY", "PLUS_CHIP"}
I93Icode == {"SLI", "SLI_S", "SLI_L"}
I93StmWithSectors == {"LRIS64K", "M24LR64_R", "M24LR04E_R", "M24LR16E_R", "M24LR64E_R"}
I93Stm == I93StmWithSectors \union {"LRI1K", "LRI2K", "LRIS2K", "ST25DVHIK", "ST25DV04K"}
-----------------------------------------------------------------------------
(* The control block.                                                      *)

(* rw_i93_get_product_version.  The Tag-it chips have blocks of one size.  *)
I93ProductVersion(t, uid) ==
    LET version ==
            CASE uid.mfg = "NXP" /\ uid.code \in I93Icode -> uid.code
              [] uid.mfg = "TI" /\ uid.code \in I93TagIt -> uid.code
              [] uid.mfg = "STM" /\ "IC_REF" \in t.info_flags /\ t.ic_reference.name \in I93Stm ->
                   t.ic_reference.name
              [] OTHER -> "UNKNOWN"
        fixed == version \in I93StdPro
    IN  IF t.uid = uid THEN t
        ELSE [t EXCEPT !.uid = uid, !.product_version = version,
                       !.block_size = IF fixed THEN 4 ELSE @, !.num_block = IF fixed THEN 8 ELSE @]

(* tRW_I93_CB after rw_i93_select.                                         *)
I93Select(uid) ==
    I93ProductVersion(
        [state |-> "IDLE", sub |-> "NONE", uid |-> I93NoUid, product_version |-> "UNKNOWN",
         info_flags |-> {}, dsfid |-> 0, afi |-> 0, num_block |-> 0, block_size |-> 0,
         ic_reference |-> I93IcRef("NONE", FALSE), flags |-> {}, sent_cmd |-> "NONE",
         retry_cmd |-> NoCmd, rw_offset |-> 0, rw_length |-> 0, tlv_type |-> NULL_TLV,
         tlv_state |-> "TYPE", tlv_length |-> 0, tlv_start |-> 0, tlv_last |-> 0,
         ndef_length |-> 0, max_ndef_length |-> 0], uid)

(* The chips whose blocks are asked one by one whether they are locked.    *)
I93OneByOne(t) ==
    t.product_version \in I93StdPro \/ (t.uid.mfg = "NXP" /\ t.ic_reference.mbread)

I93NumBlocks(t) == t.num_block * t.block_size
I93BlockOf(t, offset) == offset \div t.block_size
-----------------------------------------------------------------------------
(* Commands.                                                               *)

(* rw_i93_send_to_lower: a copy is kept for the retransmissions.           *)
I93SendToLower(h, c) == Ret(Transmit([h EXCEPT !.t.retry_cmd = c], c), "OK")

I93Send(h, op, blk, data) == [I93SendToLower(h, Cmd(op, blk, data)) EXCEPT !.t.sent_cmd = op]

(* rw_i93_send_cmd_inventory, with or without the identifier of the card.  *)
I93SendInventory(h) == I93Send(h, "INVENTORY", 0, NoData)

(* rw_i93_send_cmd_stay_quiet: the card does not answer.                   *)
I93SendStayQuiet(h) == I93Send(h, "STAY_QUIET", 0, NoData)

(* rw_i93_send_cmd_read_single_block: with a first byte that says whether  *)
(* the block is locked, if asked for.                                      *)
I93SendReadSingle(h, block, read_security) ==
    I93Send(h, "READ_SINGLE_BLOCK", block, [i \in {0} |-> read_security])

(* rw_i93_send_cmd_write_single_block: as many bytes as a block has.       *)
I93SendWriteSingle(h, block, data) ==
    I93Send(h, "WRITE_SINGLE_BLOCK", block, Slice(data, 0, h.t.block_size))

(* rw_i93_send_cmd_lock_block: the number of the block is eight bits wide. *)
I93SendLock(h, block) == I93Send(h, "LOCK_BLOCK", block % 256, NoData)

(* rw_i93_send_cmd_read_multi_blocks.                                      *)
I93SendReadMulti(h, first, n) == I93Send(h, "READ_MULTI_BLOCK", first, Zeros(n))

(* rw_i93_send_cmd_write_multi_blocks: the number of blocks goes out twice *)
(* and the data begin with the second one.                                 *)
I93SendWriteMulti(h, first, n, data) ==
    LET size == n * h.t.block_size
        shifted == [i \in 0..(size - 1) |-> IF i = 0 THEN n - 1 ELSE data[i - 1]]
    IN  I93Send(h, "WRITE_MULTI_BLOCK", first, shifted)

(* rw_i93_send_cmd_select, _reset_to_ready.                                *)
I93SendSelect(h, op) == I93Send(h, op, 0, NoData)

(* rw_i93_send_cmd_write_afi, _lock_afi.                                   *)
I93SendAfi(h, op, afi) == I93Send(h, op, afi, NoData)

(* rw_i93_send_cmd_write_dsfid, _lock_dsfid.                               *)
I93SendDsfid(h, op, dsfid) == I93Send(h, op, dsfid, NoData)

(* rw_i93_send_cmd_get_ext_sys_info.                                       *)
I93SendExtSysInfo(h) == I93Send(h, "EXT_GET_SYS_INFO", 0, NoData)

(* rw_i93_send_cmd_get_sys_info: the protocol extension makes the number of*)
(* blocks 16 bits wide.                                                    *)
I93SendSysInfo(h, prot_ext) == I93Send(h, "GET_SYS_INFO", IF prot_ext THEN 1 ELSE 0, NoData)

(* rw_i93_send_cmd_get_multi_block_sec.                                    *)
I93SendMultiSec(h, first, n) == I93Send(h, "GET_MULTI_BLK_SEC", first, Zeros(n))

(* rw_i93_get_next_blocks: as many as one answer takes, and from one sector*)
(* of the cards that have some.                                            *)
I93GetNextBlocks(h, offset) ==
    LET t == h.t
        first == I93BlockOf(t, offset)
        n == I93_READ_MULTI_SIZE \div t.block_size
        inside == IF n + first > t.num_block THEN t.num_block - first ELSE n
        few == IF inside > I93_STM_SECTOR THEN I93_STM_SECTOR ELSE inside
        sector(b) == b \div I93_STM_SECTOR
        count == IF t.uid.mfg # "STM" \/ t.product_version \notin I93StmWithSectors THEN inside
                 ELSE IF sector(first) # sector(first + few - 1)
                        THEN I93_STM_SECTOR - (first % I93_STM_SECTOR)
                 ELSE few
    IN  IF "READ_MULTI_BLOCK" \in t.flags THEN I93SendReadMulti(h, first, count)
        ELSE I93SendReadSingle(h, first, FALSE)

(* rw_i93_get_next_block_sec: rw_offset counts blocks here.                *)
I93GetNextBlockSec(h) ==
    LET left == h.t.num_block - h.t.rw_offset
    IN  IF left <= 0 THEN Ret(h, "FAILED")
        ELSE I93SendMultiSec(h, h.t.rw_offset, IF left > I93_SEC_SIZE THEN I93_SEC_SIZE ELSE left)

I93Wait(h, sub) == [h EXCEPT !.t.sub = sub]
-----------------------------------------------------------------------------
(* The end of an operation.                                                *)

I93Idle(h) == [h EXCEPT !.t.state = "IDLE", !.t.sent_cmd = "NONE"]

I93Done(h, event, status) == Report(I93Idle(h), RwEvt(event, status))

(* rw_i93_handle_error.  A card that was told to stay quiet has obeyed.    *)
I93HandleError(h0, status) ==
    LET h == StopTimer(h0)
    IN  CASE h.t.state = "IDLE" -> I93Done(h, "INTF_ERROR", status)
          [] h.t.state = "BUSY" ->
               IF h.t.sent_cmd = "STAY_QUIET" THEN I93Done(h, "CMD_CMPL", "OK")
               ELSE I93Done(h, "INTF_ERROR", status)
          [] h.t.state = "DETECT_NDEF" ->
               Report(I93Idle(h), DetectEvt(status, {"FORMATABLE", "UNKNOWN"}, 0, 0))
          [] h.t.state = "READ_NDEF" -> I93Done(h, "READ_FAIL", status)
          [] h.t.state = "UPDATE_NDEF" -> I93Done(h, "UPDATE_FAIL", status)
          [] h.t.state = "FORMAT" -> I93Done(h, "FORMAT_CPLT", status)
          [] h.t.state = "SET_READ_ONLY" -> I93Done(h, "SET_TAG_RO", status)
          [] h.t.state = "PRESENCE_CHECK" -> I93Done(h, "PRESENCE_CHECK", status)
          [] OTHER -> I93Idle(h)

(* Wait for the answer of what was sent, or fail.                          *)
I93Then(h, sub) == IF h.ret = "OK" THEN I93Wait(h, sub) ELSE I93HandleError(h, "FAILED")
-----------------------------------------------------------------------------
(* What the card says of itself.                                           *)

(* What both answers have in common; r is the answer.  wide says that the  *)
(* host takes the number of blocks for one of 16 bits: the rest of an      *)
(* answer that has one is read a byte too early when it does not.          *)
I93TakeInfo(t, r, wide) ==
    LET early == r.wide /\ ~wide
        high == (r.num_block - 1) \div 256
    IN  [t EXCEPT
           !.info_flags = r.flags,
           !.dsfid = IF "DSFID" \in r.flags THEN r.dsfid ELSE @,
           !.afi = IF "AFI" \in r.flags THEN r.afi ELSE @,
           !.num_block = IF "MEM_SIZE" \notin r.flags THEN @
                         ELSE IF early THEN ((r.num_block - 1) % 256) + 1 ELSE r.num_block,
           !.block_size = IF "MEM_SIZE" \notin r.flags THEN @
                          ELSE IF early THEN (high % 32) + 1 ELSE r.block_size,
           !.ic_reference = IF "IC_REF" \notin r.flags THEN @
                            ELSE IF early THEN I93IcRef("NONE", FALSE) ELSE r.ic_reference]

I93TakeReference(t, r) == I93ProductVersion([t EXCEPT !.uid = I93NoUid], r.uid)

(* rw_i93_process_ext_sys_info.                                            *)
I93ProcessExtSysInfo(h, r) ==
    LET t == I93TakeInfo(h.t, r, TRUE)
        Ext(t1) == IF t1.uid.known /\ t1.uid.mfg = "STM" THEN [t1 EXCEPT !.flags = @ \union {"EXT"}]
                   ELSE t1
    IN  [h EXCEPT !.t = IF "IC_REF" \in r.flags THEN Ext(I93TakeReference(t, r)) ELSE t]

(* rw_i93_process_sys_info.  The result is FAILED when the card was asked  *)
(* once more, in another form.                                             *)
I93ProcessSysInfo(h0, r) ==
    LET Sized(h, n) == Ret([h EXCEPT !.t.num_block = n, !.t.block_size = 4], "OK")
        Again(h, flag) == Ret([h EXCEPT !.t.flags = @ \union {flag}], "FAILED")
        Stm(t, versions) == t.uid.mfg = "STM" /\ t.product_version \in versions
        Wide == {"M24LR16E_R", "M24LR64E_R"}
        Referred(h) ==
            CASE "IC_REF" \notin r.flags \/ ~h.t.uid.known -> Ret(h, "OK")
              [] h.t.uid.mfg = "NXP" /\ h.t.ic_reference.name = "SLI_L" -> Sized(h, 8)
              [] Stm(h.t, Wide) -> IF "16BIT" \in h.t.flags THEN Ret(h, "OK")
                                   ELSE Again(I93SendSysInfo(h, TRUE), "16BIT")
              [] Stm(h.t, {"LRI2K"}) -> Sized(h, 64)
              [] /\ h.t.uid.mfg = "STM" /\ h.t.product_version \notin Wide \union {"LRI2K"}
                 /\ "MEM_SIZE" \notin r.flags /\ "EXT" \notin h.t.flags ->
                   Again(I93SendExtSysInfo(h), "EXT")
              [] OTHER -> Ret(h, "OK")
        Known(t) == IF "IC_REF" \in r.flags THEN I93TakeReference(t, r) ELSE t
    IN  Referred([h0 EXCEPT !.t = Known(I93TakeInfo(@, r, "16BIT" \in @.flags))])

(* rw_i93_check_sys_info_prot_ext: the error of cards with many blocks.    *)
I93CheckProtExt(h, code) ==
    h.t.uid.mfg = "STM" /\ h.t.sent_cmd = "GET_SYS_INFO" /\ code = "OPTION_NOT_SUPPORTED"

I93AskWithProtExt(h) == [I93SendSysInfo(h, TRUE) EXCEPT !.t.flags = @ \union {"16BIT"}]

(* rw_i93_send_to_upper: the answer to a command of the application.       *)
I93SendToUpper(h, rsp) ==
    LET sent == h.t.sent_cmd
        Up(k, event) == Report([k EXCEPT !.t.sent_cmd = "NONE"], RwEvt(event, "OK"))
        Info(k) == IF k.ret = "OK" THEN Up(k, "SYS_INFO") ELSE [k EXCEPT !.t.state = "BUSY"]
        busy == [h EXCEPT !.t.state = "BUSY"]
    IN  CASE rsp.kind = "error" ->
               IF I93CheckProtExt(h, rsp.data) THEN I93AskWithProtExt(busy)
               ELSE Report([h EXCEPT !.t.sent_cmd = "NONE"], RwEvt("CMD_CMPL", "FAILED"))
          [] rsp.kind # "error" /\ sent = "INVENTORY" ->
               Up([h EXCEPT !.t = I93ProductVersion(@, rsp.data.uid)], "INVENTORY")
          [] rsp.kind # "error" /\ sent \in {"READ_SINGLE_BLOCK", "READ_MULTI_BLOCK",
                                             "GET_MULTI_BLK_SEC"} -> Up(h, "DATA")
          [] rsp.kind # "error" /\ sent = "GET_SYS_INFO" ->
               Info(I93ProcessSysInfo(h, rsp.data))
          [] rsp.kind # "error" /\ sent = "EXT_GET_SYS_INFO" ->
               Up(I93ProcessExtSysInfo(h, rsp.data), "SYS_INFO")
          [] rsp.kind # "error" /\ sent \in {"STAY_QUIET", "NONE"} ->
               [h EXCEPT !.t.sent_cmd = "NONE"]
          [] OTHER -> Up(h, "CMD_CMPL")

-----------------------------------------------------------------------------
(* Detection.                                                              *)

(* The search for the NDEF TLV in the bytes of one answer, which goes on   *)
(* in the next one.  skip is the next byte to look at, stop says why the   *)
(* loop ended.                                                             *)
I93ScanByte(t0, data, s, xx) ==
    LET t == s.t
        byte == data[xx]
        left == Size(data) - xx
        To(state) == [s EXCEPT !.t.tlv_state = state]
        Value(len, field) ==
            IF t.tlv_type = NDEF_TLV
              THEN [s EXCEPT !.t.tlv_state = "VALUE", !.t.tlv_length = len, !.stop = "BREAK",
                             !.t.tlv_last = t.tlv_start + field + len]
            ELSE [s EXCEPT !.t.tlv_state = "VALUE", !.t.tlv_length = len]
    IN  CASE s.stop # "NO" \/ xx < s.skip -> s
          [] OTHER ->
        CASE t.tlv_state = "TYPE" ->
               CASE byte = NULL_TLV -> s
                 [] byte \in {NDEF_TLV, PROPRIETARY_TLV} ->
                      [s EXCEPT !.t.tlv_type = byte, !.t.tlv_start = t0.rw_offset + xx,
                                !.t.tlv_state = "LENGTH_1"]
                 [] byte = TERMINATOR_TLV -> [s EXCEPT !.t.tlv_type = byte, !.stop = "BREAK"]
                 [] OTHER -> [s EXCEPT !.stop = "ERROR"]
          [] t.tlv_state = "LENGTH_1" ->
               IF byte = LONG_LEN_BYTE0 THEN To("LENGTH_2") ELSE Value(byte, 1)
          [] t.tlv_state = "LENGTH_2" -> [To("LENGTH_3") EXCEPT !.t.tlv_length = byte]
          [] t.tlv_state = "LENGTH_3" -> Value((t.tlv_length * 256) + byte, 3)
          [] OTHER ->
               IF t.tlv_length <= left
                 THEN [To("TYPE") EXCEPT !.skip = xx + t.tlv_length + 1]
               ELSE [s EXCEPT !.t.tlv_length = @ - left, !.stop = "BREAK"]

I93Scan(t, data) ==
    Loop(LAMBDA s, xx : I93ScanByte(t, data, s, xx), [t |-> t, skip |-> 0, stop |-> "NO"],
         Size(data))

(* An NDEF TLV was found: are its blocks locked?  Otherwise the search goes*)
(* on, to the end of the card.                                             *)
I93Scanned(h, data, t, stop) ==
    LET found == t.tlv_type = NDEF_TLV /\ t.tlv_state = "VALUE"
        h1 == [h EXCEPT !.t = [t EXCEPT !.ndef_length = IF found THEN t.tlv_length ELSE @,
                                        !.rw_offset = CASE ~found -> @ + Size(data)
                                                        [] found /\ I93OneByOne(t) -> t.tlv_start
                                                        [] OTHER -> 0]]
    IN  CASE stop = "ERROR" -> I93HandleError([h EXCEPT !.t = t], "FAILED")
          [] stop # "ERROR" /\ found ->
               IF I93OneByOne(t)
                 THEN I93Wait(I93SendReadSingle(h1, I93BlockOf(t, t.tlv_start), TRUE),
                              "CHECK_LOCK_STATUS")
               ELSE I93Then(I93GetNextBlockSec(h1), "CHECK_LOCK_STATUS")
          [] OTHER ->
               IF h1.t.rw_offset >= I93NumBlocks(t) THEN I93HandleError(h1, "FAILED")
               ELSE I93Then(I93GetNextBlocks(h1, h1.t.rw_offset), "SEARCH_NDEF_TLV")

I93SearchNdefTlv(h, data) ==
    LET Continue(scan) == I93Scanned(h, data, scan.t, scan.stop)
    IN  Continue(I93Scan(h.t, data))

(* The end of the detection.                                               *)
I93Detected(h) ==
    LET t == h.t
        max == IF ~IsLong(t.ndef_length) /\ IsLong(t.max_ndef_length) THEN t.max_ndef_length - 2
               ELSE t.max_ndef_length
        flags == {"SUPPORTED", "FORMATED", "FORMATABLE"}
        evt == IF "READ_ONLY" \in t.flags
                 THEN DetectEvt("OK", flags \union {"READ_ONLY"}, t.ndef_length, t.ndef_length)
               ELSE DetectEvt("OK", flags \union {"HARD_LOCKABLE"}, t.ndef_length, max)
    IN  Report(I93Idle([h EXCEPT !.t.max_ndef_length = max]), evt)

(* The lock status of one block: on to the next one, until one is locked.  *)
I93CheckLockOfBlock(h, locked) ==
    LET t == h.t
        block == I93BlockOf(t, t.rw_offset)
        last == I93BlockOf(t, t.tlv_last)
        next == [h EXCEPT !.t.rw_offset = @ + t.block_size]
        done == [h EXCEPT !.t.flags = IF locked /\ block <= last THEN @ \union {"READ_ONLY"} ELSE @,
                          !.t.max_ndef_length =
                              t.ndef_length + (t.block_size * (block - last) + 1)
                                - (t.tlv_last % t.block_size) - 1]
    IN  IF ~locked /\ block + 1 < t.num_block
          THEN I93SendReadSingle(next, I93BlockOf(t, next.t.rw_offset), TRUE)
        ELSE I93Detected(done)

(* The lock status of many blocks: those up to the end of the message, then*)
(* those it may grow into.                                                 *)
I93CheckLockOfBlocks(h, data) ==
    LET t == h.t
        start == t.rw_offset = 0
        last == I93BlockOf(t, t.tlv_last)
        first == IF start THEN I93BlockOf(t, t.tlv_start) ELSE 0
        blocks == first..(Size(data) - 1)
        Locked(b) == data[b] % 2 = 1
        stop == {b \in blocks : Locked(b)}
        before == IF stop = {} THEN blocks ELSE first..(FirstOf(stop) - 1)
        ro == stop # {} /\ FirstOf(stop) + t.rw_offset <= last
        free == {b \in before : b + t.rw_offset > last}
        base == IF start THEN t.ndef_length + t.block_size - (t.tlv_last % t.block_size) - 1
                ELSE t.max_ndef_length
        h1 == [h EXCEPT !.t.max_ndef_length = base + t.block_size * Cardinality(free),
                        !.t.flags = IF ro THEN @ \union {"READ_ONLY"} ELSE @,
                        !.t.rw_offset = @ + Size(data)]
    IN  IF h1.t.num_block > h1.t.rw_offset THEN I93Then(I93GetNextBlockSec(h1), h1.t.sub)
        ELSE I93Detected(h1)

(* The capability container: who may read and write, and what the card can *)
(* do.  A container of eight bytes has no size in the first four.          *)
I93TakeCc(h, cc) ==
    LET ok == cc[0] \in I93_CC_MAGIC /\ (cc[1] \div 4) % 4 = 0
        flags == h.t.flags \union (IF cc[1] % 4 # 0 THEN {"READ_ONLY"} ELSE {})
                   \union (IF Bit(cc[3], 0) THEN {"READ_MULTI_BLOCK"} ELSE {})
                   \union (IF cc[0] = I93_CC_MAGIC_E2 THEN {"EXT"} ELSE {})
        h1 == [h EXCEPT !.t.flags = flags, !.t.rw_offset = IF cc[2] # 0 THEN 4 ELSE 8]
    IN  IF ~ok THEN I93HandleError(h, "FAILED")
        ELSE I93Then(I93GetNextBlocks([h1 EXCEPT !.t.tlv_state = "TYPE"], h1.t.rw_offset),
                     "SEARCH_NDEF_TLV")

(* The answer to a GET_SYSTEM_INFO of an operation.                        *)
I93AskedAnew(h, r) ==
    I93ProcessSysInfo([h EXCEPT !.t.block_size = 0, !.t.num_block = 0], r)

I93HasNoSize(t) == t.block_size = 0 \/ t.num_block = 0

(* rw_i93_sm_detect_ndef.                                                  *)
I93SmDetectNdef(h, rsp) ==
    LET sub == h.t.sub
        data == rsp.data
        Sized(k) == CASE k.ret # "OK" -> k
                      [] k.ret = "OK" /\ I93HasNoSize(k.t) -> I93HandleError(k, "FAILED")
                      [] OTHER -> I93Wait(I93SendReadSingle(k, 0, FALSE), "WAIT_CC")
    IN  CASE rsp.kind = "error" ->
               IF I93CheckProtExt(h, data) THEN I93AskWithProtExt(h) ELSE I93HandleError(h, "FAILED")
          [] rsp.kind # "error" /\ sub = "WAIT_UID" ->
               IF data.dsfid # 0 THEN I93HandleError([h EXCEPT !.t.uid = data.uid], "FAILED")
               ELSE I93Wait(I93SendSysInfo([h EXCEPT !.t.uid = data.uid], FALSE), "WAIT_SYS_INFO")
          [] rsp.kind # "error" /\ sub = "WAIT_SYS_INFO" -> Sized(I93AskedAnew(h, data))
          [] rsp.kind # "error" /\ sub = "WAIT_CC" -> I93TakeCc(h, data)
          [] rsp.kind # "error" /\ sub = "SEARCH_NDEF_TLV" -> I93SearchNdefTlv(h, data)
          [] OTHER ->
               IF I93OneByOne(h.t) THEN I93CheckLockOfBlock(h, Bit(data[0], 0))
               ELSE I93CheckLockOfBlocks(h, data)
-----------------------------------------------------------------------------
(* Reading.                                                                *)

(* rw_i93_sm_read_ndef.  The first bytes read are the type and the length. *)
I93SmReadNdef(h, rsp) ==
    LET t == h.t
        n == Size(rsp.data)
        header == IF IsLong(t.ndef_length) THEN 4 ELSE 2
        skip == IF t.rw_length = 0
                  THEN (t.tlv_start % t.block_size) + header - (t.rw_offset - t.tlv_start)
                ELSE 0
        got == IF skip < n THEN n - skip ELSE 0
        rest == t.ndef_length - t.rw_length
        use == IF got > rest THEN rest ELSE got
        h1 == [h EXCEPT !.t.rw_length = @ + got,
                        !.buf = @ \o [i \in 1..use |-> rsp.data[skip + i - 1]]]
        h2 == IF got > 0 THEN Report(h1, RwEvt("NDEF_READ", "OK")) ELSE h1
        h3 == [h2 EXCEPT !.t.rw_offset = @ + n]
    IN  CASE rsp.kind = "error" -> I93HandleError(h, "FAILED")
          [] rsp.kind # "error" /\ h1.t.rw_length >= t.ndef_length -> I93Done(h1, "READ_CPLT", "OK")
          [] OTHER -> I93Then(I93GetNextBlocks(h3, h3.t.rw_offset), t.sub)
-----------------------------------------------------------------------------
(* Writing: the length is cleared, the message written, the length set.    *)

(* The Tag-it chips say that a write failed when it did not.  (That such an*)
(* answer is not empty is left out: it is taken for a block only where the *)
(* length field crosses one.)                                              *)
I93Answer(h, rsp) ==
    IF rsp.kind = "error" /\ h.t.product_version \in I93TagIt /\ rsp.data = "BLOCK_FAIL_TO_WRITE"
      THEN Rsp("ack", NoData)
    ELSE rsp

(* The block of the length field was read: the field says 0 from now on,   *)
(* and the message begins behind it.                                       *)
I93ResetLen(h, data) ==
    LET t == h.t
        block == I93BlockOf(t, t.tlv_start + 1)
        at == (t.tlv_start + 1) % t.block_size
        from == at + LenFieldLen(t.ndef_length)
        room == IF t.ndef_length > 0 /\ from < t.block_size THEN t.block_size - from ELSE 0
        n == IF room > t.ndef_length THEN t.ndef_length ELSE room
        new == [i \in 0..(t.block_size - 1) |->
                  CASE i = at -> 0
                    [] i # at /\ room > 0 /\ i >= from + n -> NULL_TLV
                    [] i # at /\ room > 0 /\ i >= from /\ i < from + n -> h.new[i - from]
                    [] OTHER -> data[i]]
        h1 == [h EXCEPT !.t.rw_length = n, !.t.rw_offset = (block + 1) * t.block_size]
    IN  I93Wait(I93SendWriteSingle(h1, block, new), "WRITE_NDEF")

(* The length field is written last, in the bytes that rw_length counts.   *)
I93BeginUpdateLen(h) ==
    LET len == h.t.ndef_length
        bytes == CASE IsLong(len) -> 3
                   [] ~IsLong(len) /\ len > 0 -> 1
                   [] OTHER -> 0
        h1 == I93SendReadSingle(h, I93BlockOf(h.t, h.t.tlv_start + 1), FALSE)
    IN  I93Wait([h1 EXCEPT !.t.rw_offset = h.t.tlv_start + 1, !.t.rw_length = bytes], "UPDATE_LEN")

(* The next block of the message, or the terminator behind it.  Where the  *)
(* message ends is noted only when it does not fill its last block.        *)
I93WriteNdef(h) ==
    LET t == h.t
        block == I93BlockOf(t, t.rw_offset)
        left == t.ndef_length - t.rw_length
        n == IF left < t.block_size THEN left ELSE t.block_size
        next == t.rw_offset + t.block_size
        end == next >= I93NumBlocks(t)
        new == [i \in 0..(t.block_size - 1) |->
                  CASE i < n -> h.new[t.rw_length + i]
                    [] i = n /\ end -> TERMINATOR_TLV
                    [] OTHER -> NULL_TLV]
        term == [i \in 0..(t.block_size - 1) |-> IF i = 0 THEN TERMINATOR_TLV ELSE NULL_TLV]
        moved == [h EXCEPT !.t.rw_offset = next]
        written == [moved EXCEPT !.t.rw_length = @ + t.block_size,
                                 !.t.tlv_last = IF n < t.block_size THEN t.rw_offset + n - 1 ELSE @]
    IN  IF t.rw_offset < I93NumBlocks(t)
          THEN CASE left > 0 -> I93SendWriteSingle(written, block, new)
                 [] left <= 0 /\ block = I93BlockOf(t, t.tlv_last) + 1 ->
                      I93SendWriteSingle(moved, block, term)
                 [] OTHER -> I93BeginUpdateLen(h)
        ELSE IF left <= 0 THEN I93BeginUpdateLen(h)
        ELSE I93HandleError(h, "FAILED")

(* A block is read, the bytes of the length that are in it are set, the    *)
(* block is written; so is the next one, if there are bytes left.          *)
I93UpdateLen(h, data) ==
    LET t == h.t
        block == I93BlockOf(t, t.rw_offset)
        at == t.rw_offset % t.block_size
        n == IF t.rw_length > t.block_size - at THEN t.block_size - at ELSE t.rw_length
        field == LenField(t.ndef_length)
        done == Size(field) - t.rw_length
        new == [i \in 0..(t.block_size - 1) |->
                  IF i >= at /\ i < at + n THEN field[done + i - at] ELSE data[i]]
        h1 == [h EXCEPT !.t.rw_length = @ - n, !.t.rw_offset = @ + t.block_size - at]
    IN  CASE t.rw_length = 0 -> I93Done(h, "UPDATE_CPLT", "OK")
          [] t.rw_length > 0 /\ Size(data) = 0 -> I93SendReadSingle(h, block, FALSE)
          [] OTHER -> I93SendWriteSingle(h1, block, new)

(* rw_i93_sm_update_ndef.                                                  *)
I93SmUpdateNdef(h, rsp0) ==
    LET rsp == I93Answer(h, rsp0)
    IN  CASE rsp.kind = "error" -> I93HandleError(h, "FAILED")
          [] rsp.kind # "error" /\ h.t.sub = "RESET_LEN" -> I93ResetLen(h, rsp.data)
          [] rsp.kind # "error" /\ h.t.sub = "WRITE_NDEF" -> I93WriteNdef(h)
          [] OTHER -> I93UpdateLen(h, rsp.data)
-----------------------------------------------------------------------------
(* Formatting.                                                             *)

(* What is checked first: that no block is locked.                         *)
I93BeginCheckReadOnly(h) ==
    LET h1 == [h EXCEPT !.t.rw_offset = 0]
        sent == IF h.t.uid.mfg = "NXP" /\ h.t.ic_reference.mbread THEN I93SendReadSingle(h1, 0, TRUE)
                ELSE I93GetNextBlockSec(h1)
    IN  I93Then(sent, "CHECK_READ_ONLY")

(* The data format and the application family are reset first.             *)
I93ResetIds(h) ==
    CASE "RESET_DSFID" \in h.t.flags ->
           I93Wait(I93SendDsfid(h, "WRITE_DSFID", 0), "WAIT_RESET_DSFID_AFI")
      [] "RESET_DSFID" \notin h.t.flags /\ "RESET_AFI" \in h.t.flags ->
           I93Wait(I93SendAfi(h, "WRITE_AFI", 0), "WAIT_RESET_DSFID_AFI")
      [] OTHER -> I93BeginCheckReadOnly(h)

(* The container and an empty NDEF TLV.                                    *)
I93FormatData(t) ==
    LET size == (t.num_block * t.block_size) \div 8
        features ==
            CASE t.product_version \in I93Icode -> IF t.ic_reference.mbread THEN 2 ELSE 1
              [] t.product_version \in I93TagIt -> IF t.product_version \in I93StdPro THEN 0 ELSE 1
              [] OTHER -> CASE size > 255 -> 5
                            [] size <= 255 /\ t.product_version = "LRIS2K" -> 0
                            [] OTHER -> 1
    IN  [i \in 0..(I93_FORMAT_DATA_LEN - 1) |->
           <<225, 64, IF size < 256 THEN size ELSE 255, features,
             NDEF_TLV, 0, TERMINATOR_TLV, NULL_TLV>>[i + 1]]

I93WriteFormat(h) ==
    LET t == h.t
        h1 == I93SendWriteSingle(h, I93BlockOf(t, t.rw_offset),
                                 [i \in 0..(t.block_size - 1) |-> I93FormatData(t)[t.rw_offset + i]])
    IN  I93Wait([h1 EXCEPT !.t.rw_offset = @ + t.block_size], "WRITE_CC_NDEF_TLV")

I93BeginWriteFormat(h) == I93WriteFormat([h EXCEPT !.t.rw_offset = 0])

(* One block is not locked: the next one; the Tag-it chips have another    *)
(* one for the application family.                                         *)
I93FormatCheckBlock(h, locked) ==
    LET t == h.t
        std_pro == t.product_version \in I93StdPro
        last == I93BlockOf(t, t.rw_offset) + 1 = t.num_block
        Next(offset) == I93SendReadSingle([h EXCEPT !.t.rw_offset = offset],
                                          I93BlockOf(t, offset), TRUE)
    IN  CASE locked -> I93HandleError(h, "FAILED")
          [] ~locked /\ last -> IF std_pro THEN Next(I93_AFI_LOCATION) ELSE I93BeginWriteFormat(h)
          [] ~locked /\ ~last /\ t.rw_offset = I93_AFI_LOCATION -> I93BeginWriteFormat(h)
          [] OTHER -> Next(t.rw_offset + t.block_size)

(* Many blocks.  A locked one ends the operation, yet the code goes on: it *)
(* asks for the next blocks or writes, though nothing waits for it.        *)
I93FormatCheckBlocks(h, data) ==
    LET locked == \E b \in DOMAIN data : data[b] % 2 = 1
        Next(h1) == IF h1.t.num_block > h1.t.rw_offset THEN I93Then(I93GetNextBlockSec(h1), h1.t.sub)
                    ELSE I93BeginWriteFormat(h1)
    IN  Next([(IF locked THEN I93HandleError(h, "FAILED") ELSE h)
                 EXCEPT !.t.rw_offset = @ + Size(data)])

(* rw_i93_sm_format.                                                       *)
I93FormatAnswer(h, rsp) ==
    LET sub == h.t.sub
        Wanted(t) == (IF "DSFID" \in t.info_flags /\ t.dsfid # 0 THEN {"RESET_DSFID"} ELSE {})
                       \union (IF "AFI" \in t.info_flags /\ t.afi # 0 THEN {"RESET_AFI"} ELSE {})
        Sized(k) == CASE k.ret # "OK" -> k
                      [] k.ret = "OK" /\ I93HasNoSize(k.t) -> I93HandleError(k, "FAILED")
                      [] OTHER -> I93ResetIds([k EXCEPT !.t.flags = @ \union Wanted(k.t)])
        reset == CASE h.t.sent_cmd = "WRITE_DSFID" -> {"RESET_DSFID"}
                   [] h.t.sent_cmd = "WRITE_AFI" -> {"RESET_AFI"}
                   [] OTHER -> {}
    IN  CASE rsp.kind = "error" ->
               IF I93CheckProtExt(h, rsp.data) THEN I93AskWithProtExt(h)
               ELSE I93HandleError(h, "FAILED")
          [] rsp.kind # "error" /\ sub = "WAIT_UID" ->
               I93Wait(I93SendSysInfo([h EXCEPT !.t.uid = rsp.data.uid], FALSE), "WAIT_SYS_INFO")
          [] rsp.kind # "error" /\ sub = "WAIT_SYS_INFO" -> Sized(I93AskedAnew(h, rsp.data))
          [] rsp.kind # "error" /\ sub = "WAIT_RESET_DSFID_AFI" ->
               I93ResetIds([h EXCEPT !.t.flags = @ \ reset])
          [] rsp.kind # "error" /\ sub = "CHECK_READ_ONLY" ->
               IF I93OneByOne(h.t) THEN I93FormatCheckBlock(h, Bit(rsp.data[0], 0))
               ELSE I93FormatCheckBlocks(h, rsp.data)
          [] OTHER -> IF h.t.rw_offset < I93_FORMAT_DATA_LEN THEN I93WriteFormat(h)
                      ELSE I93Done(h, "FORMAT_CPLT", "OK")

I93SmFormat(h, rsp) == I93FormatAnswer(h, I93Answer(h, rsp))
-----------------------------------------------------------------------------
(* rw_i93_sm_set_read_only: the container says so, then the blocks from the*)
(* start of the TLV to the end of the message are locked, and block 0.     *)
I93SmSetReadOnly(h, rsp0) ==
    LET rsp == I93Answer(h, rsp0)
        t == h.t
        sub == t.sub
        Lock(offset) == [I93SendLock(h, I93BlockOf(t, offset)) EXCEPT !.t.rw_offset =
                            offset + t.block_size]
        done == I93Done([h EXCEPT !.t.flags = @ \union {"READ_ONLY"}], "SET_TAG_RO", "OK")
    IN  CASE rsp.kind = "error" -> I93HandleError(h, "FAILED")
          [] rsp.kind # "error" /\ sub = "WAIT_CC" ->
               I93Wait(I93SendWriteSingle(h, 0, [rsp.data EXCEPT ![1] = SetLowBits(@, 2)]),
                       "WAIT_UPDATE_CC")
          [] rsp.kind # "error" /\ sub = "WAIT_UPDATE_CC" ->
               I93Wait(Lock(t.tlv_start), "LOCK_NDEF_TLV")
          [] rsp.kind # "error" /\ sub = "LOCK_NDEF_TLV" ->
               CASE t.rw_offset < t.tlv_last -> Lock(t.rw_offset)
                 [] t.rw_offset >= t.tlv_last /\ I93BlockOf(t, t.tlv_start) # 0 ->
                      I93Wait(I93SendLock(h, 0), "WAIT_LOCK_CC")
                 [] OTHER -> done
          [] OTHER -> done
-----------------------------------------------------------------------------
(* rw_i93_data_cback and the timer.                                        *)

(* The command is not sent again.                                          *)
I93FreeRetry(h) ==
    IF h.t.retry_cmd = NoCmd THEN h ELSE [h EXCEPT !.t.retry_cmd = NoCmd, !.retry = 0]

I93Retry(h) == I93SendToLower([h EXCEPT !.retry = @ + 1], h.t.retry_cmd)

(* rw_i93_process_timeout.                                                 *)
I93Timeout(h) ==
    IF h.retry < RW_MAX_RETRIES /\ h.t.retry_cmd # NoCmd /\ h.t.sent_cmd # "STAY_QUIET"
      THEN I93Retry(h)
    ELSE I93HandleError(I93FreeRetry(h), "TIMEOUT")

(* NFC_ERROR_CEVT, and data with a bad status.                             *)
I93Error(h0) ==
    LET h == StopTimer(h0)
    IN  IF h.retry < RW_MAX_RETRIES /\ h.t.retry_cmd # NoCmd THEN I93Retry(h)
        ELSE I93HandleError(I93FreeRetry(h), "FAILED")

I93Deactivated(h) == [I93FreeRetry(StopTimer(h)) EXCEPT !.t.state = "NOT_ACTIVATED"]

(* An answer.                                                              *)
I93Data(h0, rsp) ==
    LET h == I93FreeRetry(StopTimer(h0))
    IN  CASE h.t.state = "IDLE" ->
               Report([h EXCEPT !.t.sent_cmd = "NONE"], RwEvt("RAW_FRAME", "OK"))
          [] h.t.state = "BUSY" -> I93SendToUpper([h EXCEPT !.t.state = "IDLE"], rsp)
          [] h.t.state = "DETECT_NDEF" -> I93SmDetectNdef(h, rsp)
          [] h.t.state = "READ_NDEF" -> I93SmReadNdef(h, rsp)
          [] h.t.state = "UPDATE_NDEF" -> I93SmUpdateNdef(h, rsp)
          [] h.t.state = "FORMAT" -> I93SmFormat(h, rsp)
          [] h.t.state = "SET_READ_ONLY" -> I93SmSetReadOnly(h, rsp)
          [] h.t.state = "PRESENCE_CHECK" -> I93Done(h, "PRESENCE_CHECK", "OK")
          [] OTHER -> h
-----------------------------------------------------------------------------
(* The functions NFA RW calls.                                             *)

(* Those that send one command and pass the answer on.                     *)
I93Api(h, sent) ==
    IF h.t.state # "IDLE" THEN Ret(h, "BUSY") ELSE [sent EXCEPT !.t.state = "BUSY"]

I93ApiWrite(h, sent) ==
    IF h.t.state = "IDLE" /\ h.t.block_size = 0 THEN Ret(h, "FAILED") ELSE I93Api(h, sent)

RW_I93Inventory(h) == I93Api(h, I93SendInventory(h))
RW_I93StayQuiet(h) == I93Api(h, I93SendStayQuiet(h))
RW_I93ReadSingleBlock(h, block) == I93Api(h, I93SendReadSingle(h, block, FALSE))
RW_I93WriteSingleBlock(h, block, data) == I93ApiWrite(h, I93SendWriteSingle(h, block, data))
RW_I93LockBlock(h, block) == I93Api(h, I93SendLock(h, block))
RW_I93ReadMultipleBlocks(h, first, n) == I93Api(h, I93SendReadMulti(h, first, n))
RW_I93WriteMultipleBlocks(h, first, n, data) == I93ApiWrite(h, I93SendWriteMulti(h, first, n, data))
RW_I93Select(h) == I93Api(h, I93SendSelect(h, "SELECT"))
RW_I93ResetToReady(h) == I93Api(h, I93SendSelect(h, "RESET_TO_READY"))
RW_I93WriteAFI(h, afi) == I93Api(h, I93SendAfi(h, "WRITE_AFI", afi))
RW_I93LockAFI(h) == I93Api(h, I93SendAfi(h, "LOCK_AFI", 0))
RW_I93WriteDSFID(h, dsfid) == I93Api(h, I93SendDsfid(h, "WRITE_DSFID", dsfid))
RW_I93LockDSFID(h) == I93Api(h, I93SendDsfid(h, "LOCK_DSFID", 0))
RW_I93GetSysInfo(h) == I93Api(h, I93SendSysInfo(h, FALSE))
RW_I93GetMultiBlockSecurityStatus(h, first, n) == I93Api(h, I93SendMultiSec(h, first, n))

I93Enter(h, state, sub) == [h EXCEPT !.t.state = state, !.t.sub = sub]

RW_I93DetectNDef(h) ==
    LET t == h.t
        sent == CASE ~t.uid.known -> I93Enter(I93SendInventory(h), "DETECT_NDEF", "WAIT_UID")
                  [] t.uid.known /\ I93HasNoSize(t) ->
                       I93Enter(I93SendSysInfo([h EXCEPT !.t.flags = {}], FALSE), "DETECT_NDEF",
                                "WAIT_SYS_INFO")
                  [] OTHER -> I93Enter(I93SendReadSingle(h, 0, FALSE), "DETECT_NDEF", "WAIT_CC")
    IN  IF t.state # "IDLE" THEN Ret(h, "FAILED")
        ELSE [sent EXCEPT !.t.flags = @ \intersect {"16BIT"}]

RW_I93ReadNDef(h) ==
    LET h1 == [h EXCEPT !.t.rw_offset = h.t.tlv_start, !.t.rw_length = 0]
    IN  IF h.t.state # "IDLE" \/ h.t.tlv_type # NDEF_TLV \/ h.t.ndef_length = 0 THEN Ret(h, "FAILED")
        ELSE I93Enter(I93GetNextBlocks(h1, h1.t.rw_offset), "READ_NDEF", h.t.sub)

RW_I93UpdateNDef(h, msg) ==
    LET t == h.t
        h1 == [h EXCEPT !.new = msg, !.t.ndef_length = Size(msg), !.t.rw_offset = t.tlv_start + 1,
                        !.t.rw_length = 0]
    IN  IF \/ t.state # "IDLE" \/ t.tlv_type # NDEF_TLV \/ "READ_ONLY" \in t.flags
           \/ t.max_ndef_length < Size(msg)
          THEN Ret(h, "FAILED")
        ELSE I93Enter(I93SendReadSingle(h1, I93BlockOf(t, t.tlv_start + 1), FALSE), "UPDATE_NDEF",
                      "RESET_LEN")

RW_I93FormatNDef(h) ==
    LET h1 == [h EXCEPT !.t.rw_offset = 0]
        sent == IF h.t.product_version \in I93StdPro
                  THEN I93Enter(I93SendReadSingle(h1, 0, TRUE), "FORMAT", "CHECK_READ_ONLY")
                ELSE I93Enter(I93SendInventory(h), "FORMAT", "WAIT_UID")
    IN  IF h.t.state # "IDLE" THEN Ret(h, "FAILED") ELSE [sent EXCEPT !.t.flags = {}]

RW_I93SetTagReadOnly(h) ==
    IF h.t.state # "IDLE" \/ h.t.tlv_type # NDEF_TLV \/ "READ_ONLY" \in h.t.flags
      THEN Ret(h, "FAILED")
    ELSE I93Enter(I93SendReadSingle(h, 0, FALSE), "SET_READ_ONLY", "WAIT_CC")

(* Not sent again: a card that does not answer is gone.                    *)
RW_I93PresenceCheck(h) ==
    CASE h.t.state = "NOT_ACTIVATED" -> Ret(Report(h, RwEvt("PRESENCE_CHECK", "FAILED")), "OK")
      [] h.t.state \notin {"NOT_ACTIVATED", "IDLE"} -> Ret(h, "BUSY")
      [] OTHER -> [I93SendInventory(h) EXCEPT !.retry = RW_MAX_RETRIES, !.t.state = "PRESENCE_CHECK"]
-----------------------------------------------------------------------------
(* The tag: its blocks as bytes, which of them are locked, and what it says*)
(* of itself.  sys is "PLAIN", "PROT_EXT" (a plain GET_SYSTEM_INFO is an   *)
(* error), or "EXT" (a plain answer has no memory size).                   *)

I93Tag(uid, ref, flags, block_size, mem, locked, sys) ==
    [uid |-> uid, ic_reference |-> ref, flags |-> flags, block_size |-> block_size, mem |-> mem,
     locked |-> locked, sys |-> sys, dsfid |-> 0, afi |-> 0, quiet |-> FALSE]

I93TagInfo(tag, wide, flags) ==
    [wide |-> wide, flags |-> flags, uid |-> tag.uid, dsfid |-> tag.dsfid, afi |-> tag.afi,
     num_block |-> Size(tag.mem) \div tag.block_size, block_size |-> tag.block_size,
     ic_reference |-> tag.ic_reference]

I93TagAnswer(tag, kind, data) == [tag |-> tag, rsp |-> Rsp(kind, data)]

I93LockByte(tag, block) == IF block \in tag.locked THEN 1 ELSE 0

I93Execute(tag, c) ==
    LET at == c.blk * tag.block_size
        inside == at + tag.block_size <= Size(tag.mem)
        block == Slice(tag.mem, at, tag.block_size)
        ack == I93TagAnswer(tag, "ack", NoData)
        bad == I93TagAnswer(tag, "error", "OTHER")
        Info(wide, flags) == I93TagAnswer(tag, "data", I93TagInfo(tag, wide, flags))
    IN  CASE c.op = "INVENTORY" -> I93TagAnswer(tag, "data", [dsfid |-> tag.dsfid, uid |-> tag.uid])
          [] c.op = "STAY_QUIET" -> I93TagAnswer([tag EXCEPT !.quiet = TRUE], "none", NoData)
          [] c.op = "READ_SINGLE_BLOCK" ->
               IF ~inside THEN bad
               ELSE I93TagAnswer(tag, "data",
                                 IF c.data[0]
                                   THEN [i \in 0..tag.block_size |->
                                           IF i = 0 THEN I93LockByte(tag, c.blk) ELSE block[i - 1]]
                                 ELSE block)
          [] c.op = "READ_MULTI_BLOCK" ->
               IF at + (Size(c.data) * tag.block_size) > Size(tag.mem) THEN bad
               ELSE I93TagAnswer(tag, "data", Slice(tag.mem, at, Size(c.data) * tag.block_size))
          [] c.op \in {"WRITE_SINGLE_BLOCK", "WRITE_MULTI_BLOCK"} ->
               IF ~inside \/ c.blk \in tag.locked THEN bad
               ELSE I93TagAnswer([tag EXCEPT !.mem = Overlay(@, at, c.data)], "ack", NoData)
          [] c.op = "LOCK_BLOCK" ->
               IF ~inside \/ c.blk \in tag.locked THEN bad
               ELSE I93TagAnswer([tag EXCEPT !.locked = @ \union {c.blk}], "ack", NoData)
          [] c.op = "GET_MULTI_BLK_SEC" ->
               I93TagAnswer(tag, "data", [b \in DOMAIN c.data |-> I93LockByte(tag, c.blk + b)])
          [] c.op = "GET_SYS_INFO" ->
               CASE tag.sys = "PROT_EXT" /\ c.blk = 0 ->
                      I93TagAnswer(tag, "error", "OPTION_NOT_SUPPORTED")
                 [] tag.sys = "EXT" -> Info(FALSE, tag.flags \ {"MEM_SIZE"})
                 [] OTHER -> Info(c.blk = 1, tag.flags)
          [] c.op = "EXT_GET_SYS_INFO" -> Info(TRUE, tag.flags)
          [] c.op = "WRITE_DSFID" -> I93TagAnswer([tag EXCEPT !.dsfid = c.blk], "ack", NoData)
          [] c.op = "WRITE_AFI" -> I93TagAnswer([tag EXCEPT !.afi = c.blk], "ack", NoData)
          [] OTHER -> ack

(* The message of the tag: the first NDEF TLV, as the standard has it.     *)
I93NdefOf(tag) ==
    LET start == IF tag.mem[2] # 0 THEN 4 ELSE 8
        size == Size(tag.mem)
        MsgSize(a) == IF tag.mem[a + 1] = LONG_LEN_BYTE0
                    THEN (tag.mem[a + 2] * 256) + tag.mem[a + 3]
                  ELSE tag.mem[a + 1]
        Value(a) == IF tag.mem[a + 1] = LONG_LEN_BYTE0 THEN a + 4 ELSE a + 2
        Visit(s, i) ==
            CASE s.at # i \/ s.found # -1 \/ tag.mem[i] = TERMINATOR_TLV -> s
              [] s.at = i /\ s.found = -1 /\ tag.mem[i] = NULL_TLV -> [s EXCEPT !.at = i + 1]
              [] s.at = i /\ s.found = -1 /\ tag.mem[i] = NDEF_TLV -> [s EXCEPT !.found = i]
              [] OTHER -> [s EXCEPT !.at = Value(i) + MsgSize(i)]
        f == Loop(Visit, [at |-> start, found |-> -1], size).found
    IN  IF tag.mem[0] \notin I93_CC_MAGIC \/ f = -1 THEN NoNdef
        ELSE IF MsgSize(f) = 0 THEN NoNdef
        ELSE [i \in 1..MsgSize(f) |-> tag.mem[Value(f) + i - 1]]
=============================================================================
