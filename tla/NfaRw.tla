-------------------------------- MODULE NfaRw -------------------------------
(***************************************************************************)
(* The reader/writer of NFA (nfa_rw_act.cc, nfa_rw_api.cc, nfa_rw_main.cc) *)
(* over the reader/writer layers of the five tag types, with a tag in the  *)
(* field.                                                                  *)
(*                                                                         *)
(* All of it runs in the NFC task: "host" is the record of RwCommon with   *)
(*   nfa    nfa_rw_cb                                                      *)
(*   dm     what NFA DM was asked for: "SLEEP" (and wake up) or "DEACT"    *)
(*   saved  the event of a halted tag, handled when the tag is awake again *)
(*   rep    what the application was told in the last step                 *)
(*   waits  the events it waits for                                        *)
(* A handler is an operator from that record to the next one.  The calls   *)
(* of the API are modelled when the task handles their message.            *)
(*                                                                         *)
(* Commands reach the tag and answers the host one at a time, or are lost  *)
(* (env.faults times); a lost answer shows up as a time-out.  Left out:    *)
(* Kovio and MIFARE tags and others without a handler (raw mode), checked  *)
(* by the discovery of NfaDmDisc; nfa_mem_co_alloc does not fail.          *)
(***************************************************************************)
EXTENDS RwT1t, RwT2t, RwT3t, RwT4t, RwI93
LOCAL INSTANCE SequencesExt

CONSTANTS
    Environments,      \* what may surround NFA RW: see Environment
    TagOf(_),          \* the tag an environment names
    SystemCodesOf(_)   \* and its system codes, for a T3T

Protocol == {"T1T", "T2T", "T3T", "T4T", "T5T"}

(* The requests the application makes, each with the block or the length it*)
(* is about, one out of each set in turn; how many of them may wait for an *)
(* answer; the number of faults and of activations; auto_presence_check;   *)
(* exclusive RF mode; an NFCC of NCI 2.0.                                  *)
Environment == [tag : STRING, protocol : Protocol,
                requests : Seq(SUBSET [op : STRING, arg : Nat]), pending : Nat, faults : Nat,
                activations : Nat, auto : BOOLEAN, excl : BOOLEAN, nci2 : BOOLEAN]

ASSUME EnvAssumption == Environments \subseteq Environment

VARIABLES
    env,       \* the environment of this behaviour, chosen at the start
    tag,       \* the tag
    content,   \* the message on it, as a reader of the standard finds it
    host,      \* the NFC task
    left,      \* calls, faults and activations to come
    doubt      \* a write of the tag has failed

vars == <<env, tag, content, host, left, doubt>>
-----------------------------------------------------------------------------
(* The tag types.                                                          *)

Execute(protocol, t, c) ==
    CASE protocol = "T1T" -> T1tExecute(t, c)
      [] protocol = "T2T" -> T2tExecute(t, c)
      [] protocol = "T3T" -> T3tExecute(t, c)
      [] protocol = "T4T" -> T4tExecute(t, c)
      [] OTHER -> I93Execute(t, c)

NdefOf(protocol, t) ==
    CASE protocol = "T1T" -> T1tNdefOf(t)
      [] protocol = "T2T" -> T2tNdefOf(t)
      [] protocol = "T3T" -> T3tNdefOf(t)
      [] protocol = "T4T" -> T4tNdefOf(t)
      [] OTHER -> I93NdefOf(t)

(* RW_SetActivatedTagType.                                                 *)
Select(protocol, t, codes) ==
    CASE protocol = "T1T" -> T1tSelect(t.hr)
      [] protocol = "T2T" -> T2tSelect
      [] protocol = "T3T" -> T3tSelect(codes)
      [] protocol = "T4T" -> T4tSelect
      [] OTHER -> I93Select(t.uid)

Timeout(h) ==
    LET protocol == h.nfa.protocol
    IN  CASE protocol = "T1T" -> T1tTimeout(h)
          [] protocol = "T2T" -> T2tTimeout(h)
          [] protocol = "T3T" -> T3tTimeout(h)
          [] protocol = "T4T" -> T4tTimeout(StopTimer(h))
          [] OTHER -> I93Timeout(StopTimer(h))

RfError(h) ==
    LET protocol == h.nfa.protocol
    IN  CASE protocol = "T1T" -> T1tError(h)
          [] protocol = "T2T" -> T2tError(h)
          [] protocol = "T3T" -> T3tError(h)
          [] protocol = "T4T" -> T4tError(h)
          [] OTHER -> I93Error(h)

RwDeactivated(h) ==
    LET protocol == h.nfa.protocol
    IN  CASE protocol = "T1T" -> T1tDeactivated(h)
          [] protocol = "T2T" -> T2tDeactivated(h)
          [] protocol = "T3T" -> T3tDeactivated(h)
          [] protocol = "T4T" -> T4tDeactivated(h)
          [] OTHER -> I93Deactivated(h)
-----------------------------------------------------------------------------
(* The control block of NFA RW.                                            *)

NoRequest == [op |-> "NONE", arg |-> 0]

NoEvent == RwEvt("NONE", "OK")

(* tlv_st: the control TLVs that were looked for.  arm: the timer of a     *)
(* presence check is to be started at the end of the step.                 *)
Inactive ==
    [protocol |-> "T1T", active |-> FALSE, api_busy |-> FALSE, auto_busy |-> FALSE,
     ntf_pending |-> FALSE, not_excl |-> FALSE, auto |-> FALSE, read_only |-> FALSE,
     cur_op |-> "NONE", pending |-> NoRequest, ndef_st |-> "UNKNOWN", tlv_st |-> {},
     cur_size |-> 0, max_size |-> 0, halt_event |-> "NONE", skip |-> FALSE, hard |-> FALSE,
     timer |-> "NONE", arm |-> FALSE]

AllTlvs == {"LOCK", "MEM"}

(* The event that answers a request.                                       *)
AnswerTo(op) ==
    CASE op = "DETECT_NDEF" -> "NDEF_DETECT"
      [] op \in {"READ_NDEF", "T1T_RID", "T1T_RALL", "T1T_READ", "T1T_RSEG", "T1T_READ8",
                 "T2T_READ", "T3T_READ"} -> "READ_CPLT"
      [] op \in {"WRITE_NDEF", "T1T_WRITE", "T1T_WRITE8", "T2T_WRITE", "T3T_WRITE"} -> "WRITE_CPLT"
      [] op = "FORMAT_TAG" -> "FORMAT_CPLT"
      [] op \in {"DETECT_LOCK_TLV", "DETECT_MEM_TLV"} -> "TLV_DETECT"
      [] op \in {"SET_TAG_RO", "SET_TAG_RO_HARD"} -> "SET_TAG_RO"
      [] op = "T2T_SECTOR_SELECT" -> "SELECT_CPLT"
      [] op = "PRESENCE_CHECK" -> "PRESENCE_CHECK"
      [] op \in {"SEND_RAW_FRAME", "I93_READ_SINGLE_BLOCK", "I93_READ_MULTI_BLOCK",
                 "I93_GET_MULTI_BLOCK_STATUS"} -> "DATA"
      [] OTHER -> "I93_CMD_CPLT"

(* Requests whose event while NFA RW is busy differs from their answer, or *)
(* that have none (nfa_rw_op_req_while_busy).                              *)
BusyEvent(op) ==
    CASE op \in {"SEND_RAW_FRAME", "PRESENCE_CHECK"} -> "NONE"
      [] op \in {"I93_READ_SINGLE_BLOCK", "I93_READ_MULTI_BLOCK", "I93_GET_MULTI_BLOCK_STATUS"} ->
           "I93_CMD_CPLT"
      [] OTHER -> AnswerTo(op)

(* The application is told: the first request that waits for e has its     *)
(* answer; an error of the interface answers any.                          *)
TellAs(h, e, answered, st, msg) ==
    LET w == SelectInSeq(h.waits, LAMBDA x : x = answered)
    IN  [h EXCEPT !.rep = Append(@, [e |-> e, st |-> st, msg |-> msg, asked |-> w # 0]),
                  !.waits = IF w = 0 THEN @ ELSE RemoveAt(@, w)]

Tell(h, e, st, msg) == TellAs(h, e, e, st, msg)

Notify(h, e, st) == Tell(h, e, st, <<>>)

(* nfa_dm_ndef_handle_message.                                             *)
Message(h, st) == Tell(h, "NDEF_MESSAGE", st, IF st = "OK" THEN h.buf ELSE <<>>)

(* NFA_RW_INTF_ERROR_EVT.  Where it ends the operation it is its answer.   *)
InterfaceError(h, st, ends) ==
    IF ends /\ h.waits # <<>> THEN TellAs(h, "INTF_ERROR", Head(h.waits), st, <<>>)
    ELSE Notify(h, "INTF_ERROR", st)

(* nfa_dm_notify_activation_status: once per activation.                   *)
Activated(h, st) ==
    IF SelectInSeq(h.waits, LAMBDA x : x = "ACTIVATED") = 0 THEN h ELSE Notify(h, "ACTIVATED", st)
-----------------------------------------------------------------------------
(* The presence check and the end of a command.                            *)

PresenceLost(h) == [h EXCEPT !.evt = Append(@, RwEvt("PRESENCE_CHECK", "FAILED"))]

(* nfa_rw_presence_check; arg is the option for a T4T.  A tag type that    *)
(* does not begin the check counts as gone: that event is handled within   *)
(* this step, as those the tag type reports.                               *)
PresenceCheck(h, arg) ==
    LET protocol == h.nfa.protocol
        h1 == CASE protocol = "T1T" -> RW_T1tPresenceCheck(h)
                [] protocol = "T2T" -> RW_T2tPresenceCheck(h)
                [] protocol = "T3T" -> RW_T3tPresenceCheck(h)
                [] protocol = "T4T" ->
                     RW_T4tPresenceCheck(h, IF arg = 2 THEN "ISO_DEP_NAK" ELSE "EMPTY_I_BLOCK")
                [] OTHER -> RW_I93PresenceCheck(h)
    IN  IF h1.ret = "OK" THEN [h1 EXCEPT !.nfa.arm = TRUE] ELSE PresenceLost(h1)

(* nfa_rw_check_start_presence_check_timer, with a delay.                  *)
CheckStartTimer(h) == IF h.nfa.auto /\ h.nfa.not_excl THEN [h EXCEPT !.nfa.timer = "TICK"] ELSE h

CommandComplete(h) == CheckStartTimer([h EXCEPT !.nfa.api_busy = FALSE])

Complete(h, e, st) == Notify(CommandComplete(h), e, st)

(* The same, and no operation is current.                                  *)
EndOp(h) == [h EXCEPT !.nfa.cur_op = "NONE"]

ErrorCleanup(h, e) == Complete(h, e, "FAILED")

(* A function of the tag type that did not begin its operation.            *)
Tried(h, e) == IF h.ret = "OK" THEN h ELSE ErrorCleanup(h, e)

Started(h, e) == IF h.ret = "OK" THEN h ELSE Complete(h, e, h.ret)

Deactivate(h) == [h EXCEPT !.dm = "DEACT"]

IfOk(st) == IF st = "OK" THEN "OK" ELSE "FAILED"
-----------------------------------------------------------------------------
(* The operations.                                                         *)

StartNdefDetection(h) ==
    CASE h.nfa.protocol = "T1T" -> RW_T1tDetectNDef(h)
      [] h.nfa.protocol = "T2T" -> RW_T2tDetectNDef(h, h.nfa.skip)
      [] h.nfa.protocol = "T3T" -> RW_T3tDetectNDef(h)
      [] h.nfa.protocol = "T4T" -> RW_T4tDetectNDef(h)
      [] OTHER -> RW_I93DetectNDef(h)

StartNdefRead(h) ==
    LET h1 == [h EXCEPT !.buf = <<>>]
    IN  CASE h.nfa.cur_size = 0 -> Ret(Complete(Message(h1, "OK"), "READ_CPLT", "OK"), "OK")
          [] h.nfa.cur_size > 0 /\ h.nfa.protocol = "T1T" -> RW_T1tReadNDef(h1, h.nfa.cur_size)
          [] h.nfa.cur_size > 0 /\ h.nfa.protocol = "T2T" -> RW_T2tReadNDef(h1)
          [] h.nfa.cur_size > 0 /\ h.nfa.protocol = "T3T" -> RW_T3tCheckNDef(h1)
          [] h.nfa.cur_size > 0 /\ h.nfa.protocol = "T4T" -> RW_T4tReadNDef(h1)
          [] OTHER -> RW_I93ReadNDef(h1)

DetectNdef(h) == Started(StartNdefDetection(h), "NDEF_DETECT")

StartNdefWrite(h) ==
    CASE h.nfa.read_only -> Ret(h, "FAILED")
      [] ~h.nfa.read_only /\ h.nfa.max_size < Size(h.new) -> Ret(h, "BUFFER_FULL")
      [] OTHER ->
           CASE h.nfa.protocol = "T1T" -> RW_T1tWriteNDef(h, h.new)
             [] h.nfa.protocol = "T2T" -> RW_T2tWriteNDef(h)
             [] h.nfa.protocol = "T3T" -> RW_T3tUpdateNDef(h, h.new)
             [] h.nfa.protocol = "T4T" -> RW_T4tUpdateNDef(h, h.new)
             [] OTHER -> RW_I93UpdateNDef(h, h.new)

ReadNdef(h) ==
    Started(CASE h.nfa.ndef_st = "UNKNOWN" -> StartNdefDetection(h)
              [] h.nfa.ndef_st = "FALSE" -> Ret(h, "FAILED")
              [] OTHER -> StartNdefRead(h), "READ_CPLT")

(* The message of length n the application wants to write.                 *)
NewMessage(n) == [i \in 0..(n - 1) |-> 21 + i]

WriteNdef(h0, n) ==
    LET h == [h0 EXCEPT !.new = NewMessage(n)]
    IN  Started(CASE h.nfa.ndef_st = "UNKNOWN" -> StartNdefDetection(h)
                  [] h.nfa.ndef_st = "FALSE" ->
                       IF h.nfa.protocol = "T1T" THEN StartNdefDetection(h) ELSE Ret(h, "FAILED")
                  [] OTHER -> StartNdefWrite(h), "WRITE_CPLT")

FormatTag(h) ==
    Tried(CASE h.nfa.protocol = "T1T" -> RW_T1tFormatNDef(h)
            [] h.nfa.protocol = "T2T" -> RW_T2tFormatNDef(h)
            [] h.nfa.protocol = "T3T" -> RW_T3tFormatNDef(h)
            [] h.nfa.protocol = "T4T" -> RW_T4tFormatNDef(h)
            [] OTHER -> RW_I93FormatNDef(h), "FORMAT_CPLT")

(* Nothing happens, and nothing is answered, for other types.              *)
DetectTlv(h, type) ==
    CASE h.nfa.protocol = "T1T" -> Tried(RW_T1tLocateTlv(h, type), "TLV_DETECT")
      [] h.nfa.protocol = "T2T" -> Tried(RW_T2tLocateTlv(h, type), "TLV_DETECT")
      [] OTHER -> h

(* nfa_rw_config_tag_ro.  A T1T is first searched for a lock control TLV;  *)
(* if that search cannot begin, the application is not told.               *)
ConfigTagRo(h) ==
    LET protocol == h.nfa.protocol
        hard == h.nfa.hard
        h1 == CASE protocol = "T1T" -> RW_T1tSetTagReadOnly(h, hard)
                [] protocol = "T2T" -> RW_T2tSetTagReadOnly(h, hard)
                [] protocol = "T3T" -> RW_T3tSetReadOnly(h, hard)
                [] protocol = "T4T" -> RW_T4tSetNDefReadOnly(h)
                [] OTHER -> RW_I93SetTagReadOnly(h)
    IN  CASE protocol = "T1T" /\ "LOCK" \notin h.nfa.tlv_st -> RW_T1tLocateTlv(h, LOCK_CTRL_TLV)
          [] OTHER -> IF h1.ret = "OK" THEN [h1 EXCEPT !.nfa.ndef_st = "UNKNOWN"]
                      ELSE ErrorCleanup(h1, "SET_TAG_RO")

(* What the application writes to a block.                                 *)
BlockData(n) == [i \in 0..(n - 1) |-> 90 + i]

(* A block with a part of the capability container changed.                *)
Rewritten(h, changed, e) ==
    Tried(IF h.ret = "OK" /\ changed THEN [h EXCEPT !.nfa.ndef_st = "UNKNOWN"] ELSE h, e)

T1tOp(h, op, arg) ==
    CASE op = "T1T_RID" -> Tried(RW_T1tRead(h, "RID", 0), "READ_CPLT")
      [] op = "T1T_RALL" -> Tried(RW_T1tRead(h, "RALL", 0), "READ_CPLT")
      [] op = "T1T_READ" -> Tried(RW_T1tRead(h, "READ", arg), "READ_CPLT")
      [] op = "T1T_RSEG" -> Tried(RW_T1tRead(h, "RSEG", arg), "READ_CPLT")
      [] op = "T1T_READ8" -> Tried(RW_T1tRead(h, "READ8", arg), "READ_CPLT")
      [] op = "T1T_WRITE" ->
           Rewritten(RW_T1tWrite(h, "WRITE_E", arg, 0, BlockData(1)), arg = 1, "WRITE_CPLT")
      [] OTHER -> Rewritten(RW_T1tWrite(h, "WRITE_E8", arg, 0, BlockData(8)), arg = 1, "WRITE_CPLT")

T2tOp(h, op, arg) ==
    CASE op = "T2T_READ" -> Tried(RW_T2tRead(h, arg), "READ_CPLT")
      [] op = "T2T_WRITE" -> Rewritten(RW_T2tWrite(h, arg, BlockData(4)), arg = 3, "WRITE_CPLT")
      [] OTHER -> Tried(RW_T2tSectorSelect(h, arg), "SELECT_CPLT")

(* A failure of GET_SYSTEM_CODES, asked for at the activation, ends it.    *)
T3tOp(h, op, arg) ==
    LET codes == RW_T3tGetSystemCodes(h)
    IN  CASE op = "T3T_READ" -> Tried(RW_T3tCheck(h, arg), "READ_CPLT")
          [] op = "T3T_WRITE" -> Tried(RW_T3tUpdate(h, arg, BlockData(16)), "WRITE_CPLT")
          [] OTHER -> IF codes.ret = "OK" THEN codes ELSE Activated(CommandComplete(codes), "OK")

(* nfa_rw_i93_command, for the commands of "T5T".                          *)
I93Op(h, op, arg) ==
    LET h1 == CASE op = "I93_INVENTORY" -> RW_I93Inventory(h)
                [] op = "I93_STAY_QUIET" -> RW_I93StayQuiet(h)
                [] op = "I93_READ_SINGLE_BLOCK" -> RW_I93ReadSingleBlock(h, arg)
                [] op = "I93_WRITE_SINGLE_BLOCK" -> RW_I93WriteSingleBlock(h, arg, BlockData(4))
                [] op = "I93_LOCK_BLOCK" -> RW_I93LockBlock(h, arg)
                [] op = "I93_READ_MULTI_BLOCK" -> RW_I93ReadMultipleBlocks(h, arg, 2)
                [] op = "I93_WRITE_MULTI_BLOCK" -> RW_I93WriteMultipleBlocks(h, arg, 2, BlockData(8))
                [] op = "I93_SELECT" -> RW_I93Select(h)
                [] op = "I93_RESET_TO_READY" -> RW_I93ResetToReady(h)
                [] op = "I93_WRITE_AFI" -> RW_I93WriteAFI(h, arg)
                [] op = "I93_LOCK_AFI" -> RW_I93LockAFI(h)
                [] op = "I93_WRITE_DSFID" -> RW_I93WriteDSFID(h, arg)
                [] op = "I93_LOCK_DSFID" -> RW_I93LockDSFID(h)
                [] op = "I93_GET_SYS_INFO" -> RW_I93GetSysInfo(h)
                [] OTHER -> RW_I93GetMultiBlockSecurityStatus(h, arg, 2)
    IN  Tried(h1, "I93_CMD_CPLT")

(* A frame the application made, here a read of its own.                   *)
RawFrame(protocol) ==
    CASE protocol = "T1T" -> Cmd("RID", 0, Zeros(1))
      [] protocol = "T2T" -> Cmd("READ", 0, NoData)
      [] protocol = "T5T" -> Cmd("READ_SINGLE_BLOCK", 0, NoData)
      [] OTHER -> Cmd("RAW", 0, NoData)

(* It is sent past the tag type, and NFA RW is free for the next request;  *)
(* without a delay for its answer the presence is checked at once.         *)
SendRawFrame(h, delay) ==
    LET sent == [h EXCEPT !.air = Append(@, RawFrame(h.nfa.protocol)), !.nfa.api_busy = FALSE]
    IN  IF h.nfa.auto /\ h.nfa.not_excl /\ ~delay THEN PresenceCheck(sent, 0)
        ELSE CheckStartTimer(sent)

(* The switch of nfa_rw_handle_op_req.                                     *)
Dispatch(h, r) ==
    CASE r.op = "DETECT_NDEF" -> DetectNdef([h EXCEPT !.nfa.skip = FALSE])
      [] r.op = "READ_NDEF" -> ReadNdef(h)
      [] r.op = "WRITE_NDEF" -> WriteNdef(h, r.arg)
      [] r.op = "SEND_RAW_FRAME" -> SendRawFrame(h, r.arg # 0)
      [] r.op = "PRESENCE_CHECK" -> PresenceCheck(h, r.arg)
      [] r.op = "FORMAT_TAG" -> FormatTag(h)
      [] r.op = "DETECT_LOCK_TLV" -> DetectTlv(h, LOCK_CTRL_TLV)
      [] r.op = "DETECT_MEM_TLV" -> DetectTlv(h, MEM_CTRL_TLV)
      [] r.op = "SET_TAG_RO" -> ConfigTagRo([h EXCEPT !.nfa.hard = r.arg # 0])
      [] OTHER ->
           CASE h.nfa.protocol = "T1T" -> T1tOp(h, r.op, r.arg)
             [] h.nfa.protocol = "T2T" -> T2tOp(h, r.op, r.arg)
             [] h.nfa.protocol = "T3T" -> T3tOp(h, r.op, r.arg)
             [] OTHER -> I93Op(h, r.op, r.arg)

(* nfa_rw_op_req_while_busy.                                               *)
WhileBusy(h, op) ==
    IF BusyEvent(op) = "NONE" THEN h
    ELSE TellAs(h, BusyEvent(op), AnswerTo(op), "BUSY", <<>>)

(* Faulty variant: a request does not wait for the automatic check.        *)
HandleOpReq_DuringCheck(h, r) ==
    CASE ~h.nfa.active -> h
      [] h.nfa.active /\ h.nfa.api_busy -> WhileBusy(h, r.op)
      [] OTHER -> Dispatch([h EXCEPT !.nfa.api_busy = TRUE, !.nfa.timer = "NONE",
                                     !.nfa.cur_op = r.op], r)

(* nfa_rw_handle_op_req.  A request during the automatic presence check    *)
(* waits for its result.                                                   *)
HandleOpReq(h, r) ==
    CASE ~h.nfa.active -> h
      [] h.nfa.active /\ h.nfa.api_busy -> WhileBusy(h, r.op)
      [] h.nfa.active /\ ~h.nfa.api_busy /\ h.nfa.auto_busy ->
           [h EXCEPT !.nfa.pending = r, !.nfa.api_busy = TRUE]
      [] OTHER -> Dispatch([h EXCEPT !.nfa.api_busy = TRUE, !.nfa.timer = "NONE",
                                     !.nfa.cur_op = r.op], r)
-----------------------------------------------------------------------------
(* Events of the tag types.                                                *)

(* A request is handled within the step, behind the event at hand.         *)
OpReq(r) == [e |-> "OP_REQ", st |-> "OK", request |-> r]

Queue(h, msg) == [h EXCEPT !.evt = Append(@, msg)]

(* Faulty variant: the request that waited for the check is forgotten.     *)
HandlePresenceRsp_Forgets(h, st) ==
    LET h1 == [h EXCEPT !.nfa.timer = "NONE"]
        h2 == IF st = "OK" THEN CommandComplete(h1) ELSE [h1 EXCEPT !.nfa.api_busy = FALSE]
        h3 == [h2 EXCEPT !.nfa.auto_busy = FALSE, !.nfa.pending = NoRequest]
        told == Notify(h2, "PRESENCE_CHECK", st)
    IN  IF h.nfa.auto_busy THEN (IF st = "OK" THEN h3 ELSE Deactivate(h3))
        ELSE IF h.nfa.not_excl /\ st # "OK" THEN Deactivate(told) ELSE told

(* nfa_rw_handle_presence_check_rsp.  The request that waited for an       *)
(* automatic check is executed if the tag is there.                        *)
HandlePresenceRsp(h, st) ==
    LET h1 == [h EXCEPT !.nfa.timer = "NONE"]
        h2 == IF st = "OK" THEN CommandComplete(h1) ELSE [h1 EXCEPT !.nfa.api_busy = FALSE]
        waiting == h2.nfa.pending
        h3 == [h2 EXCEPT !.nfa.auto_busy = FALSE, !.nfa.pending = NoRequest]
        h4 == CASE waiting.op = "PRESENCE_CHECK" -> Notify(h3, "PRESENCE_CHECK", st)
                [] waiting.op \notin {"NONE", "PRESENCE_CHECK"} /\ st = "OK" -> Queue(h3, OpReq(waiting))
                [] OTHER -> h3
        told == Notify(h2, "PRESENCE_CHECK", st)
    IN  IF h.nfa.auto_busy THEN (IF st = "OK" THEN h4 ELSE Deactivate(h4))
        ELSE IF h.nfa.not_excl /\ st # "OK" THEN Deactivate(told) ELSE told

NdefDetected(h, ev) ==
    LET h1 == [h EXCEPT !.nfa.ndef_st = "TRUE", !.nfa.cur_size = ev.cur, !.nfa.max_size = ev.max,
                        !.nfa.read_only = "READ_ONLY" \in ev.flags]
    IN  CASE h.nfa.cur_op = "READ_NDEF" -> Started(StartNdefRead(h1), "READ_CPLT")
          [] h.nfa.cur_op = "WRITE_NDEF" -> Started(StartNdefWrite(h1), "WRITE_CPLT")
          [] OTHER -> Complete(EndOp(h1), "NDEF_DETECT", "OK")

NdefNotDetected(h, ev) ==
    LET h1 == [CommandComplete(h) EXCEPT !.nfa.ndef_st = "FALSE"]
        sizes == [h1 EXCEPT !.nfa.cur_size = ev.cur, !.nfa.max_size = ev.max]
    IN  EndOp(CASE h.nfa.cur_op = "READ_NDEF" -> Notify(Message(h1, "FAILED"), "READ_CPLT", ev.st)
                [] h.nfa.cur_op = "WRITE_NDEF" -> Notify(h1, "WRITE_CPLT", ev.st)
                [] h.nfa.cur_op = "DETECT_NDEF" ->
                     Notify(IF ev.st = "TIMEOUT" THEN h1 ELSE sizes, "NDEF_DETECT", ev.st)
                [] OTHER -> h1)

HandleNdefDetect(h, ev) == IF ev.st = "OK" THEN NdefDetected(h, ev) ELSE NdefNotDetected(h, ev)

(* nfa_rw_handle_tlv_detect.  When the tag is to be made read-only, this   *)
(* was the search for its lock control TLV, found or not.                  *)
HandleTlvDetect(h, ev) ==
    LET to_ro == h.nfa.cur_op = "SET_TAG_RO"
        found == CASE to_ro -> (IF h.nfa.tlv_st = {} THEN {"LOCK"} ELSE AllTlvs)
                   [] h.nfa.cur_op = "DETECT_LOCK_TLV" -> h.nfa.tlv_st \union {"LOCK"}
                   [] h.nfa.cur_op = "DETECT_MEM_TLV" -> h.nfa.tlv_st \union {"MEM"}
                   [] OTHER -> h.nfa.tlv_st
        h1 == [h EXCEPT !.nfa.tlv_st = found]
        h2 == IF ev.st = "OK" THEN h1 ELSE CommandComplete(h1)
        ro == ConfigTagRo(h2)
    IN  CASE to_ro -> (IF ro.ret = "OK" THEN ro ELSE Notify(ro, "SET_TAG_RO", "FAILED"))
          [] ~to_ro /\ ev.st = "OK" -> Complete(h1, "TLV_DETECT", "OK")
          [] ~to_ro /\ ev.st # "OK" /\ h.nfa.cur_op \in {"DETECT_LOCK_TLV", "DETECT_MEM_TLV"} ->
               Notify(h2, "TLV_DETECT", "FAILED")
          [] OTHER -> h2

(* The size a write leaves, also when it failed.                           *)
Sized(h) == IF h.nfa.cur_op = "WRITE_NDEF" THEN [h EXCEPT !.nfa.cur_size = Size(h.new)] ELSE h

(* The end of an NDEF read.                                                *)
ReadMessage(h, st) ==
    IF st = "OK" THEN Message(h, "OK")
    ELSE IF h.nfa.cur_op = "READ_NDEF" THEN Message(h, "FAILED") ELSE h

RawFrameRcvd(h, st) ==
    LET h1 == IF st = "TIMEOUT" THEN h ELSE Notify(h, "DATA", st)
    IN  IF st = "CONTINUE" THEN h1 ELSE CommandComplete(h1)

(* A T1T that can be formatted is formatted before the first message.      *)
T1tFormatFirst(h, ev) ==
    ev.st # "OK" /\ h.nfa.cur_op = "WRITE_NDEF" /\ "FORMATABLE" \in ev.flags
      /\ "FORMATED" \notin ev.flags /\ "SUPPORTED" \in ev.flags

T1tEvt(h, ev) ==
    LET all == [h EXCEPT !.nfa.tlv_st = AllTlvs]
        formatted == IF ev.st = "OK" THEN [h EXCEPT !.nfa.ndef_st = "UNKNOWN"] ELSE h
        detect == RW_T1tDetectNDef(formatted)
        unwritten == IF ev.st = "OK" THEN detect ELSE formatted
    IN  CASE ev.e = "RID" ->
               Activated(CommandComplete(h), IF ev.st = "TIMEOUT" THEN "TIMEOUT" ELSE "OK")
          [] ev.e = "READ_CPLT" -> Complete(h, "READ_CPLT", ev.st)
          [] ev.e = "WRITE_CPLT" -> Complete(h, "WRITE_CPLT", ev.st)
          [] ev.e = "NDEF_READ" -> Complete(ReadMessage(all, ev.st), "READ_CPLT", ev.st)
          [] ev.e = "NDEF_WRITE" ->
               LET h1 == IF ev.st = "OK" THEN all ELSE [all EXCEPT !.nfa.ndef_st = "UNKNOWN"]
               IN  Complete(Sized(h1), "WRITE_CPLT", IfOk(ev.st))
          [] ev.e = "SET_TAG_RO" -> Complete(h, "SET_TAG_RO", ev.st)
          [] ev.e = "RAW_FRAME" -> CommandComplete(Notify(h, "DATA", ev.st))
          [] ev.e = "FORMAT_CPLT" ->
               (IF h.nfa.cur_op # "WRITE_NDEF" THEN Complete(formatted, "FORMAT_CPLT", ev.st)
                ELSE IF ev.st = "OK" /\ detect.ret = "OK" THEN detect
                ELSE [Complete(unwritten, "WRITE_CPLT", "FAILED") EXCEPT !.nfa.ndef_st = "FALSE"])
          [] OTHER -> InterfaceError(h, ev.st, FALSE)

(* A halted T2T is woken up before its event is handled.                   *)
T2tHalted(h, ev) ==
    [h EXCEPT !.dm = "SLEEP", !.nfa.halt_event = ev.e, !.saved = [ev EXCEPT !.st = "OK"]]

T2tEvt(h, ev) ==
    CASE ev.e = "READ_CPLT" -> Complete(h, "READ_CPLT", ev.st)
      [] ev.e = "WRITE_CPLT" -> Complete(h, "WRITE_CPLT", ev.st)
      [] ev.e = "SELECT_CPLT" -> Complete(h, "SELECT_CPLT", ev.st)
      [] ev.e = "NDEF_READ" ->
           CommandComplete(Notify(ReadMessage(h, ev.st), "READ_CPLT", ev.st))
      [] ev.e = "NDEF_WRITE" -> Complete(Sized(h), "WRITE_CPLT", IfOk(ev.st))
      [] ev.e = "SET_TAG_RO" -> Complete(h, "SET_TAG_RO", ev.st)
      [] ev.e = "RAW_FRAME" -> RawFrameRcvd(h, ev.st)
      [] ev.e = "FORMAT_CPLT" ->
           Complete(IF ev.st = "OK" THEN [h EXCEPT !.nfa.ndef_st = "UNKNOWN"] ELSE h,
                    "FORMAT_CPLT", ev.st)
      [] OTHER -> InterfaceError(h, ev.st, FALSE)

(* nfa_rw_handle_sleep_wakeup_rsp for a halted T2T: awake again (st is OK) *)
(* or not, the command that it did not accept has failed.                  *)
HandleSleepWakeup(h, st) ==
    LET ev == [h.saved EXCEPT !.st = IF h.nfa.cur_op = "PRESENCE_CHECK" THEN st ELSE "FAILED",
                              !.e = h.nfa.halt_event]
        h1 == [T2tDeactivated(h) EXCEPT !.dm = "NONE"]
        h2 == IF st = "OK" THEN [h1 EXCEPT !.t = T2tSelect]
              ELSE [h1 EXCEPT !.nfa.halt_event = IF @ = "NDEF_DETECT" THEN "NONE" ELSE @]
    IN  [h2 EXCEPT !.evt = <<ev, RwEvt("HALT_HANDLED", st)>>]

(* The end of it, after that event.                                        *)
HaltHandled(h, st) ==
    LET h1 == [h EXCEPT !.nfa.halt_event = "NONE"]
    IN  IF h.nfa.not_excl /\ st # "OK" THEN Deactivate(h1) ELSE h1

T3tEvt(h, ev) ==
    CASE ev.e = "UPDATE_CPLT" -> Complete(Sized(h), "WRITE_CPLT", IfOk(ev.st))
      [] ev.e = "CHECK_CPLT" -> Complete(ReadMessage(h, ev.st), "READ_CPLT", ev.st)
      [] ev.e = "CHECK" -> (IF h.nfa.cur_op = "READ_NDEF" THEN h ELSE Notify(h, "DATA", ev.st))
      [] ev.e = "RAW_FRAME" -> RawFrameRcvd(h, ev.st)
      [] ev.e = "GET_SYSTEM_CODES" -> Activated(CommandComplete(h), ev.st)
      [] ev.e = "FORMAT_CPLT" -> Complete(h, "FORMAT_CPLT", IfOk(ev.st))
      [] ev.e = "INTF_ERROR" -> InterfaceError(h, ev.st, FALSE)
      [] ev.e = "SET_TAG_RO" -> Complete(h, "SET_TAG_RO", ev.st)
      [] OTHER -> h

(* NDEF_READ: a part of the message, stored by the tag type in buf.        *)
T4tEvt(h, ev) ==
    LET op == h.nfa.cur_op
    IN  CASE ev.e = "FORMAT_CPLT" ->
               Notify([EndOp(CommandComplete(h)) EXCEPT !.nfa.cur_size = ev.cur, !.nfa.max_size = ev.max],
                      "FORMAT_CPLT", IfOk(ev.st))
          [] ev.e = "READ_CPLT" ->
               Notify(EndOp(CommandComplete(IF op = "READ_NDEF" THEN Message(h, "OK")
                                            ELSE Notify(h, "DATA", "OK"))), "READ_CPLT", "OK")
          [] ev.e = "READ_FAIL" ->
               Notify(EndOp(CommandComplete(ReadMessage(h, "FAILED"))), "READ_CPLT", "FAILED")
          [] ev.e \in {"UPDATE_CPLT", "UPDATE_FAIL"} ->
               Notify(EndOp(CommandComplete(Sized(h))), "WRITE_CPLT",
                      IF ev.e = "UPDATE_CPLT" THEN "OK" ELSE "FAILED")
          [] ev.e = "RAW_FRAME" ->
               LET h1 == RawFrameRcvd(h, ev.st)
               IN  IF ev.st = "CONTINUE" THEN h1 ELSE EndOp(h1)
          [] ev.e = "RF_WTX" -> CheckStartTimer([h EXCEPT !.nfa.timer = "NONE"])
          [] ev.e = "SET_TAG_RO" -> EndOp(CommandComplete(Notify(h, "SET_TAG_RO", ev.st)))
          [] ev.e = "INTF_ERROR" -> EndOp(CommandComplete(InterfaceError(h, ev.st, TRUE)))
          [] OTHER -> h

(* While the application has not heard of the activation, the end of the   *)
(* command sent for it ends the activation, whatever its outcome.          *)
I93CmdEnd(h, e, st) ==
    LET h1 == CommandComplete(h)
    IN  EndOp(IF h.nfa.ntf_pending THEN Activated([h1 EXCEPT !.nfa.ntf_pending = FALSE], "OK")
              ELSE IF e = "INTF_ERROR" THEN InterfaceError(h1, st, TRUE)
              ELSE TellAs(h1, e, IF st # "OK" /\ h1.waits # <<>> THEN Head(h1.waits) ELSE e, st, <<>>))

I93Evt(h, ev) ==
    CASE ev.e \in {"READ_CPLT", "READ_FAIL", "UPDATE_CPLT", "UPDATE_FAIL"} -> T4tEvt(h, ev)
      [] ev.e = "RAW_FRAME" -> RawFrameRcvd(h, ev.st)
      [] ev.e = "INTF_ERROR" -> I93CmdEnd(h, "INTF_ERROR", ev.st)
      [] ev.e = "FORMAT_CPLT" ->
           Notify(EndOp(CommandComplete(IF ev.st = "OK" THEN [h EXCEPT !.nfa.ndef_st = "UNKNOWN"]
                                        ELSE h)), "FORMAT_CPLT", ev.st)
      [] ev.e = "SET_TAG_RO" ->
           Notify(EndOp(CommandComplete([h EXCEPT !.nfa.read_only = TRUE])), "SET_TAG_RO", ev.st)
      [] ev.e = "INVENTORY" -> Notify(EndOp(CommandComplete(h)), "I93_CMD_CPLT", ev.st)
      [] ev.e = "DATA" -> I93CmdEnd(h, "DATA", ev.st)
      [] ev.e \in {"SYS_INFO", "CMD_CMPL"} -> I93CmdEnd(h, "I93_CMD_CPLT", ev.st)
      [] OTHER -> h

(* The detection for a T1T that can be formatted goes on to the formatting;*)
(* of a halted T2T it is repeated once without lock and memory TLVs.       *)
NdefDetectEvt(h, ev) ==
    LET protocol == h.nfa.protocol
        format == RW_T1tFormatNDef([h EXCEPT !.nfa.tlv_st = AllTlvs])
        repeat == /\ protocol = "T2T" /\ ev.st # "OK" /\ ~h.nfa.skip
                  /\ ~(ev.st = "FAILED" /\ (ev.flags = {"UNKNOWN"} \/ h.nfa.halt_event = "NONE"))
    IN  CASE protocol = "T1T" /\ T1tFormatFirst(h, ev) /\ format.ret = "OK" -> format
          [] repeat -> DetectNdef([h EXCEPT !.nfa.skip = TRUE])
          [] OTHER -> HandleNdefDetect([h EXCEPT !.nfa.skip = (@ /\ protocol # "T2T"),
                                                 !.nfa.tlv_st = IF protocol = "T1T" THEN AllTlvs ELSE @],
                                       ev)

(* nfa_rw_cback.  Three events are handled alike for each type.            *)
Cback(h, ev) ==
    LET protocol == h.nfa.protocol
    IN  CASE protocol = "T2T" /\ ev.st = "REJECTED" -> T2tHalted(h, ev)
          [] ev.e = "PRESENCE_CHECK" -> HandlePresenceRsp(h, ev.st)
          [] ev.e = "NDEF_DETECT" -> NdefDetectEvt(h, ev)
          [] ev.e = "TLV_DETECT" -> HandleTlvDetect(h, ev)
          [] OTHER ->
               CASE protocol = "T1T" -> T1tEvt(h, ev)
                 [] protocol = "T2T" -> T2tEvt(h, ev)
                 [] protocol = "T3T" -> T3tEvt(h, ev)
                 [] protocol = "T4T" -> T4tEvt(h, ev)
                 [] OTHER -> I93Evt(h, ev)
-----------------------------------------------------------------------------
(* Activation and deactivation.                                            *)

(* nfa_rw_activate_ntf: a T1T without NCI 2.0 is asked for its RID, a T3T  *)
(* for its system codes, a T5T for its system information before the       *)
(* application hears of it.                                                *)
ActivateNtf(h, e, t) ==
    LET h1 == [h EXCEPT !.nfa = [Inactive EXCEPT !.protocol = e.protocol, !.active = TRUE,
                                                 !.not_excl = ~e.excl, !.auto = e.auto],
                        !.t = Select(e.protocol, t, SystemCodesOf(e.tag)), !.waits = <<"ACTIVATED">>,
                        !.dm = "NONE"]
        h2 == [h1 EXCEPT !.nfa.ntf_pending = TRUE]
        Begun(g) == IF g.ret = "OK" THEN g
                    ELSE CheckStartTimer(Activated([g EXCEPT !.nfa.ntf_pending = FALSE], "OK"))
    IN  CASE e.protocol = "T1T" /\ ~e.nci2 -> Queue(h1, OpReq([op |-> "T1T_RID", arg |-> 0]))
          [] e.protocol = "T3T" -> Queue(h1, OpReq([op |-> "T3T_GET_SYSTEM_CODES", arg |-> 0]))
          [] e.protocol = "T5T" -> Begun(IF t.uid.code \in I93StdPro THEN RW_I93ReadSingleBlock(h2, 2)
                                         ELSE RW_I93GetSysInfo(h2))
          [] OTHER -> CheckStartTimer(Activated(h1, "OK"))

(* nfa_rw_deactivate_ntf, behind NFC_DEACTIVATE_CEVT for the tag type.     *)
DeactivateNtf(h) ==
    [RwDeactivated(h) EXCEPT !.nfa.active = FALSE, !.nfa.pending = NoRequest, !.nfa.timer = "NONE",
                             !.buf = <<>>, !.air = <<>>, !.waits = <<>>, !.dm = "NONE",
                             !.rep = Append(@, [e |-> "DEACTIVATED", st |-> "OK", msg |-> <<>>,
                                                asked |-> TRUE])]

(* nfa_rw_presence_check_tick.                                             *)
PresenceCheckTick(h) ==
    PresenceCheck([h EXCEPT !.nfa.timer = "NONE", !.nfa.auto_busy = TRUE,
                            !.nfa.cur_op = "PRESENCE_CHECK"], 0)
-----------------------------------------------------------------------------
(* Steps.                                                                  *)

(* host.evt holds what the NFC task has to handle: a message from the      *)
(* application, the NFCC, a timer or NFA DM, then the events of the tag    *)
(* type.  It handles one in a step, and nothing else happens until it has  *)
(* handled them all.                                                       *)
Quiet == [host EXCEPT !.rep = <<>>]

TagBecomes(t) ==
    /\ tag' = t
    /\ content' = IF t = tag THEN content ELSE NdefOf(env.protocol, t)

Idle == host.evt = <<>>

IsNext(e) == ~Idle /\ Head(host.evt).e = e

Taken == [Quiet EXCEPT !.evt = Tail(@)]

Ended(h) ==
    IF h.evt = <<>> /\ h.nfa.arm THEN [h EXCEPT !.nfa.arm = FALSE, !.nfa.timer = "TIMEOUT"] ELSE h

Send(h, msg) ==
    /\ host' = [h EXCEPT !.evt = <<msg>>]
    /\ UNCHANGED doubt

Init ==
    /\ env \in Environments
    /\ tag = TagOf(env.tag) /\ content = NdefOf(env.protocol, tag)
    /\ host = [t |-> NoCmd, retry |-> 0, timer |-> FALSE, air |-> <<>>, evt |-> <<>>, ret |-> "OK",
               buf |-> <<>>, new |-> <<>>, nfa |-> Inactive, dm |-> "NONE", saved |-> NoEvent,
               rep |-> <<>>, waits |-> <<>>]
    /\ left = [calls |-> Len(env.requests), faults |-> env.faults, activations |-> env.activations]
    /\ doubt = FALSE

(* The end of a step.  The timer of a presence check that has begun runs   *)
(* when all is handled.  A write that fails leaves "doubt" until one       *)
(* succeeds or the tag is detected again.  Detection of a T3T ignores its  *)
(* flag for a write that was not finished.                                 *)
Becomes(h) ==
    /\ host' = Ended(h)
    /\ LET told == {host'.rep[i] : i \in DOMAIN host'.rep}
           Wrote(ok) == \E r \in told : /\ r.e \in {"WRITE_CPLT", "FORMAT_CPLT"} /\ r.st # "BUSY"
                                        /\ (r.st = "OK") = ok
           found == /\ env.protocol # "T3T"
                    /\ \E r \in told : r.e = "NDEF_DETECT" /\ r.st = "OK"
       IN  doubt' = (~found /\ ~Wrote(TRUE) /\ (doubt \/ Wrote(FALSE)))
    /\ UNCHANGED <<env, tag, content, left>>

(* Messages: nfa_rw_handle_event for the requests, the connection callback *)
(* of the tag type for answers, errors and its timers.                     *)
HandleRequest == IsNext("OP_REQ") /\ Becomes(HandleOpReq(Taken, Head(host.evt).request))

HandleActivation == IsNext("ACTIVATE") /\ Becomes(ActivateNtf(Taken, env, tag))

IsAnswer(protocol) == IsNext("ANSWER") /\ host.nfa.protocol = protocol

T1tAnswered == IsAnswer("T1T") /\ Becomes(T1tData(Taken, Head(host.evt).rsp))

T2tAnswered == IsAnswer("T2T") /\ Becomes(T2tData(Taken, Head(host.evt).rsp))

(* The NFCC polls for a T3T and checks the presence of a T4T itself.       *)
T3tAnswered ==
    /\ IsAnswer("T3T")
    /\ Becomes(IF Head(host.evt).cmd.op = "POLL" THEN T3tPollNtf(Taken, "OK", TRUE)
               ELSE T3tData(Taken, Head(host.evt).rsp))

T4tAnswered ==
    /\ IsAnswer("T4T")
    /\ Becomes(IF Head(host.evt).cmd.op = "ISO_DEP_NAK" THEN T4tNakRsp(Taken, "OK", TRUE)
               ELSE T4tData(Taken, Head(host.evt).rsp))

I93Answered == IsAnswer("T5T") /\ Becomes(I93Data(Taken, Head(host.evt).rsp))

HandleTimer ==
    \/ IsNext("TIMER") /\ Becomes(Timeout(Taken))
    \/ IsNext("POLL_TIMER") /\ Becomes(T3tPollTimeout(Taken))
    \/ IsNext("TICK") /\ Becomes(PresenceCheckTick(Taken))

HandleError == IsNext("RF_ERROR") /\ Becomes(RfError(Taken))

HandleWakeup ==
    \/ IsNext("SLEEP_WAKEUP") /\ Becomes(HandleSleepWakeup(Taken, Head(host.evt).st))
    \/ IsNext("HALT_HANDLED") /\ Becomes(HaltHandled(Taken, Head(host.evt).st))

Messages == {"OP_REQ", "ACTIVATE", "ANSWER", "TIMER", "POLL_TIMER", "TICK", "RF_ERROR",
             "SLEEP_WAKEUP", "HALT_HANDLED"}

(* The events of the tag types.                                            *)
HandleEvent ==
    /\ ~Idle /\ Head(host.evt).e \notin Messages
    /\ Becomes(Cback(Taken, Head(host.evt)))

Activate ==
    /\ Idle /\ ~host.nfa.active /\ left.activations > 0
    /\ Send(Quiet, RwEvt("ACTIVATE", "OK"))
    /\ left' = [left EXCEPT !.activations = @ - 1]
    /\ UNCHANGED <<env, tag, content>>

(* A call of the API.                                                      *)
Request ==
    /\ Idle /\ host.nfa.active /\ left.calls > 0
    /\ Len(host.waits) < env.pending /\ SelectInSeq(host.waits, LAMBDA x : x = "ACTIVATED") = 0
    /\ \E r \in env.requests[Len(env.requests) - left.calls + 1] :
         Send([Quiet EXCEPT !.waits = Append(@, AnswerTo(r.op))], OpReq(r))
    /\ left' = [left EXCEPT !.calls = @ - 1]
    /\ UNCHANGED <<env, tag, content>>

(* The tag executes the next command and the answer arrives, if it has one.*)
Answer ==
    /\ Idle /\ host.air # <<>>
    /\ LET c == Head(host.air)
           h == [Quiet EXCEPT !.air = Tail(@)]
       IN  \E done \in {Execute(env.protocol, tag, c)} :
               /\ TagBecomes(done.tag)
               /\ IF done.rsp.kind = "none" THEN host' = h /\ UNCHANGED doubt
                  ELSE Send(h, [e |-> "ANSWER", st |-> "OK", cmd |-> c, rsp |-> done.rsp])
    /\ UNCHANGED <<env, left>>

(* The tag after it executed the command on its way, or not.               *)
Executed == {tag, Execute(env.protocol, tag, Head(host.air)).tag}

(* A command or its answer gets lost; the time-out is another step.  The   *)
(* second part of a sector select has no answer, and the NFCC reports a raw*)
(* frame that has none.                                                    *)
Lose ==
    /\ Idle /\ host.air # <<>> /\ left.faults > 0
    /\ Head(host.air).op \notin {"SECTOR", "RAW"}
    /\ \E t \in Executed : TagBecomes(t)
    /\ host' = [Quiet EXCEPT !.air = Tail(@)]
    /\ left' = [left EXCEPT !.faults = @ - 1]
    /\ UNCHANGED <<env, doubt>>

(* The response timer: nothing is on its way, or, of a T1T, an answer that *)
(* is late.                                                                *)
ResponseTimeout ==
    /\ Idle /\ host.timer
    /\ \/ host.air = <<>> /\ UNCHANGED left
       \/ /\ host.air # <<>> /\ env.protocol = "T1T" /\ left.faults > 0
          /\ left' = [left EXCEPT !.faults = @ - 1]
    /\ Send(Quiet, RwEvt("TIMER", "OK"))
    /\ UNCHANGED <<env, tag, content>>

PollDue == env.protocol = "T3T" /\ host.nfa.active /\ host.t.poll_timer /\ host.air = <<>>

PollTimeout ==
    /\ Idle /\ PollDue
    /\ Send(Quiet, RwEvt("POLL_TIMER", "OK"))
    /\ UNCHANGED <<env, tag, content, left>>

(* CORE_INTERFACE_ERROR_NTF for the RF connection instead of the answer.   *)
InterfaceErrorNtf ==
    /\ Idle /\ host.air # <<>> /\ Head(host.air).op # "POLL" /\ left.faults > 0
    /\ \E t \in Executed : TagBecomes(t)
    /\ Send([Quiet EXCEPT !.air = Tail(@)], RwEvt("RF_ERROR", "OK"))
    /\ left' = [left EXCEPT !.faults = @ - 1]
    /\ UNCHANGED env

Tick ==
    /\ Idle /\ host.nfa.timer = "TICK"
    /\ Send(Quiet, RwEvt("TICK", "OK"))
    /\ UNCHANGED <<env, tag, content, left>>

(* The timer of the check is the last one: it expires when the response    *)
(* timer does not run.  nfa_rw_presence_check_timeout.                     *)
PresenceDue ==
    /\ host.nfa.timer = "TIMEOUT" /\ ~host.timer /\ host.air = <<>> /\ host.dm = "NONE"
    /\ env.protocol = "T3T" => ~host.t.poll_timer

PresenceTimeout ==
    /\ Idle /\ PresenceDue
    /\ Send(Quiet, RwEvt("PRESENCE_CHECK", "FAILED"))
    /\ UNCHANGED <<env, tag, content, left>>

(* NFA DM put the tag to sleep and woke it up, or did not find it again.   *)
WokenUp ==
    /\ Idle /\ host.dm = "SLEEP"
    /\ \/ /\ TagBecomes([tag EXCEPT !.halted = FALSE, !.sector = 0, !.select = FALSE])
          /\ Send(Quiet, RwEvt("SLEEP_WAKEUP", "OK"))
          /\ UNCHANGED left
       \/ /\ left.faults > 0 /\ left' = [left EXCEPT !.faults = @ - 1]
          /\ Send(Quiet, RwEvt("SLEEP_WAKEUP", "FAILED"))
          /\ UNCHANGED <<tag, content>>
    /\ UNCHANGED env

PoweredAgain(t) ==
    CASE env.protocol = "T2T" -> [t EXCEPT !.halted = FALSE, !.sector = 0, !.select = FALSE]
      [] env.protocol = "T4T" -> [t EXCEPT !.sel = "NONE"]
      [] OTHER -> t

(* The deactivation NFA DM was asked for, or the field is lost: the        *)
(* command on its way has been executed, or not.                           *)
Deactivated ==
    /\ Idle /\ host.nfa.active
    /\ \/ host.dm = "DEACT" /\ UNCHANGED left
       \/ host.dm # "DEACT" /\ left.faults > 0 /\ left' = [left EXCEPT !.faults = @ - 1]
    /\ \E t \in (IF host.air = <<>> THEN {tag} ELSE Executed) : TagBecomes(PoweredAgain(t))
    /\ host' = DeactivateNtf(Quiet)
    /\ doubt' = (/\ env.protocol = "T3T"
                 /\ doubt \/ (host.nfa.api_busy /\ host.nfa.cur_op \in {"WRITE_NDEF", "FORMAT_TAG"}))
    /\ UNCHANGED env

Next ==
    \/ HandleRequest \/ HandleActivation \/ HandleEvent
    \/ T1tAnswered \/ T2tAnswered \/ T3tAnswered \/ T4tAnswered \/ I93Answered
    \/ HandleTimer \/ HandleError \/ HandleWakeup
    \/ Activate \/ Request \/ Answer \/ Lose \/ ResponseTimeout \/ PollTimeout
    \/ InterfaceErrorNtf \/ Tick \/ PresenceTimeout \/ WokenUp \/ Deactivated

Spec == Init /\ [][Next]_vars

(* The NFC task handles its messages: nothing else happens while it has    *)
(* one.  The tag or a timer answers, whatever the task does meanwhile; NFA *)
(* DM does what it was asked for.                                          *)
Fairness ==
    /\ []<>Idle
    /\ []<>~(host.air # <<>>) \/ []<><<Answer>>_vars
    /\ []<>~(host.timer /\ host.air = <<>>) \/ []<><<ResponseTimeout>>_vars
    /\ []<>~PollDue \/ []<><<PollTimeout>>_vars
    /\ []<>~PresenceDue \/ []<><<PresenceTimeout>>_vars
    /\ []<>~(host.dm = "SLEEP") \/ []<><<WokenUp>>_vars
    /\ []<>~(host.nfa.active /\ host.dm = "DEACT") \/ []<><<Deactivated>>_vars

FairSpec == Spec /\ Fairness
-----------------------------------------------------------------------------
(* Properties.                                                             *)

RwReport == [e : STRING, st : Status, msg : Seq(Byte), asked : BOOLEAN]

TypeOK ==
    /\ env \in Environments
    /\ host.ret \in Status /\ host.retry \in 0..RW_MAX_RETRIES /\ host.timer \in BOOLEAN
    /\ (Idle => ~host.nfa.arm) /\ host.dm \in {"NONE", "SLEEP", "DEACT"}
    /\ \A i \in DOMAIN host.rep : host.rep[i] \in RwReport
    /\ host.nfa.ndef_st \in {"UNKNOWN", "TRUE", "FALSE"} /\ host.nfa.tlv_st \subseteq AllTlvs
    /\ host.nfa.timer \in {"NONE", "TICK", "TIMEOUT"}
    /\ content \in Seq(Byte) \union {NoNdef}

(* Writing a message is atomic for whoever reads the tag: at every moment, *)
(* commands and answers getting lost and the field too, the tag holds the  *)
(* old message, the new one or none, and NFA_WRITE_CPLT_EVT with a success *)
(* means the new one (NFA_FORMAT_CPLT_EVT: none).  A tag that says it is   *)
(* read-only keeps its message, whatever was remembered of it before.      *)
AsMessage(f) == [i \in 1..Size(f) |-> f[i - 1]]

Wanted ==
    CASE host.nfa.active /\ host.nfa.api_busy /\ host.nfa.cur_op = "WRITE_NDEF" -> AsMessage(host.new)
      [] host.nfa.active /\ host.nfa.api_busy /\ host.nfa.cur_op = "FORMAT_TAG" -> NoNdef
      [] OTHER -> <<-2>>

Result ==
    LET i == SelectLastInSeq(host.rep, LAMBDA r : r.e \in {"WRITE_CPLT", "FORMAT_CPLT"})
    IN  IF i = 0 THEN "NONE" ELSE host.rep[i].st

(* Where a tag says that it is read-only, however little its hardware      *)
(* protects it.                                                            *)
SaysReadOnly(t) ==
    CASE env.protocol = "T1T" -> t.mem[11] % 16 = T1T_RWA_RO
      [] env.protocol = "T2T" -> t.mem[15] % 16 = RWA_RO
      [] env.protocol = "T3T" -> t.attrib.rwflag = "RO"
      [] env.protocol = "T4T" -> t.cc.write_access # "ALL"
      [] OTHER -> t.mem[1] % 4 # 0

Store == INSTANCE NdefStore WITH
             Contents <- Seq(Byte) \union {NoNdef}, Empty <- NoNdef, Nothing <- <<-2>>,
             content <- content, wanted <- Wanted, result <- Result, locked <- SaysReadOnly(tag)

NdefAtomic == Store!Spec

(* A message the application is given is the one the tag holds, unless a   *)
(* write has failed since the tag was detected (the sizes and attributes   *)
(* remembered are then those of the failed write).                         *)
ReadIsTrue ==
    \A i \in DOMAIN host.rep :
        (/\ host.rep[i].e = "NDEF_MESSAGE" /\ host.rep[i].st = "OK" /\ ~doubt) =>
            host.rep[i].msg = IF content = NoNdef THEN <<>> ELSE content

(* When nothing is asked for and no presence check runs, nothing is on its *)
(* way to the tag and no timer of a command runs: no operation leaves a    *)
(* command behind that would be taken for the next one.  Commands a T1T was*)
(* sent again though their answers were on the way do not count.           *)
Repetitions == IF env.protocol = "T1T" THEN env.faults - left.faults ELSE 0

NoOrphanCommand ==
    (/\ host.nfa.active /\ host.waits = <<>> /\ ~host.nfa.auto_busy) =>
        Len(host.air) <= Repetitions /\ ~host.timer

(* An event that completes an operation answers one that was asked for:    *)
(* none is answered twice.                                                 *)
AnswersAsked ==
    \A i \in DOMAIN host.rep :
        host.rep[i].e \notin {"NDEF_MESSAGE", "DATA", "INTF_ERROR"} => host.rep[i].asked

(* One answer for one command: none is left behind, none comes twice.      *)
OneAnswer == NoOrphanCommand /\ AnswersAsked

(* Every request is answered, or the application hears that the tag is     *)
(* gone.                                                                   *)
RequestsAnswered == [](host.waits # <<>> => <>(host.waits = <<>>))

(* nfa_rw_api.cc says of NFA_RwT1tWrite, NFA_RwT2tWrite and NFA_RwT3tWrite  *)
(* that the application gets NFA_WRITE_CPLT_EVT when the write has ended:   *)
(* no write is over with nobody told.                                       *)
WriteEndsWithEvent ==
    (host.nfa.active /\ ~host.nfa.api_busy) =>
        \A i \in DOMAIN host.waits : host.waits[i] # "WRITE_CPLT"
=============================================================================
