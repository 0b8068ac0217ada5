------------------------------- MODULE RwT4t --------------------------------
(***************************************************************************)
(* Type 4 tags (ISO-DEP cards): rw_t4t.cc, and the tag; with it the read of *)
(* the identifier of a T3BT card, which shares its control block.          *)
(*                                                                         *)
(* The tag is a file system: the application is selected, then the file    *)
(* with the capability container, then the one with the message, of which  *)
(* the first two bytes are the length NLEN.  A command that is not answered*)
(* in time is given up: the NFCC has done the retries.                     *)
(***************************************************************************)
EXTENDS RwCommon
LOCAL INSTANCE SequencesExt

CONSTANT T4T_MAX_LENGTH   \* most bytes of one READ or UPDATE (RW_T4T_MAX_DATA_PER_READ, _WRITE)

ASSUME T4tAssumption == T4T_MAX_LENGTH \in 1..255

T4T_FILE_LENGTH_SIZE == 2
T4T_CC_FILE_MIN_LEN == 15

T4tState == {"NOT_ACTIVATED", "IDLE", "DETECT_NDEF", "READ_NDEF", "UPDATE_NDEF", "PRESENCE_CHECK",
             "SET_READ_ONLY", "NDEF_FORMAT", "T3BT_GET_PROP_DATA"}

(* The capability container: its length, the major version, the largest    *)
(* answer and command, whether the type and length of the control TLV are  *)
(* right, whether the file identifier is allowed, the size of the file and *)
(* who may read and write it ("ALL", "PROP"rietary, "NONE", "RFU").        *)
T4tCc(version, le, lc, size, write) ==
    [cclen |-> T4T_CC_FILE_MIN_LEN, version |-> version, max_le |-> le, max_lc |-> lc,
     tlv |-> TRUE, file_id |-> TRUE, max_file_size |-> size, read_access |-> "ALL",
     write_access |-> write]

(* tRW_T4T_CB after rw_t4t_select: version 2.0 is tried first.  update_data*)
(* says that there are data to write yet.                                  *)
T4tSelect ==
    [state |-> "IDLE", sub |-> "NONE", version |-> 2, cc |-> T4tCc(2, 15, 1, 0, "ALL"),
     ndef_status |-> {}, ndef_length |-> 0, max_read_size |-> T4T_MAX_LENGTH,
     max_update_size |-> T4T_MAX_LENGTH, rw_offset |-> 0, rw_length |-> 0, update_data |-> FALSE,
     card_type |-> "EV0", card_size |-> 0]
-----------------------------------------------------------------------------
(* Commands.                                                               *)

(* rw_t4t_send_to_lower.                                                   *)
T4tSend(h, op, blk, data) == Ret(Transmit(h, Cmd(op, blk, data)), "OK")

T4tWait(h, sub) == [h EXCEPT !.t.sub = sub]

(* rw_t4t_select_application.                                              *)
T4tSelectApplication(h, version) == T4tSend(h, "SELECT_APPLICATION", version, NoData)

(* rw_t4t_select_file: file 0 is the capability container, 1 the message.  *)
T4tSelectFile(h, file) == T4tSend(h, "SELECT_FILE", file, NoData)

(* rw_t4t_read_file.                                                       *)
T4tReadFile(h, offset, length, is_continue) ==
    LET h1 == IF is_continue THEN h
              ELSE [h EXCEPT !.t.rw_offset = offset, !.t.rw_length = length]
        n == IF length > h.t.max_read_size THEN h.t.max_read_size ELSE length
    IN  T4tSend(h1, "READ_BINARY", offset, Zeros(n))

(* rw_t4t_update_nlen.                                                     *)
T4tUpdateNlen(h, len) ==
    T4tSend(h, "UPDATE_BINARY", 0, [i \in 0..1 |-> <<len \div 256, len % 256>>[i + 1]])

(* rw_t4t_update_file.                                                     *)
T4tUpdateFile(h) ==
    LET t == h.t
        n == IF t.rw_length > t.max_update_size THEN t.max_update_size ELSE t.rw_length
        from == t.rw_offset - T4T_FILE_LENGTH_SIZE
        h1 == [h EXCEPT !.t.rw_offset = @ + n, !.t.rw_length = @ - n]
    IN  T4tSend(h1, "UPDATE_BINARY", t.rw_offset, Slice(h.new, from, n))

(* rw_t4t_update_cc_to_readonly.                                           *)
T4tUpdateCcToReadOnly(h) == T4tSend(h, "UPDATE_CC", 0, NoData)

(* The native commands that format a DESFire card.  They depend on the     *)
(* generation of the card.                                                 *)
T4tNative(h, op) == T4tSend(h, op, h.t.card_type, h.t.card_size)

T4tVersionCmd == [hw |-> "GET_HW_VERSION", sw |-> "GET_SW_VERSION", uid |-> "GET_UID"]
T4tAppCmd == [create |-> "CREATE_APP", select |-> "SELECT_APP", cc |-> "CREATE_CC"]
T4tFileCmd == [create |-> "CREATE_NDEF", cc |-> "WRITE_CC", ndef |-> "WRITE_NDEF"]
-----------------------------------------------------------------------------
(* The end of an operation.                                                *)

T4tIdle(h) == [h EXCEPT !.t.state = "IDLE"]

T4tDone(h, event, status) == Report(T4tIdle(h), RwEvt(event, status))

(* rw_t4t_handle_error.                                                    *)
T4tHandleError(h0, status) ==
    LET h == StopTimer(h0)
    IN  CASE h.t.state = "DETECT_NDEF" ->
               Report(T4tIdle(h), DetectEvt(status, {"UNKNOWN"}, 0, 0))
          [] h.t.state = "READ_NDEF" -> T4tDone(h, "READ_FAIL", status)
          [] h.t.state = "UPDATE_NDEF" -> T4tDone(h, "UPDATE_FAIL", status)
          [] h.t.state = "PRESENCE_CHECK" -> T4tDone(h, "PRESENCE_CHECK", "FAILED")
          [] h.t.state = "SET_READ_ONLY" -> T4tDone(h, "SET_TAG_RO", status)
          [] h.t.state = "NDEF_FORMAT" -> T4tDone(h, "FORMAT_CPLT", "FAILED")
          [] h.t.state = "T3BT_GET_PROP_DATA" -> T4tDone(h, "T3BT_RAW_READ_CPLT", "FAILED")
          [] OTHER -> T4tIdle(h)
-----------------------------------------------------------------------------
(* Detection.                                                              *)

(* rw_t4t_validate_cc_file.                                                *)
T4tValidCc(t, cc) ==
    /\ cc.cclen >= T4T_CC_FILE_MIN_LEN
    /\ cc.version = t.version
    /\ cc.max_le >= 15
    /\ cc.max_lc >= 1
    /\ cc.file_id
    /\ cc.max_file_size \in 5..65534
    /\ cc.read_access = "ALL"
    /\ cc.write_access \in {"ALL", "PROP", "NONE"}

T4tNotDetected(h, status) ==
    T4tHandleError([h EXCEPT !.t.ndef_status = @ \ {"NDEF_DETECTED"}], status)

(* The answer has the length of the message.                               *)
T4tNlenRead(h, data) ==
    LET cc == h.t.cc
        nlen == (data[0] * 256) + data[1]
        max == cc.max_file_size - T4T_FILE_LENGTH_SIZE
        Least(n) == IF n >= T4T_MAX_LENGTH THEN T4T_MAX_LENGTH ELSE n
        ro == cc.write_access # "ALL"
        h1 == [h EXCEPT !.t.ndef_status = {"NDEF_DETECTED"}
                          \union (IF ro THEN {"NDEF_READ_ONLY"} ELSE {}),
                        !.t.max_read_size = Least(cc.max_le),
                        !.t.max_update_size = Least(cc.max_lc), !.t.ndef_length = nlen]
        flags == {"SUPPORTED", "FORMATED"} \union (IF ro THEN {"READ_ONLY"} ELSE {})
    IN  IF Size(data) # T4T_FILE_LENGTH_SIZE \/ nlen > max THEN T4tNotDetected(h, "BAD_RESP")
        ELSE Report(T4tIdle(h1), DetectEvt("OK", flags, nlen, max))

(* rw_t4t_sm_detect_ndef.  A card that has no application of version 2.0   *)
(* is asked for one of version 1.0.                                        *)
T4tSmDetectNdef(h, ok, data) ==
    LET sub == h.t.sub
        read == [h EXCEPT !.t.cc = data]
    IN  IF ~ok
          THEN IF sub = "WAIT_SELECT_APP" /\ h.t.version = 2
                 THEN T4tSelectApplication([h EXCEPT !.t.version = 1], 1)
               ELSE T4tNotDetected(h, "CMD_NOT_CMPLTD")
        ELSE CASE sub = "WAIT_SELECT_APP" -> T4tWait(T4tSelectFile(h, 0), "WAIT_SELECT_CC")
               [] sub = "WAIT_SELECT_CC" ->
                    T4tWait(T4tReadFile(h, 0, T4T_CC_FILE_MIN_LEN, FALSE), "WAIT_CC_FILE")
               [] sub = "WAIT_CC_FILE" ->
                    IF data.tlv /\ T4tValidCc(h.t, data)
                      THEN T4tWait(T4tSelectFile(read, 1), "WAIT_SELECT_NDEF_FILE")
                    ELSE T4tNotDetected(read, "BAD_RESP")
               [] sub = "WAIT_SELECT_NDEF_FILE" ->
                    T4tWait(T4tReadFile(h, 0, T4T_FILE_LENGTH_SIZE, FALSE), "WAIT_READ_NLEN")
               [] OTHER -> T4tNlenRead(h, data)
-----------------------------------------------------------------------------
(* Reading, writing and locking.                                           *)

(* rw_t4t_sm_read_ndef.                                                    *)
T4tSmReadNdef(h, ok, data) ==
    LET n == Size(data)
        h1 == [h EXCEPT !.t.rw_length = @ - n, !.t.rw_offset = @ + n,
                        !.buf = @ \o [i \in 1..n |-> data[i - 1]]]
    IN  IF ~ok THEN T4tHandleError(h, "CMD_NOT_CMPLTD")
        ELSE IF n \notin 1..h.t.rw_length THEN T4tHandleError(h, "BAD_RESP")
        ELSE IF h1.t.rw_length = 0 THEN T4tDone(h1, "READ_CPLT", "OK")
        ELSE T4tReadFile(Report(h1, RwEvt("NDEF_READ", "OK")), h1.t.rw_offset, h1.t.rw_length, TRUE)

(* rw_t4t_sm_update_ndef: the length is cleared, the message written, the  *)
(* length set.                                                             *)
T4tSmUpdateNdef(h, ok) ==
    LET nlen == h.t.sub = "WAIT_UPDATE_NLEN"
    IN  CASE ~ok -> T4tHandleError(h, "CMD_NOT_CMPLTD")
          [] ok /\ nlen /\ h.t.update_data -> T4tUpdateFile(T4tWait(h, "WAIT_UPDATE_RESP"))
          [] ok /\ nlen /\ ~h.t.update_data -> T4tDone(h, "UPDATE_CPLT", "OK")
          [] ok /\ ~nlen /\ h.t.rw_length > 0 -> T4tUpdateFile(h)
          [] OTHER -> T4tWait(T4tUpdateNlen([h EXCEPT !.t.update_data = FALSE], h.t.ndef_length),
                              "WAIT_UPDATE_NLEN")

(* rw_t4t_sm_set_readonly.                                                 *)
T4tSmSetReadOnly(h, ok) ==
    LET locked == [h EXCEPT !.t.cc.write_access = "NONE",
                            !.t.ndef_status = @ \union {"NDEF_READ_ONLY"}]
    IN  CASE ~ok -> T4tHandleError(h, "CMD_NOT_CMPLTD")
          [] ok /\ h.t.sub = "WAIT_SELECT_CC" -> T4tWait(T4tUpdateCcToReadOnly(h), "WAIT_UPDATE_CC")
          [] ok /\ h.t.sub = "WAIT_UPDATE_CC" ->
               T4tWait(T4tSelectFile(locked, 1), "WAIT_SELECT_NDEF_FILE")
          [] OTHER -> T4tDone(h, "SET_TAG_RO", "OK")
-----------------------------------------------------------------------------
(* Formatting.                                                             *)

(* What is sent after the answer to each step, and the steps that may find *)
(* what they create.                                                       *)
T4tNextStep ==
    [GET_UID |-> "CREATE_APP", CREATE_APP |-> "SELECT_APP", SELECT_APP |-> "CREATE_CC",
     CREATE_CC |-> "CREATE_NDEF", CREATE_NDEF |-> "WRITE_CC", WRITE_CC |-> "WRITE_NDEF"]

T4tMayExist == {"CREATE_APP", "CREATE_CC", "CREATE_NDEF"}

(* rw_t4t_update_version_details, of the software version.                 *)
T4tUpdateVersion(h, v) ==
    CASE v.generation = "EV0" -> Ret([h EXCEPT !.t.card_size = 3806], "OK")
      [] v.generation = "EV1" /\ v.size > 0 ->
           Ret([h EXCEPT !.t.card_type = "EV1", !.t.card_size = v.size], "OK")
      [] v.generation = "EV1" /\ v.size = 0 -> Ret([h EXCEPT !.t.card_type = "EV1"], "FAILED")
      [] OTHER -> Ret(h, "FAILED")

T4tStep(h, op) == T4tWait(T4tNative(h, op), op)

(* rw_t4t_sm_ndef_format.  After a version it does not know the code       *)
(* reports the failure and asks for the UID all the same.                  *)
T4tSmNdefFormat(h, kind, data) ==
    LET sub == h.t.sub
        version == T4tUpdateVersion(h, data)
    IN  CASE sub = T4tVersionCmd.hw ->
               IF kind = "more" THEN T4tStep(h, T4tVersionCmd.sw) ELSE T4tHandleError(h, "FAILED")
          [] sub = T4tVersionCmd.sw ->
               IF kind # "more" THEN T4tHandleError(h, "FAILED")
               ELSE T4tStep(IF version.ret = "OK" THEN version
                            ELSE T4tHandleError(version, "FAILED"), T4tVersionCmd.uid)
          [] sub = T4tFileCmd.ndef ->
               IF kind = "ok" THEN T4tDone(h, "FORMAT_CPLT", "OK")
               ELSE T4tHandleError(h, "CMD_NOT_CMPLTD")
          [] OTHER ->
               IF kind = "ok" \/ (kind = "exists" /\ sub \in T4tMayExist)
                 THEN T4tStep(h, T4tNextStep[sub])
               ELSE T4tHandleError(h, "CMD_NOT_CMPLTD")

(* rw_t3Bt_sm_get_card_id.                                                 *)
T3BtSmGetCardId(h, ok) ==
    CASE ~ok -> T4tHandleError(h, "CMD_NOT_CMPLTD")
      [] ok /\ h.t.sub = "WAIT_GET_ATTRIB" -> T4tWait(T4tSend(h, "T3BT_PUPI", 0, NoData), "WAIT_GET_PUPI")
      [] OTHER -> T4tDone(h, "T3BT_RAW_READ_CPLT", "OK")
-----------------------------------------------------------------------------
(* rw_t4t_data_cback and the other callbacks.                              *)

T4tData(h0, rsp) ==
    LET h == StopTimer(h0)
        ok == rsp.kind = "ok"
    IN  CASE h.t.state = "IDLE" -> Report(h, RwEvt("RAW_FRAME", "OK"))
          [] h.t.state = "DETECT_NDEF" -> T4tSmDetectNdef(h, ok, rsp.data)
          [] h.t.state = "READ_NDEF" -> T4tSmReadNdef(h, ok, rsp.data)
          [] h.t.state = "UPDATE_NDEF" -> T4tSmUpdateNdef(h, ok)
          [] h.t.state = "PRESENCE_CHECK" -> T4tDone(h, "PRESENCE_CHECK", "OK")
          [] h.t.state = "SET_READ_ONLY" -> T4tSmSetReadOnly(h, ok)
          [] h.t.state = "NDEF_FORMAT" -> T4tSmNdefFormat(h, rsp.kind, rsp.data)
          [] h.t.state = "T3BT_GET_PROP_DATA" -> T3BtSmGetCardId(h, ok)
          [] OTHER -> h

T4tError(h0) ==
    LET h == StopTimer(h0)
    IN  CASE h.t.state \in {"PRESENCE_CHECK", "NDEF_FORMAT"} -> T4tHandleError(h, "FAILED")
          [] h.t.state = "IDLE" -> Report(h, RwEvt("INTF_ERROR", "FAILED"))
          [] OTHER -> T4tHandleError(h, "FAILED")

T4tDeactivated(h) == [StopTimer(h) EXCEPT !.t.state = "NOT_ACTIVATED"]

(* NFC_RF_WTX_CEVT: the tag asked for more time.                           *)
T4tWtx(h) ==
    IF h.t.state = "IDLE" THEN Report(StopTimer(h), RwEvt("RF_WTX", "OK")) ELSE [h EXCEPT !.timer = TRUE]

(* rw_t4t_process_timeout.                                                 *)
T4tTimeout(h) == T4tHandleError(h, "TIMEOUT")

(* rw_t4t_handle_isodep_nak_rsp.                                           *)
T4tNakRsp(h, status, is_ntf) ==
    IF is_ntf \/ status # "OK" THEN T4tDone(StopTimer(h), "PRESENCE_CHECK", status) ELSE h
-----------------------------------------------------------------------------
(* The functions NFA RW calls.                                             *)

T4tEnter(h, state, sub) == Ret([h EXCEPT !.t.state = state, !.t.sub = sub], "OK")

T4tIsDetected(h) == h.t.state = "IDLE" /\ "NDEF_DETECTED" \in h.t.ndef_status

T4tIsReadOnly(h) == "NDEF_READ_ONLY" \in h.t.ndef_status

RW_T4tFormatNDef(h) ==
    IF h.t.state # "IDLE" THEN Ret(h, "FAILED")
    ELSE LET h1 == [h EXCEPT !.t.card_type = "EV0"]
         IN  T4tEnter(T4tNative(h1, T4tVersionCmd.hw), "NDEF_FORMAT", T4tVersionCmd.hw)

RW_T4tDetectNDef(h) ==
    CASE h.t.state # "IDLE" -> Ret(h, "FAILED")
      [] T4tIsDetected(h) -> T4tEnter(T4tSelectFile(h, 0), "DETECT_NDEF", "WAIT_SELECT_CC")
      [] OTHER -> T4tEnter(T4tSelectApplication(h, h.t.version), "DETECT_NDEF", "WAIT_SELECT_APP")

RW_T4tReadNDef(h) ==
    IF ~T4tIsDetected(h) THEN Ret(h, "FAILED")
    ELSE T4tEnter(T4tReadFile(h, T4T_FILE_LENGTH_SIZE, h.t.ndef_length, FALSE), "READ_NDEF",
                  "WAIT_READ_RESP")

(* Faulty variant: the length is not cleared before the message is written.*)
RW_T4tUpdateNDef_KeepsNlen(h, msg) ==
    LET h1 == [h EXCEPT !.new = msg, !.t.ndef_length = Size(msg), !.t.update_data = TRUE,
                        !.t.rw_offset = T4T_FILE_LENGTH_SIZE, !.t.rw_length = Size(msg)]
    IN  IF \/ ~T4tIsDetected(h) \/ T4tIsReadOnly(h)
           \/ h.t.cc.max_file_size < Size(msg) + T4T_FILE_LENGTH_SIZE
          THEN Ret(h, "FAILED")
        ELSE T4tEnter(T4tUpdateFile(h1), "UPDATE_NDEF", "WAIT_UPDATE_RESP")

RW_T4tUpdateNDef(h, msg) ==
    LET h1 == [h EXCEPT !.new = msg, !.t.ndef_length = Size(msg), !.t.update_data = TRUE,
                        !.t.rw_offset = T4T_FILE_LENGTH_SIZE, !.t.rw_length = Size(msg)]
    IN  IF \/ ~T4tIsDetected(h) \/ T4tIsReadOnly(h)
           \/ h.t.cc.max_file_size < Size(msg) + T4T_FILE_LENGTH_SIZE
          THEN Ret(h, "FAILED")
        ELSE T4tEnter(T4tUpdateNlen(h1, 0), "UPDATE_NDEF", "WAIT_UPDATE_NLEN")

(* With an empty I-block, or by the NFCC with an R(NAK): neither has the   *)
(* response timer.  A tag that is busy is there.                           *)
RW_T4tPresenceCheck(h, option) ==
    LET Answer(status) == Ret(Report(h, RwEvt("PRESENCE_CHECK", status)), "OK")
    IN  CASE h.t.state = "NOT_ACTIVATED" -> Answer("FAILED")
          [] h.t.state \notin {"NOT_ACTIVATED", "IDLE"} -> Answer("OK")
          [] OTHER -> T4tEnter([h EXCEPT !.air = Append(@, Cmd(option, 0, NoData))],
                               "PRESENCE_CHECK", h.t.sub)

RW_T4tSetNDefReadOnly(h) ==
    CASE ~T4tIsDetected(h) -> Ret(h, "FAILED")
      [] T4tIsDetected(h) /\ T4tIsReadOnly(h) -> Ret(Report(h, RwEvt("SET_TAG_RO", "OK")), "OK")
      [] OTHER -> T4tEnter(T4tSelectFile(h, 0), "SET_READ_ONLY", "WAIT_SELECT_CC")

RW_T3BtGetPupiID(h) ==
    T4tEnter(T4tSend(h, "T3BT_ATTRIB", 0, NoData), "T3BT_GET_PROP_DATA", "WAIT_GET_ATTRIB")
-----------------------------------------------------------------------------
(* The tag: the version of its application (0: none), the container, the   *)
(* file with the message, which of them is selected ("NONE", "APP", "CC",  *)
(* "NDEF"), and what the card says when asked for its software.  That the  *)
(* container allows no writing does not keep a card from being written.    *)

T4tTag(version, cc, file, soft) ==
    [app |-> version, cc |-> cc, file |-> file, sel |-> "NONE", soft |-> soft]

T4tAnswer(tag, kind, data) == [tag |-> tag, rsp |-> Rsp(kind, data)]

T4tFormatted(tag, card_type, size) ==
    [tag EXCEPT !.app = IF card_type = "EV1" THEN 2 ELSE 1,
                !.cc = T4tCc(IF card_type = "EV1" THEN 2 ELSE 1, 59, 52,
                             IF card_type = "EV1" THEN size ELSE 1024, "ALL"),
                !.file = [i \in DOMAIN @ |-> IF i < 2 THEN 0 ELSE @[i]]]

T4tExecute(tag, c) ==
    LET ok == T4tAnswer(tag, "ok", NoData)
        bad == T4tAnswer(tag, "error", NoData)
        inside == c.blk + Size(c.data) <= tag.cc.max_file_size
    IN  CASE c.op = "SELECT_APPLICATION" ->
               IF tag.app = c.blk THEN T4tAnswer([tag EXCEPT !.sel = "APP"], "ok", NoData) ELSE bad
          [] c.op = "SELECT_FILE" ->
               IF tag.sel = "NONE" THEN bad
               ELSE T4tAnswer([tag EXCEPT !.sel = IF c.blk = 0 THEN "CC" ELSE "NDEF"], "ok", NoData)
          [] c.op = "READ_BINARY" ->
               CASE tag.sel = "CC" -> T4tAnswer(tag, "ok", tag.cc)
                 [] tag.sel = "NDEF" /\ inside ->
                      T4tAnswer(tag, "ok", Slice(tag.file, c.blk, Size(c.data)))
                 [] OTHER -> bad
          [] c.op = "UPDATE_BINARY" ->
               IF tag.sel = "NDEF" /\ inside
                 THEN T4tAnswer([tag EXCEPT !.file = Overlay(@, c.blk, c.data)], "ok", NoData)
               ELSE bad
          [] c.op = "UPDATE_CC" ->
               IF tag.sel = "CC"
                 THEN T4tAnswer([tag EXCEPT !.cc.write_access = "NONE"], "ok", NoData)
               ELSE bad
          [] c.op = "GET_HW_VERSION" -> T4tAnswer(tag, "more", NoData)
          [] c.op = "GET_SW_VERSION" -> T4tAnswer(tag, "more", tag.soft)
          [] c.op \in T4tMayExist ->
               IF tag.app # 0 THEN T4tAnswer(tag, "exists", NoData) ELSE ok
          [] c.op = "WRITE_NDEF" -> T4tAnswer(T4tFormatted(tag, c.blk, c.data), "ok", NoData)
          [] OTHER -> ok

(* The message of the tag; a length of zero says that there is none, as it *)
(* does while one is written.                                              *)
T4tNdefOf(tag) ==
    LET n == (tag.file[0] * 256) + tag.file[1]
    IN  IF n = 0 THEN NoNdef ELSE [i \in 1..n |-> tag.file[i + 1]]
=============================================================================
