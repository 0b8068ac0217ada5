------------------------------- MODULE RwT3t --------------------------------
(***************************************************************************)
(* Type 3 tags (FeliCa): rw_t3t.cc, and the tag.                           *)
(*                                                                         *)
(* Block 0 holds the attributes of the NDEF message, the blocks from 1 on  *)
(* the message.  A poll is not a frame but a command of the NFCC, with a   *)
(* timer of its own: it finds the tag anew before an operation.            *)
(*                                                                         *)
(* The attribute block is a record; checksum says whether the one it holds *)
(* is right.  An answer with the identity of another tag is one with a bad *)
(* status: the code treats them alike.                                     *)
(***************************************************************************)
EXTENDS RwCommon
LOCAL INSTANCE SequencesExt

T3T_MSG_BLOCKSIZE == 16
T3T_MAX_BLOCKS_PER_UPDATE == 13

(* T3T_MSG_NDEF_VERSION by its major part: a newer one is not understood.  *)
T3T_MSG_NDEF_VERSION == 1

T3tState == {"NOT_ACTIVATED", "IDLE", "COMMAND_PENDING"}

T3tCommand == {"DETECT_NDEF", "CHECK_NDEF", "UPDATE_NDEF", "CHECK", "UPDATE", "SEND_RAW_FRAME",
               "GET_SYSTEM_CODES", "FORMAT", "SET_READ_ONLY_SOFT", "SET_READ_ONLY_HARD"}

(* What a poll is for; the code asks for them in this order.               *)
T3tPollFlag == <<"PRESENCE_CHECK", "GET_SC", "FMT_FELICA_LITE", "SRO_FELICA_LITE", "NDEF_DETECT">>

T3tAttrib(nbr, nbw, nmaxb, writef, rwflag, ln) ==
    [version |-> T3T_MSG_NDEF_VERSION, nbr |-> nbr, nbw |-> nbw, nmaxb |-> nmaxb,
     writef |-> writef, rwflag |-> rwflag, ln |-> ln, checksum |-> TRUE]

(* rw_t3t_default_attrib_info.                                             *)
T3tDefaultAttrib == T3tAttrib(4, 1, 13, "OFF", "RW", 0)

(* tRW_T3T_CB after rw_t3t_select.  final is IS_FINAL_NDEF_SEGMENT, wait   *)
(* the W4_..._POLL_RSP flags.                                              *)
T3tSelect(system_codes) ==
    [state |-> "IDLE", cmd |-> NoCmd, cur_cmd |-> "DETECT_NDEF", sub |-> "NONE", wait |-> {},
     poll_timer |-> FALSE, final |-> FALSE, attrib_status |-> "NOT_INITIALIZED",
     attrib |-> T3tDefaultAttrib, msg_len |-> 0, bytes_sent |-> 0, rx_offset |-> 0,
     rx_readlen |-> 0, system_codes |-> system_codes]
-----------------------------------------------------------------------------
(* Commands.                                                               *)

(* rw_t3t_send_cmd.                                                        *)
T3tSendCmd(h, cur, c) ==
    Ret(Transmit([h EXCEPT !.retry = 0, !.t.cmd = c, !.t.cur_cmd = cur,
                           !.t.state = "COMMAND_PENDING"], c), "OK")

(* rw_t3t_send_check_cmd, rw_t3t_check_mc_block and the reads of NDEF data.*)
T3tCheckCmd(first, n) == Cmd("CHECK", first, Zeros(n * T3T_MSG_BLOCKSIZE))

T3tUpdateCmd(first, data) == Cmd("UPDATE", first, data)

(* Block numbers of the attributes and of the memory configuration; their  *)
(* content is a record.                                                    *)
T3tAttribBlock == 0
T3tMcBlock == 136

(* rw_t3t_send_update_ndef_attribute_cmd: the old length with the write    *)
(* flag on before the data, the new one with the flag off behind them.     *)
T3tSendUpdateAttrib(h, write_in_progress) ==
    LET a == h.t.attrib
        new == IF write_in_progress
                 THEN T3tAttrib(a.nbr, a.nbw, a.nmaxb, "ON", a.rwflag, a.ln)
               ELSE T3tAttrib(a.nbr, a.nbw, a.nmaxb, "OFF", a.rwflag, h.t.msg_len)
    IN  T3tSendCmd(h, "UPDATE_NDEF", T3tUpdateCmd(T3tAttribBlock, <<new>>))

(* rw_t3t_send_next_ndef_update_cmd: as many blocks as the tag takes, the  *)
(* last one padded.                                                        *)
T3tSendNextUpdate(h) ==
    LET t == h.t
        left == t.msg_len - t.bytes_sent
        most == IF t.attrib.nbw < T3T_MAX_BLOCKS_PER_UPDATE THEN t.attrib.nbw
                ELSE T3T_MAX_BLOCKS_PER_UPDATE
        blocks == IF Ceil(left, T3T_MSG_BLOCKSIZE) <= most THEN Ceil(left, T3T_MSG_BLOCKSIZE)
                  ELSE most
        bytes == IF blocks * T3T_MSG_BLOCKSIZE < left THEN blocks * T3T_MSG_BLOCKSIZE ELSE left
        data == Overlay(Zeros(blocks * T3T_MSG_BLOCKSIZE), 0, Slice(h.new, t.bytes_sent, bytes))
    IN  T3tSendCmd([h EXCEPT !.t.bytes_sent = @ + bytes], "UPDATE_NDEF",
                   T3tUpdateCmd((t.bytes_sent \div T3T_MSG_BLOCKSIZE) + 1, data))

(* rw_t3t_send_next_ndef_check_cmd.                                        *)
T3tSendNextCheck(h) ==
    LET t == h.t
        left == t.attrib.ln - t.rx_offset
        final == Ceil(left, T3T_MSG_BLOCKSIZE) <= t.attrib.nbr
        blocks == IF final THEN Ceil(left, T3T_MSG_BLOCKSIZE) ELSE t.attrib.nbr
        h1 == [h EXCEPT !.t.final = @ \/ final,
                        !.t.rx_readlen = IF final THEN left ELSE blocks * T3T_MSG_BLOCKSIZE]
    IN  T3tSendCmd(h1, "CHECK_NDEF",
                   T3tCheckCmd((t.rx_offset \div T3T_MSG_BLOCKSIZE) + 1, blocks))

(* nci_snd_t3t_polling with what every operation that polls does behind it.*)
T3tPoll(h, cur, flags) ==
    Ret([h EXCEPT !.air = Append(@, Cmd("POLL", 0, NoData)), !.t.cur_cmd = cur,
                  !.t.state = "COMMAND_PENDING", !.t.wait = @ \union flags,
                  !.t.poll_timer = TRUE], "OK")

T3tIdle(h) == [h EXCEPT !.t.state = "IDLE"]

(* The operation is over and NFA RW hears of it.                           *)
T3tDone(h, event, status) == Report(T3tIdle(h), RwEvt(event, status))

T3tFelicaLite(t) == "FELICA_LITE" \in t.system_codes

(* rw_t3t_update_ndef_flag.                                                *)
T3tNdefFlags(t, flags) ==
    IF T3tFelicaLite(t) THEN (flags \ {"UNKNOWN"}) \union {"SUPPORTED", "FORMATABLE"} ELSE flags

T3tDetected(h, status, flags, cur, max) ==
    Report(T3tIdle(h), DetectEvt(status, T3tNdefFlags(h.t, flags), cur, max))

T3tDetectFailed(h, status) == T3tDetected(h, status, {"UNKNOWN"}, 0, 0)
-----------------------------------------------------------------------------
(* The ends of the operations that poll.                                   *)

(* rw_t3t_handle_get_system_codes_cplt: always a success.                  *)
T3tGetSystemCodesCplt(h) == T3tDone(h, "GET_SYSTEM_CODES", "OK")

(* rw_t3t_format_cplt.                                                     *)
T3tFormatCplt(h, status) ==
    T3tDone([h EXCEPT !.t.attrib_status = status,
                      !.t.attrib = IF status = "OK" THEN T3tDefaultAttrib ELSE @],
            "FORMAT_CPLT", status)

(* rw_t3t_set_readonly_cplt.                                               *)
T3tSetReadOnlyCplt(h, status) == T3tDone(h, "SET_TAG_RO", status)

(* rw_t3t_api_res_evt.  It has nine entries for ten commands: the last one *)
(* is none.                                                                *)
T3tApiResEvt(cur) ==
    CASE cur \in {"CHECK_NDEF", "CHECK"} -> "CHECK_CPLT"
      [] cur \in {"UPDATE_NDEF", "UPDATE"} -> "UPDATE_CPLT"
      [] cur = "SEND_RAW_FRAME" -> "RAW_FRAME"
      [] cur = "FORMAT" -> "FORMAT_CPLT"
      [] cur = "SET_READ_ONLY_SOFT" -> "SET_TAG_RO"
      [] OTHER -> "NONE"

(* rw_t3t_process_error.                                                   *)
T3tProcessError(h, status) ==
    LET pending == h.t.state = "COMMAND_PENDING"
        codes == h.t.cur_cmd = "GET_SYSTEM_CODES"
    IN  CASE ~pending -> Report(h, RwEvt("INTF_ERROR", status))
          [] pending /\ codes -> T3tGetSystemCodesCplt(h)
          [] pending /\ ~codes /\ h.retry < RW_MAX_RETRIES ->
               Transmit([h EXCEPT !.retry = @ + 1], h.t.cmd)
          [] OTHER -> IF h.t.cur_cmd = "DETECT_NDEF" THEN T3tDetectFailed(h, status)
                      ELSE T3tDone(h, T3tApiResEvt(h.t.cur_cmd), status)
-----------------------------------------------------------------------------
(* The result of a poll: found, or none answered, or (status TIMEOUT) the  *)
(* NFCC said nothing.                                                      *)

(* rw_t3t_handle_sro_poll_rsp: a tag that is read-only already is only     *)
(* locked, if that was asked for.                                          *)
T3tSetReadOnlyFound(h) ==
    LET a == h.t.attrib
    IN  IF a.rwflag # "RO"
          THEN T3tSendCmd([h EXCEPT !.t.sub = "SRO_UPDATE_NDEF_ATTRIB"], h.t.cur_cmd,
                   T3tUpdateCmd(T3tAttribBlock, <<[a EXCEPT !.rwflag = "RO", !.checksum = TRUE]>>))
        ELSE IF h.t.cur_cmd = "SET_READ_ONLY_HARD"
          THEN T3tSendCmd([h EXCEPT !.t.sub = "SRO_CHECK_MC_BLK"], h.t.cur_cmd,
                          T3tCheckCmd(T3tMcBlock, 1))
        ELSE h

T3tPollResult(h, flag, status, found) ==
    CASE flag = "PRESENCE_CHECK" ->
           T3tDone(h, "PRESENCE_CHECK", IF status = "TIMEOUT" THEN "FAILED" ELSE status)
      [] flag = "GET_SC" -> T3tGetSystemCodesCplt(h)
      [] flag = "FMT_FELICA_LITE" ->
           IF found THEN T3tSendCmd([h EXCEPT !.t.sub = "FMT_CHECK_MC_BLK"], h.t.cur_cmd,
                                    T3tCheckCmd(T3tMcBlock, 1))
           ELSE T3tFormatCplt(h, "FAILED")
      [] flag = "SRO_FELICA_LITE" ->
           IF found THEN T3tSetReadOnlyFound(h) ELSE T3tSetReadOnlyCplt(h, "FAILED")
      [] flag = "NDEF_DETECT" ->
           IF found THEN T3tSendCmd(h, "DETECT_NDEF", T3tCheckCmd(T3tAttribBlock, 1))
           ELSE T3tDetectFailed(h, status)
      [] OTHER -> T3tDone(h, "POLL", IF status = "TIMEOUT" THEN "FAILED" ELSE status)

(* The first reason for a poll that is flagged.                            *)
T3tPollAnswered(h, status, found) ==
    LET flagged == SelectSeq(T3tPollFlag, LAMBDA f : f \in h.t.wait)
        flag == IF flagged = <<>> THEN "NONE" ELSE flagged[1]
    IN  T3tPollResult([h EXCEPT !.t.wait = @ \ {flag}], flag, status, found)

(* rw_t3t_handle_nci_poll_ntf.                                             *)
T3tPollNtf(h, status, found) ==
    T3tPollAnswered([h EXCEPT !.t.poll_timer = FALSE], status, found)

(* rw_t3t_process_timeout, of either timer.                                *)
T3tTimeout(h) == T3tProcessError(StopTimer(h), "TIMEOUT")

T3tPollTimeout(h) == T3tPollAnswered([h EXCEPT !.t.poll_timer = FALSE], "TIMEOUT", FALSE)
-----------------------------------------------------------------------------
(* Answers.                                                                *)

(* rw_t3t_act_handle_ndef_detect_rsp.                                      *)
T3tNdefDetectRsp(h, ok, a) ==
    LET read == [h EXCEPT !.t.attrib_status = "OK", !.t.attrib = a]
        flags == {"SUPPORTED", "FORMATED"} \union (IF a.rwflag = "RO" THEN {"READ_ONLY"} ELSE {})
    IN  IF ~ok THEN T3tDetectFailed(h, "FAILED")
        ELSE IF ~a.checksum THEN T3tDetectFailed([h EXCEPT !.t.attrib_status = "FAILED"], "FAILED")
        ELSE IF a.version > T3T_MSG_NDEF_VERSION
          THEN T3tDetectFailed([h EXCEPT !.t.attrib_status = "FAILED",
                                         !.t.attrib.version = a.version], "BAD_RESP")
        ELSE T3tDetected(read, "OK", flags, a.ln, a.nmaxb * T3T_MSG_BLOCKSIZE)

(* rw_t3t_act_handle_check_ndef_rsp: the data go up and the next blocks are*)
(* read.  The number of bytes is kept in eight bits.                       *)
T3tCheckNdefRsp(h, ok, data) ==
    LET t == h.t
        size == (Size(data) % 256) - (IF t.final /\ t.attrib.ln % 16 # 0 THEN 16 - (t.attrib.ln % 16)
                                    ELSE 0)
        up == [h EXCEPT !.t.rx_offset = @ + t.rx_readlen,
                        !.buf = @ \o [i \in 1..size |-> data[i - 1]],
                        !.evt = Append(@, RwEvt("CHECK", "OK"))]
    IN  IF ~ok \/ Size(data) # Ceil(t.rx_readlen, 16) * 16 THEN T3tDone(h, "CHECK_CPLT", "FAILED")
        ELSE IF t.final THEN T3tDone(up, "CHECK_CPLT", "OK")
        ELSE T3tSendNextCheck(up)

(* rw_t3t_act_handle_update_ndef_rsp: the blocks, then the attributes.     *)
T3tUpdateNdefRsp(h, ok) ==
    LET t == h.t
    IN  CASE ~ok -> T3tDone(h, "UPDATE_CPLT", "FAILED")
          [] ok /\ t.final -> T3tDone([h EXCEPT !.t.attrib.ln = t.msg_len], "UPDATE_CPLT", "OK")
          [] ok /\ ~t.final /\ t.bytes_sent < t.msg_len -> T3tSendNextUpdate(h)
          [] OTHER -> T3tSendUpdateAttrib([h EXCEPT !.t.final = TRUE], FALSE)

(* rw_t3t_act_handle_fmt_rsp: the tag is made an NDEF tag, if it is none,  *)
(* and gets the attributes of an empty message.                            *)
T3tFmtRsp(h, ok, mc) ==
    LET Attrib == T3tSendCmd([h EXCEPT !.t.sub = "FMT_UPDATE_NDEF_ATTRIB"], h.t.cur_cmd,
                             T3tUpdateCmd(T3tAttribBlock, <<T3tDefaultAttrib>>))
    IN  CASE ~ok -> T3tFormatCplt(h, "FAILED")
          [] ok /\ h.t.sub = "FMT_CHECK_MC_BLK" ->
               IF mc.sys_op THEN Attrib
               ELSE T3tSendCmd([h EXCEPT !.t.sub = "FMT_UPDATE_MC_BLK"], h.t.cur_cmd,
                               T3tUpdateCmd(T3tMcBlock, <<[mc EXCEPT !.sys_op = TRUE]>>))
          [] ok /\ h.t.sub = "FMT_UPDATE_MC_BLK" -> Attrib
          [] OTHER -> T3tFormatCplt(h, "OK")

(* rw_t3t_act_handle_sro_rsp.                                              *)
T3tSroRsp(h, ok, mc) ==
    LET ro == [h EXCEPT !.t.attrib.rwflag = "RO"]
        hard == h.t.cur_cmd = "SET_READ_ONLY_HARD"
    IN  CASE ~ok -> T3tSetReadOnlyCplt(h, "FAILED")
          [] ok /\ h.t.sub = "SRO_UPDATE_NDEF_ATTRIB" ->
               IF hard THEN T3tSendCmd([ro EXCEPT !.t.sub = "SRO_CHECK_MC_BLK"], h.t.cur_cmd,
                                       T3tCheckCmd(T3tMcBlock, 1))
               ELSE T3tSetReadOnlyCplt(ro, "OK")
          [] ok /\ h.t.sub = "SRO_CHECK_MC_BLK" ->
               IF ~mc.sys_op THEN T3tSetReadOnlyCplt(h, "FAILED")
               ELSE T3tSendCmd([h EXCEPT !.t.sub = "SRO_UPDATE_MC_BLK"], h.t.cur_cmd,
                               T3tUpdateCmd(T3tMcBlock, <<[mc EXCEPT !.locked = TRUE]>>))
          [] OTHER -> T3tSetReadOnlyCplt(h, "OK")

(* rw_t3t_data_cback.  A raw UPDATE ends with the event of a raw frame.    *)
T3tData(h0, rsp) ==
    LET h == StopTimer(h0)
        check == rsp.kind = "check"
        update == rsp.kind = "update"
        cur == h.t.cur_cmd
        read == h.t.sub \in {"FMT_CHECK_MC_BLK", "SRO_CHECK_MC_BLK"}
        ok == IF read THEN check ELSE update
    IN  CASE h.t.state # "COMMAND_PENDING" -> T3tDone(h, "RAW_FRAME", "OK")
          [] h.t.state = "COMMAND_PENDING" /\ rsp.kind = "corrupted" ->
               T3tProcessError(h, "MSG_CORRUPTED")
          [] OTHER ->
               CASE cur = "DETECT_NDEF" -> T3tNdefDetectRsp(h, check, rsp.data)
                 [] cur = "CHECK_NDEF" -> T3tCheckNdefRsp(h, check, rsp.data)
                 [] cur = "UPDATE_NDEF" -> T3tUpdateNdefRsp(h, update)
                 [] cur = "CHECK" ->
                      LET up == IF check THEN Report(h, RwEvt("CHECK", "OK")) ELSE h
                      IN  T3tDone(up, "CHECK_CPLT", IF check THEN "OK" ELSE "FAILED")
                 [] cur = "UPDATE" -> T3tDone(h, "RAW_FRAME", IF update THEN "OK" ELSE "FAILED")
                 [] cur = "SEND_RAW_FRAME" -> T3tDone(h, "RAW_FRAME", "OK")
                 [] cur = "FORMAT" -> T3tFmtRsp(h, ok, rsp.data)
                 [] cur \in {"SET_READ_ONLY_SOFT", "SET_READ_ONLY_HARD"} ->
                      T3tSroRsp(h, ok, rsp.data)
                 [] OTHER -> h

(* rw_t3t_conn_cback with an error of the RF interface, or with data that  *)
(* are none.                                                               *)
T3tError(h) == T3tProcessError(StopTimer(h), "TIMEOUT")

(* rw_t3t_unselect.  The timer of a poll is left alone.                    *)
T3tDeactivated(h) == [StopTimer(h) EXCEPT !.t.state = "NOT_ACTIVATED"]
-----------------------------------------------------------------------------
(* The functions NFA RW calls.                                             *)

T3tBusy(h) == h.t.state # "IDLE"

T3tGuarded(h, Op(_)) == IF T3tBusy(h) THEN Ret(h, "FAILED") ELSE Op(h)

RW_T3tDetectNDef(h) == T3tGuarded(h, LAMBDA g : T3tPoll(g, "DETECT_NDEF", {"NDEF_DETECT"}))

RW_T3tCheckNDef(h) ==
    CASE T3tBusy(h) -> Ret(h, "FAILED")
      [] ~T3tBusy(h) /\ h.t.attrib_status # "OK" -> Ret(h, "NOT_INITIALIZED")
      [] ~T3tBusy(h) /\ h.t.attrib_status = "OK" /\ h.t.attrib.ln = 0 -> Ret(h, "FAILED")
      [] OTHER -> T3tSendNextCheck([h EXCEPT !.t.final = FALSE, !.t.rx_offset = 0])

RW_T3tUpdateNDef(h, msg) ==
    CASE T3tBusy(h) -> Ret(h, "FAILED")
      [] ~T3tBusy(h) /\ h.t.attrib_status # "OK" -> Ret(h, "NOT_INITIALIZED")
      [] ~T3tBusy(h) /\ h.t.attrib_status = "OK"
           /\ Size(msg) > h.t.attrib.nmaxb * T3T_MSG_BLOCKSIZE -> Ret(h, "BUFFER_FULL")
      [] OTHER ->
           IF h.t.attrib.rwflag = "RO" THEN Ret(h, "REFUSED")
           ELSE T3tSendUpdateAttrib([h EXCEPT !.t.final = FALSE, !.t.bytes_sent = 0,
                                              !.t.msg_len = Size(msg), !.new = msg], TRUE)

RW_T3tCheck(h, block) == T3tGuarded(h, LAMBDA g : T3tSendCmd(g, "CHECK", T3tCheckCmd(block, 1)))

RW_T3tUpdate(h, block, data) ==
    T3tGuarded(h, LAMBDA g : T3tSendCmd(g, "UPDATE", T3tUpdateCmd(block, data)))

(* A tag that is busy is there.                                            *)
RW_T3tPresenceCheck(h) ==
    LET Answer(status) == Ret(Report(h, RwEvt("PRESENCE_CHECK", status)), "OK")
    IN  CASE h.t.state = "NOT_ACTIVATED" -> Answer("FAILED")
          [] h.t.state = "COMMAND_PENDING" ->
               IF "PRESENCE_CHECK" \in h.t.wait THEN Ret(h, "FAILED") ELSE Answer("OK")
          [] OTHER -> T3tPoll(h, h.t.cur_cmd, {"PRESENCE_CHECK"})

RW_T3tPoll(h) == T3tGuarded(h, LAMBDA g : T3tPoll(g, g.t.cur_cmd, {}))

RW_T3tSendRawFrame(h) ==
    T3tGuarded(h, LAMBDA g : T3tSendCmd(g, "SEND_RAW_FRAME", Cmd("RAW", 0, NoData)))

RW_T3tGetSystemCodes(h) == T3tGuarded(h, LAMBDA g : T3tPoll(g, "GET_SYSTEM_CODES", {"GET_SC"}))

RW_T3tFormatNDef(h) == T3tGuarded(h, LAMBDA g : T3tPoll(g, "FORMAT", {"FMT_FELICA_LITE"}))

RW_T3tSetReadOnly(h, hard) ==
    CASE T3tBusy(h) -> Ret(h, "FAILED")
      [] ~T3tBusy(h) /\ h.t.attrib_status # "OK" -> Ret(h, "NOT_INITIALIZED")
      [] OTHER ->
           IF ~hard /\ h.t.attrib.rwflag = "RO"
             THEN Ret(Report(h, RwEvt("SET_TAG_RO", "OK")), "OK")
           ELSE T3tPoll(h, IF hard THEN "SET_READ_ONLY_HARD" ELSE "SET_READ_ONLY_SOFT",
                        {"SRO_FELICA_LITE"})
-----------------------------------------------------------------------------
(* The tag: attributes, blocks (a function of byte numbers; block 1 has the*)
(* first ones) and the memory configuration.  A locked tag takes no update.*)
(* Updates of the attributes and of the configuration carry those as <<d>>.*)

T3tTag(attrib, mem, mc) == [attrib |-> attrib, mem |-> mem, mc |-> mc]

T3tExecute(tag, c) ==
    LET at == (c.blk - 1) * T3T_MSG_BLOCKSIZE
    IN  CASE c.op = "POLL" -> [tag |-> tag, rsp |-> Rsp("poll", NoData)]
          [] c.op = "RAW" -> [tag |-> tag, rsp |-> Rsp("raw", NoData)]
          [] c.op = "CHECK" ->
               [tag |-> tag,
                rsp |-> Rsp("check", CASE c.blk = T3tAttribBlock -> tag.attrib
                                       [] c.blk = T3tMcBlock -> tag.mc
                                       [] OTHER -> Slice(tag.mem, at, Size(c.data)))]
          [] OTHER ->
               IF tag.mc.locked THEN [tag |-> tag, rsp |-> Rsp("error", NoData)]
               ELSE [tag |-> CASE c.blk = T3tAttribBlock -> [tag EXCEPT !.attrib = c.data[1]]
                               [] c.blk = T3tMcBlock -> [tag EXCEPT !.mc = c.data[1]]
                               [] OTHER -> [tag EXCEPT !.mem = Overlay(@, at, c.data)],
                     rsp |-> Rsp("update", NoData)]

(* The message the tag holds, as a reader must understand it: none while a *)
(* write is under way.                                                     *)
T3tNdefOf(tag) ==
    LET a == tag.attrib
    IN  IF a.checksum /\ a.writef = "OFF" /\ a.ln > 0 THEN [i \in 1..a.ln |-> tag.mem[i - 1]]
        ELSE NoNdef
=============================================================================
