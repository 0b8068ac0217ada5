------------------------------- MODULE NfcNcif -------------------------------
(***************************************************************************)
(* The NFC task and the NCI command channel: nfc_ncif.cc, nfc_main.cc,     *)
(* nfc_task.cc, nfc_vs.cc and the command half of nci_hmsgs.cc and         *)
(* nci_hrcv.cc.                                                            *)
(*                                                                         *)
(* nfc_cb is the control block of the same name.  Everything that changes  *)
(* it runs on NFC_TASK: the handlers of its mailbox, its timers, and the   *)
(* API functions that NFA calls on the task.  The HAL is a thread of its   *)
(* own: its call-backs put messages in the mailbox, after a look at        *)
(* nfc_state that no lock protects.  hal is that other side, modelled from *)
(* the calls and events this code uses.                                    *)
(*                                                                         *)
(* A handler is a function of the pair x = [nfc |-> nfc_cb, hal |-> hal]   *)
(* and of a choice ch made by the environment while it runs: pre, the      *)
(* result of the HAL's prediscover(); buf, whether the command pool has a  *)
(* buffer; fw, whether a forced firmware download works, or a start that   *)
(* found no firmware version is worth another try; idle, whether the       *)
(* DEACTIVATE in question is to idle, not to sleep or discovery; quiet,    *)
(* whether core_reset_init_num_buff, set by an earlier error notification, *)
(* is still set.                                                           *)
(***************************************************************************)
EXTENDS Integers, Sequences, FiniteSets

CONSTANTS
    NCI_MAX_CMD_WINDOW,   \* commands the NFCC takes without a response
    PoolOutcomes,         \* possible results of a buffer allocation
    Environments          \* what may surround the stack: see Environment

(* NFC_Disable is called by a stack that started ("disable") or, in        *)
(* "disable_early", at any time.  "control": the HAL asks for the command  *)
(* window.                                                                 *)
Call == {"disable", "disable_early", "discover", "deactivate", "sleep", "cycle", "control"}

(* The transport does not open; the HAL fails to post-initialize or        *)
(* reports an error; the answer to a command or a CORE_RESET_NTF is lost;  *)
(* it is slow and comes after the time-out; a notification nobody asked    *)
(* for arrives; the NFCC resets itself; it answers CORE_RESET or CORE_INIT *)
(* with an error.                                                          *)
Fault == {"open", "post_init", "error", "lost_rsp", "lost_ntf", "slow", "stray", "reset",
          "reset_refused", "init_refused"}

(* What surrounds the stack in a behaviour: what the NFCC answers to       *)
(* CORE_RESET, the vendor commands applications send, what else happens,   *)
(* what may go wrong, and how many vendor commands, other calls and faults *)
(* there are at most (the bounds of the model).                            *)
Environment ==
    [name : STRING, nci_version : {"1_0", "2_0"}, user_cmds : SUBSET {"VSC", "RAW"},
     calls : SUBSET Call, faults : SUBSET Fault,
     max_cmds : Nat, max_calls : Nat, max_faults : Nat]

ASSUME WindowAssumption == NCI_MAX_CMD_WINDOW \in Nat \ {0}
ASSUME EnvAssumption == PoolOutcomes \subseteq BOOLEAN /\ Environments \subseteq Environment

VARIABLES nfc_cb, hal,
          env    \* the environment of this behaviour, chosen at the start
vars == <<nfc_cb, hal, env>>

NciVersion == env.nci_version
UserCmds == env.user_cmds
MaxCmds == env.max_cmds
MaxCalls == env.max_calls
MaxFaults == env.max_faults

-----------------------------------------------------------------------------
(* Commands carry an id that tells them apart: 0 for those of the stack,   *)
(* the number of the request for vendor commands.                          *)
StackCmd == {"CORE_RESET", "CORE_INIT", "DISCOVER_MAP", "DISCOVER", "DEACTIVATE"}
Cmd == [op : StackCmd, id : {0}] \cup [op : UserCmds, id : 1..MaxCmds]
Internal(op) == [op |-> op, id |-> 0]

NFC_STATE == {"NONE", "W4_HAL_OPEN", "CORE_INIT", "W4_POST_INIT_CPLT", "IDLE",
          "W4_HAL_CLOSE", "NFCC_POWER_OFF_SLEEP"}
NFC_FL == {"RESTARTING", "POWER_OFF_SLEEP", "POWER_CYCLE_NFCC", "CONTROL_REQUESTED",
         "CONTROL_GRANTED", "DISCOVER_PENDING", "HAL_REQUESTED"}

(* What the mailbox of NFC_TASK holds. *)
Rsp(c, ok) == [mt |-> "RSP", op |-> c.op, id |-> c.id, ok |-> ok]
Ntf(op, ok) == [mt |-> "NTF", op |-> op, id |-> 0, ok |-> ok]
Evt(e, ok) == [mt |-> "EVT", op |-> e, id |-> 0, ok |-> ok]
HalEvent == {"OPEN_CPLT", "CLOSE_CPLT", "POST_INIT_CPLT", "PRE_DISCOVER_CPLT",
             "REQUEST_CONTROL", "RELEASE_CONTROL", "ERROR"}
Message ==
    [mt : {"RSP"}, op : StackCmd \cup UserCmds, id : 0..MaxCmds, ok : BOOLEAN]
      \cup [mt : {"NTF"}, op : {"CORE_RESET", "OTHER"}, id : {0}, ok : BOOLEAN]
      \cup [mt : {"EVT"}, op : HalEvent, id : {0}, ok : BOOLEAN]

NoBack == [to |-> 0, answers |-> 0]
Request == {"none", "ENABLE", "RESTART", "POWER_OFF", "DISABLE"}
Report == {"none", "ENABLE_OK", "ENABLE_FAILED", "RESTART_OK", "RESTART_FAILED",
           "POWER_OFF", "DISABLE"}

(* tNFC_CB, with disc_on, whether nfa_dm_cb.disc_cb has discovery started, *)
(* and three fields that record for the properties what the application    *)
(* knows: asked, its last request; report, the tNFC_RESPONSE_CBACK event   *)
(* since; back, the vendor callback invoked by the last step and the       *)
(* request its data answers (0: none).                                     *)
ControlBlock ==
    [nfc_state : NFC_STATE, flags : SUBSET NFC_FL, nci_cmd_window : 0..NCI_MAX_CMD_WINDOW,
     nci_cmd_xmit_q : Seq(Cmd), last_hdr : StackCmd \cup UserCmds \cup {"NONE"},
     nci_wait_rsp_timer : BOOLEAN, p_vsc_cback : 0..MaxCmds, rawVsCbflag : BOOLEAN,
     p_disc_pending : BOOLEAN, disc_on : BOOLEAN, p_resp_cback : BOOLEAN, p_nci_init_rsp : BOOLEAN,
     nci_version : {"UNKNOWN", "1_0", "2_0"}, asked : Request, report : Report,
     back : [to : 0..MaxCmds, answers : 0..MaxCmds]]

(* The HAL thread and the NFCC: link, the transport; pending, commands     *)
(* written and not answered; ntf, a CORE_RESET_NTF is due; job, what the   *)
(* HAL is doing on its own; recovered, answers it will give for commands   *)
(* it resent (the last header may outlive the call-back of its command);   *)
(* mbox and ready, NFC_TASK's mailbox and NFC_TASK_EVT_TRANSPORT_READY;    *)
(* the counters bound the model.                                           *)
HalBlock ==
    [link : {"CLOSED", "OPENING", "OPEN", "CLOSING"}, pending : Seq(Cmd), ntf : BOOLEAN,
     job : {"none", "post_init", "prediscover", "granted"},
     recovered : Seq([op : StackCmd \cup UserCmds, id : 0..MaxCmds]),
     mbox : Seq(Message), ready : BOOLEAN,
     cmds : 0..MaxCmds, calls : 0..MaxCalls, faults : 0..MaxFaults]

TypeOK == env \in Environments /\ nfc_cb \in ControlBlock /\ hal \in HalBlock

Choice == [pre : BOOLEAN, buf : PoolOutcomes, fw : BOOLEAN, idle : BOOLEAN,
           quiet : BOOLEAN]

(* NFC_Init *)
InitNfcCb ==
    [nfc_state |-> "NONE", flags |-> {}, nci_cmd_window |-> NCI_MAX_CMD_WINDOW,
     nci_cmd_xmit_q |-> <<>>, last_hdr |-> "NONE", nci_wait_rsp_timer |-> FALSE,
     p_vsc_cback |-> 0, rawVsCbflag |-> FALSE, p_disc_pending |-> FALSE,
     disc_on |-> FALSE, p_resp_cback |-> FALSE, p_nci_init_rsp |-> FALSE, nci_version |-> "UNKNOWN",
     asked |-> "none", report |-> "none", back |-> NoBack]
InitHal ==
    [link |-> "CLOSED", pending |-> <<>>, ntf |-> FALSE, job |-> "none", recovered |-> <<>>,
     mbox |-> <<>>, ready |-> FALSE, cmds |-> 0, calls |-> 0, faults |-> 0]
Init == env \in Environments /\ nfc_cb = InitNfcCb /\ hal = InitHal

-----------------------------------------------------------------------------
(* The command window.                                                     *)

(* x with another control block, or another HAL. *)
Nfc(x, n) == [nfc |-> n, hal |-> x.hal]
Hal(x, h) == [nfc |-> x.nfc, hal |-> h]

(* A command written to a transport that is not open goes nowhere, and the *)
(* HAL starts nothing on one.                                              *)
HalWrite(h, c) == IF h.link = "OPEN" THEN [h EXCEPT !.pending = Append(@, c)] ELSE h
HalStart(h, job) == IF h.link = "OPEN" THEN [h EXCEPT !.job = job] ELSE h

(* A command goes to the tail of the queue; the head is written when the   *)
(* window is open.  (The code skips the queue when it is empty, which is   *)
(* the same.)                                                              *)
Enqueue(x, c) == Nfc(x, [x.nfc EXCEPT !.nci_cmd_xmit_q = Append(@, c)])

WriteHead(x) ==
    LET n == x.nfc  c == Head(n.nci_cmd_xmit_q) IN
    IF n.nci_cmd_window = 0 \/ n.nci_cmd_xmit_q = <<>> THEN x
    ELSE [nfc |-> [n EXCEPT !.nci_cmd_xmit_q = Tail(@), !.last_hdr = c.op,
                            !.p_vsc_cback = IF c.id # 0 THEN c.id ELSE @,
                            !.rawVsCbflag = @ \/ c.op = "RAW",
                            !.nci_cmd_window = @ - 1, !.nci_wait_rsp_timer = TRUE],
          hal |-> HalWrite(x.hal, c)]

(* With the window open again, a requested control of it is handed over:   *)
(* to the HAL before discovery, to the discovery command, or to a HAL that *)
(* asked.                                                                  *)
SendDiscover(x, ch) ==
    LET y == Nfc(x, [x.nfc EXCEPT !.flags = @ \ {"DISCOVER_PENDING"}, !.p_disc_pending = FALSE])
    IN  IF ch.buf THEN WriteHead(Enqueue(y, Internal("DISCOVER"))) ELSE y

HandOver(x, ch) ==
    LET n == [x.nfc EXCEPT !.flags = @ \ {"CONTROL_REQUESTED"}]
        Granted(flags, job) ==
            [nfc |-> [n EXCEPT !.flags = flags \cup {"CONTROL_GRANTED"}, !.nci_cmd_window = 0],
             hal |-> HalStart(x.hal, job)]
    IN
    IF x.nfc.nci_cmd_window # NCI_MAX_CMD_WINDOW \/ "CONTROL_REQUESTED" \notin x.nfc.flags THEN x
    ELSE IF "DISCOVER_PENDING" \in x.nfc.flags
         THEN IF ch.pre
              THEN Granted(n.flags, "prediscover")
              ELSE SendDiscover(Nfc(x, n), ch)
    ELSE IF "HAL_REQUESTED" \in x.nfc.flags
         THEN Granted(n.flags \ {"HAL_REQUESTED"}, "granted")
    ELSE Nfc(x, n)

CheckCmdQueue(x, ch) == HandOver(WriteHead(x), ch)
SendCmd(x, c, ch) == CheckCmdQueue(Enqueue(x, c), ch)
(* nci_snd_...: nothing is sent when no buffer is left. *)
Send(x, op, ch) == IF ch.buf THEN SendCmd(x, Internal(op), ch) ELSE x

(* Faulty variant: the queue is not looked at when the window opens.       *)
UpdateWindow_NoCheck(x, ch) ==
    IF x.nfc.nci_cmd_window = NCI_MAX_CMD_WINDOW THEN x
    ELSE Nfc(x, [x.nfc EXCEPT !.nci_wait_rsp_timer = FALSE, !.p_vsc_cback = 0,
                              !.nci_cmd_window = @ + 1])

UpdateWindow(x, ch) ==
    IF x.nfc.nci_cmd_window = NCI_MAX_CMD_WINDOW THEN x
    ELSE CheckCmdQueue(Nfc(x, [x.nfc EXCEPT !.nci_wait_rsp_timer = FALSE, !.p_vsc_cback = 0,
                                            !.nci_cmd_window = @ + 1]), ch)

Flagged(x, flags) == Nfc(x, [x.nfc EXCEPT !.flags = @ \cup flags])

FlushCmdQueue(x) == Nfc(x, [x.nfc EXCEPT !.nci_cmd_window = NCI_MAX_CMD_WINDOW,
                                         !.nci_wait_rsp_timer = FALSE, !.nci_cmd_xmit_q = <<>>])

-----------------------------------------------------------------------------
(* Start and stop.                                                         *)
SetState(x, st) == Nfc(x, [x.nfc EXCEPT !.nfc_state = st])

NotifyEnableStatus(x, ok) ==
    LET restarting == x.nfc.flags \cap {"RESTARTING", "POWER_CYCLE_NFCC"} # {}
        kept == x.nfc.flags \ {"RESTARTING", "POWER_CYCLE_NFCC"}
    IN  IF ~x.nfc.p_resp_cback THEN x
        ELSE IF restarting
        THEN Nfc(x, [x.nfc EXCEPT !.flags = IF ok THEN kept ELSE kept \cup {"POWER_OFF_SLEEP"},
                                  !.report = IF ok THEN "RESTART_OK" ELSE "RESTART_FAILED"])
        ELSE Nfc(x, [x.nfc EXCEPT !.report = IF ok THEN "ENABLE_OK" ELSE "ENABLE_FAILED"])

(* When the transport goes up or down the HAL drops what it was doing.     *)
Transport(h, link) == [h EXCEPT !.link = link, !.pending = <<>>, !.ntf = FALSE,
                                !.job = "none", !.recovered = <<>>]
HalOpen(x) == Hal(SetState(x, "W4_HAL_OPEN"), Transport(x.hal, "OPENING"))
HalClose(x) == Hal(x, Transport(x.hal, "CLOSING"))

(* Faulty variant: the failure is reported before the HAL is closed.       *)
Enabled_ReportsFirst(x, ok, ch) ==
    IF ok THEN NotifyEnableStatus(Send(SetState(x, "IDLE"), "DISCOVER_MAP", ch), TRUE)
    ELSE IF x.nfc.nfc_state = "CORE_INIT" THEN HalClose(NotifyEnableStatus(x, FALSE))
    ELSE NotifyEnableStatus(SetState(x, "NONE"), FALSE)

Enabled(x, ok, ch) ==
    IF ok THEN NotifyEnableStatus(Send(SetState(x, "IDLE"), "DISCOVER_MAP", ch), TRUE)
    ELSE IF "RESTARTING" \in x.nfc.flags
         THEN NotifyEnableStatus(SetState(x, "NFCC_POWER_OFF_SLEEP"), FALSE)
    ELSE IF x.nfc.nfc_state = "CORE_INIT" THEN HalClose(x)
    ELSE NotifyEnableStatus(SetState(x, "NONE"), FALSE)

GenCleanup(x) ==
    FlushCmdQueue(Nfc(x, [x.nfc EXCEPT
        !.flags = @ \ {"DISCOVER_PENDING", "CONTROL_REQUESTED", "CONTROL_GRANTED", "HAL_REQUESTED"},
        !.p_disc_pending = @ /\ "DISCOVER_PENDING" \notin x.nfc.flags,
        !.disc_on = FALSE, !.p_nci_init_rsp = FALSE]))

ShutdownNfcc(x) ==
    LET y == GenCleanup(Hal(x, [x.hal EXCEPT !.mbox = <<>>])) IN
    IF "POWER_OFF_SLEEP" \notin x.nfc.flags /\ "POWER_CYCLE_NFCC" \in x.nfc.flags
    THEN HalOpen(y)
    ELSE HalClose(SetState(y, "W4_HAL_CLOSE"))

Disabled(x) ==
    Nfc(x, [x.nfc EXCEPT !.nfc_state = "NONE", !.report = "DISABLE", !.p_resp_cback = FALSE])

(* NFC_Disable *)
Disable(x) ==
    IF x.nfc.nfc_state \in {"NONE", "NFCC_POWER_OFF_SLEEP"} THEN Disabled(x) ELSE ShutdownNfcc(x)

-----------------------------------------------------------------------------
(* Command time-out: recovery by the HAL.                                  *)

(* core_initialized() in recovery mode: the HAL resets the NFCC, sends     *)
(* again the discovery command if discovery was on and then the last       *)
(* command, as the buffer this function fills tells it to, and passes on   *)
(* the answers to these.  A DEACTIVATE to sleep or discovery, which is     *)
(* sent only with discovery on, is not sent again; a CORE_INIT without     *)
(* parameters (NCI 1.0) is only named in the buffer ("indicate last        *)
(* command was CORE_INIT"), and the HAL passes on the answer to its own.   *)
Expired(x) == Nfc(x, [x.nfc EXCEPT !.nci_wait_rsp_timer = FALSE])
Resend(x, cmds) ==
    IF x.hal.link # "OPEN" THEN x
    ELSE Hal(x, [x.hal EXCEPT !.pending = <<>>, !.ntf = FALSE, !.recovered = cmds])

(* Faulty variants: every time-out closes the HAL; the last command is not *)
(* sent again.                                                             *)
CmdTimeout_GivesUp(x, ch) == HalClose(Expired(x))
CmdTimeout_NoResend(x, ch) ==
    Resend(Expired(x), IF x.nfc.disc_on THEN <<Internal("DISCOVER")>> ELSE <<>>)

CmdTimeout(x, ch) ==
    LET y == Expired(x)
        disc == IF x.nfc.disc_on THEN <<Internal("DISCOVER")>> ELSE <<>>
        again == \/ x.nfc.last_hdr = "DEACTIVATE" /\ (ch.idle \/ ~x.nfc.disc_on)
                 \/ x.nfc.last_hdr \notin {"NONE", "DEACTIVATE"}
        last == IF again
                THEN <<[op |-> x.nfc.last_hdr,
                        id |-> IF x.nfc.last_hdr \in UserCmds THEN x.nfc.p_vsc_cback ELSE 0]>>
                ELSE <<>>
    IN  Resend(IF x.nfc.nfc_state = "CORE_INIT" /\ ~ch.fw THEN Enabled(y, FALSE, ch) ELSE y,
               disc \o last)

-----------------------------------------------------------------------------
(* Responses and notifications.                                            *)

(* A vendor callback, if one is set, gets the message. *)
VendorCallback(x, m) ==
    IF x.nfc.p_vsc_cback = 0 THEN x
    ELSE Nfc(x, [x.nfc EXCEPT !.back = [to |-> x.nfc.p_vsc_cback, answers |-> m.id]])

RawVsRsp(x, m, ch) ==
    LET y == VendorCallback(x, m)
        z == UpdateWindow(Nfc(y, [y.nfc EXCEPT !.p_vsc_cback = 0, !.rawVsCbflag = FALSE]), ch)
    IN  Nfc(z, [z.nfc EXCEPT !.rawVsCbflag = FALSE])

(* nfc_ncif_proc_reset_rsp, for the response and for the notification.  A  *)
(* refused CORE_RESET stops the stack and reports the failure, unless      *)
(* core_reset_init_num_buff is set: a CORE_RESET_NTF with an error does    *)
(* that, and the next data sent takes it back.  (nfa_dm_is_active: NFA is  *)
(* neither being enabled nor waking up.)                                   *)
Silenced(ch) == "reset" \in env.faults /\ ch.quiet
DmIsActive(x) == "POWER_CYCLE_NFCC" \in x.nfc.flags
ProcResetRsp(x, m, ch) ==
    LET y == IF NciVersion = "2_0" THEN x ELSE Nfc(x, [x.nfc EXCEPT !.nci_version = "1_0"]) IN
    IF ~m.ok THEN IF Silenced(ch) THEN y
                  ELSE Enabled(IF DmIsActive(y) THEN y ELSE Disable(y), FALSE, ch)
    ELSE IF NciVersion = "2_0" THEN Nfc(y, [y.nfc EXCEPT !.nci_wait_rsp_timer = TRUE])
    ELSE Send(y, "CORE_INIT", ch)
ProcResetNtf(x, m, ch) ==
    IF m.ok THEN Send(Nfc(x, [x.nfc EXCEPT !.nci_wait_rsp_timer = FALSE, !.nci_version = "2_0"]),
                      "CORE_INIT", ch)
    ELSE IF x.nfc.nfc_state = "IDLE" THEN CmdTimeout(x, ch)
    ELSE x

(* A refused CORE_INIT ends the start, or starts it again from CORE_RESET  *)
(* when the version of the firmware is missing (NCI 1.0; how often is left *)
(* open).  The version of NCI is known here: a CORE_RESET answer of either *)
(* length tells it, and one of another length is not modelled.             *)
ProcInitRsp(x, m, ch) ==
    IF m.ok THEN [nfc |-> [x.nfc EXCEPT !.nfc_state = "W4_POST_INIT_CPLT", !.p_nci_init_rsp = TRUE],
                  hal |-> HalStart(x.hal, "post_init")]
    ELSE IF x.nfc.nci_version # "2_0" /\ ch.fw THEN Hal(x, [x.hal EXCEPT !.ready = TRUE])
    ELSE Enabled(x, FALSE, ch)

(* A response that does not match the last command is dropped, but for the *)
(* DISCOVER response of a recovery.  (No command: the saved header is 0,   *)
(* that of a CORE_RESET.)                                                  *)
ProcRsp(x, m, ch) ==
    LET expected == m.op = IF x.nfc.last_hdr = "NONE" THEN "CORE_RESET" ELSE x.nfc.last_hdr
        stray == m.op = "DISCOVER" /\ x.nfc.nci_cmd_window = 0
        y == IF expected THEN x ELSE Nfc(x, [x.nfc EXCEPT !.nci_cmd_window = @ + 1])
        z == CASE m.op = "CORE_RESET" -> ProcResetRsp(y, m, ch)
               [] m.op = "CORE_INIT"  -> ProcInitRsp(y, m, ch)
               [] m.op \in UserCmds   -> VendorCallback(y, m)
               [] m.op = "DISCOVER"   -> Nfc(y, [y.nfc EXCEPT !.disc_on = TRUE])
               [] m.op = "DEACTIVATE" -> Nfc(y, [y.nfc EXCEPT !.disc_on = @ /\ ~ch.idle])
               [] m.op = "DISCOVER_MAP" -> y
    IN  IF ~expected /\ ~stray THEN x
        ELSE UpdateWindow(Nfc(z, [z.nfc EXCEPT !.last_hdr = "NONE"]), ch)

(* nfc_ncif_process_event.  While a raw vendor command waits, any message  *)
(* but a CORE_RESET_NTF is its answer.                                     *)
(* Faulty variant: any other notification opens the command window.        *)
ProcessEvent_NtfOpensWindow(x, m, ch) ==
    IF m.mt = "RSP" THEN ProcRsp(x, m, ch)
    ELSE IF m.op = "CORE_RESET" THEN ProcResetNtf(x, m, ch)
    ELSE UpdateWindow(x, ch)

ProcessEvent(x, m, ch) ==
    IF x.nfc.rawVsCbflag /\ (m.mt = "RSP" \/ m.op # "CORE_RESET") THEN RawVsRsp(x, m, ch)
    ELSE IF m.mt = "RSP" THEN ProcRsp(x, m, ch)
    ELSE IF m.op = "CORE_RESET" THEN ProcResetNtf(x, m, ch)
    ELSE x

(* nfc_main_handle_hal_evt *)
HandleClose(x) ==
    IF ~x.nfc.p_resp_cback THEN x
    ELSE IF x.nfc.nfc_state # "W4_HAL_CLOSE"
         THEN NotifyEnableStatus(SetState(x, "NONE"), FALSE)
    ELSE IF "POWER_OFF_SLEEP" \in x.nfc.flags
         THEN Nfc(x, [x.nfc EXCEPT !.nfc_state = "NFCC_POWER_OFF_SLEEP",
                                   !.flags = @ \ {"POWER_OFF_SLEEP"}, !.report = "POWER_OFF"])
    ELSE Disabled(x)

HandlePostInit(x, ok, ch) ==
    LET y == IF x.nfc.nfc_state = "W4_POST_INIT_CPLT" THEN Enabled(x, ok, ch) ELSE x
    IN  IF x.nfc.p_nci_init_rsp THEN Nfc(y, [y.nfc EXCEPT !.p_nci_init_rsp = FALSE]) ELSE x

(* The HAL gives the command window back. *)
GivenBack(x) == Nfc(x, [x.nfc EXCEPT !.nci_cmd_window = NCI_MAX_CMD_WINDOW,
                                     !.flags = @ \ {"CONTROL_GRANTED"}])

HandlePreDiscover(x, ch) ==
    LET y == GivenBack(x)
    IN  IF "DISCOVER_PENDING" \in x.nfc.flags THEN SendDiscover(y, ch)
        ELSE CheckCmdQueue(y, ch)

HandleRelease(x, ch) ==
    IF "CONTROL_GRANTED" \notin x.nfc.flags THEN x
    ELSE CheckCmdQueue(GivenBack(x), ch)

(* An error while the stack is starting ends the start. *)
Starting == {"NONE", "W4_HAL_OPEN", "CORE_INIT", "W4_POST_INIT_CPLT"}
HandleHalEvt(x, m, ch) ==
    CASE m.op = "OPEN_CPLT"         -> Enabled(x, FALSE, ch)
      [] m.op = "CLOSE_CPLT"        -> HandleClose(x)
      [] m.op = "POST_INIT_CPLT"    -> HandlePostInit(x, m.ok, ch)
      [] m.op = "PRE_DISCOVER_CPLT" -> HandlePreDiscover(x, ch)
      [] m.op = "REQUEST_CONTROL"   ->
            CheckCmdQueue(Flagged(x, {"CONTROL_REQUESTED", "HAL_REQUESTED"}), ch)
      [] m.op = "RELEASE_CONTROL"   -> HandleRelease(x, ch)
      [] m.op = "ERROR"             ->
            IF x.nfc.p_resp_cback /\ x.nfc.nfc_state \in Starting THEN Enabled(x, FALSE, ch) ELSE x

-----------------------------------------------------------------------------
(* Steps of NFC_TASK.                                                      *)
Now == [nfc |-> [nfc_cb EXCEPT !.back = NoBack], hal |-> hal]
Become(x) == nfc_cb' = x.nfc /\ hal' = x.hal /\ UNCHANGED env

(* NFC_TASK_EVT_TRANSPORT_READY *)
TransportReady ==
    /\ hal.ready
    /\ \E ch \in Choice :
        Become(Send(SetState(Hal(Now, [hal EXCEPT !.ready = FALSE]), "CORE_INIT"), "CORE_RESET", ch))

ReadMbox ==
    /\ hal.mbox # <<>>
    /\ \E ch \in Choice :
        LET m == Head(hal.mbox)  x == Hal(Now, [hal EXCEPT !.mbox = Tail(@)]) IN
        Become(IF m.mt = "EVT" THEN HandleHalEvt(x, m, ch) ELSE ProcessEvent(x, m, ch))

(* Something is on its way from the NFCC to NFC_TASK. *)
Coming == \/ hal.pending # <<>> \/ hal.ntf \/ hal.recovered # <<>>
          \/ \E i \in DOMAIN hal.mbox : hal.mbox[i].mt # "EVT"

MayFail(f) == f \in env.faults /\ hal.faults < MaxFaults

(* nfc_process_timer_evt: nothing expires while the HAL closes.            *)
TimeoutBut(h) ==
    /\ nfc_cb.nci_wait_rsp_timer /\ nfc_cb.nfc_state \notin {"W4_HAL_CLOSE", "NONE"}
    /\ \E ch \in Choice : Become(CmdTimeout(Hal(Now, h), ch))
WaitRspTimeout == ~Coming /\ TimeoutBut(hal)
EarlyTimeout == /\ Coming /\ MayFail("slow")
                /\ TimeoutBut([hal EXCEPT !.faults = @ + 1])

(* API functions, called by NFA on NFC_TASK.                               *)
MayCall(c) == c \in env.calls /\ hal.calls < MaxCalls
Called(x) == Hal(x, [x.hal EXCEPT !.calls = @ + 1])
Asked(x, what) == Nfc(x, [x.nfc EXCEPT !.asked = what, !.report = "none"])

(* A start of the stack runs the tasks anew and calls NFC_Init first.      *)
NfcEnable ==
    /\ hal.calls < MaxCalls /\ ~nfc_cb.p_resp_cback
    /\ Become(HalOpen([nfc |-> [InitNfcCb EXCEPT !.p_resp_cback = TRUE, !.asked = "ENABLE"],
                        hal |-> [hal EXCEPT !.calls = @ + 1, !.mbox = <<>>, !.ready = FALSE]]))

NfcDisable ==
    /\ nfc_cb.p_resp_cback /\ nfc_cb.nfc_state # "W4_HAL_CLOSE"
    /\ \/ "disable_early" \in env.calls
       \/ "disable" \in env.calls /\ nfc_cb.report # "none"
    /\ Become(Disable(Asked(Now, "DISABLE")))

NfcDiscoveryStart ==
    /\ MayCall("discover") /\ nfc_cb.nfc_state = "IDLE" /\ ~nfc_cb.p_disc_pending
    /\ \E ch \in Choice, buf \in PoolOutcomes :
        LET x == Flagged(Called(Now), {"DISCOVER_PENDING", "CONTROL_REQUESTED"})
        IN  Become(IF buf THEN CheckCmdQueue(Nfc(x, [x.nfc EXCEPT !.p_disc_pending = TRUE]), ch)
                   ELSE x)

NfcDeactivate ==
    /\ MayCall("deactivate") /\ nfc_cb.nfc_state = "IDLE"
    /\ \E ch \in Choice :
        Become(IF "DISCOVER_PENDING" \in nfc_cb.flags
               THEN Nfc(Called(Now), [Now.nfc EXCEPT
                        !.flags = @ \ ({"DISCOVER_PENDING"} \cup
                            IF "HAL_REQUESTED" \in @ THEN {} ELSE {"CONTROL_REQUESTED"}),
                        !.p_disc_pending = FALSE])
               ELSE Send(Called(Now), "DEACTIVATE", ch))

(* NFC_SendVsCommand and NFC_SendRawVsCommand *)
NfcSendVsCommand ==
    /\ hal.cmds < MaxCmds /\ nfc_cb.nfc_state = "IDLE"
    /\ \E op \in UserCmds, ch \in Choice :
        Become(SendCmd(Hal(Now, [hal EXCEPT !.cmds = @ + 1]), [op |-> op, id |-> hal.cmds + 1], ch))

NfcSetPowerOffSleep ==
    /\ MayCall("sleep")
    /\ \/ /\ nfc_cb.nfc_state = "NFCC_POWER_OFF_SLEEP"
          /\ Become(HalOpen(Asked(Flagged(Called(Now), {"RESTARTING"}), "RESTART")))
       \/ /\ nfc_cb.nfc_state = "IDLE"
          /\ Become(ShutdownNfcc(Asked(Flagged(Called(Now), {"POWER_OFF_SLEEP"}), "POWER_OFF")))

NfcPowerCycleNFCC ==
    /\ MayCall("cycle") /\ nfc_cb.nfc_state = "IDLE"
    /\ Become(ShutdownNfcc(Asked(Flagged(Called(Now), {"POWER_CYCLE_NFCC"}), "RESTART")))

-----------------------------------------------------------------------------
(* Steps of the HAL thread.                                                *)
HalIs(h) == hal' = h /\ UNCHANGED <<nfc_cb, env>>

(* nfc_main_post_hal_evt *)
PostHalEvt(h, e, ok) == [h EXCEPT !.mbox = Append(@, Evt(e, ok))]
(* nfc_main_hal_data_cback: nothing is passed on while the HAL closes. *)
HalDataCback(h, m) ==
    IF nfc_cb.nfc_state = "W4_HAL_CLOSE" THEN h ELSE [h EXCEPT !.mbox = Append(@, m)]

(* nfc_main_hal_cback, HAL_NFC_OPEN_CPLT_EVT *)
HalOpenCplt ==
    /\ hal.link = "OPENING"
    /\ \E ok \in BOOLEAN :
        /\ ok \/ MayFail("open")
        /\ LET h == [hal EXCEPT !.link = IF ok THEN "OPEN" ELSE "CLOSED",
                                !.faults = IF ok THEN @ ELSE @ + 1] IN
           HalIs(IF nfc_cb.nfc_state # "W4_HAL_OPEN" THEN h
                 ELSE IF ok THEN [h EXCEPT !.ready = TRUE]
                 ELSE PostHalEvt(h, "OPEN_CPLT", FALSE))

HalCloseCplt ==
    /\ hal.link = "CLOSING"
    /\ HalIs(PostHalEvt([hal EXCEPT !.link = "CLOSED"], "CLOSE_CPLT", TRUE))

(* The answer of the NFCC to command c reaches the host. *)
Answer(h, c, ok) ==
    HalDataCback([h EXCEPT !.ntf = @ \/ (ok /\ c.op = "CORE_RESET" /\ NciVersion = "2_0")], Rsp(c, ok))

(* The NFCC answers, or refuses to start, or the answer is lost. *)
Refusal(op) == IF op = "CORE_RESET" THEN "reset_refused" ELSE "init_refused"
HalRsp ==
    /\ hal.link = "OPEN" /\ hal.pending # <<>>
    /\ LET c == Head(hal.pending)  h == [hal EXCEPT !.pending = Tail(@)] IN
       \/ HalIs(Answer(h, c, TRUE))
       \/ /\ c.op \in {"CORE_RESET", "CORE_INIT"} /\ MayFail(Refusal(c.op))
          /\ HalIs(Answer([h EXCEPT !.faults = @ + 1], c, FALSE))
       \/ MayFail("lost_rsp") /\ HalIs([h EXCEPT !.faults = @ + 1])

HalResetNtf ==
    /\ hal.link = "OPEN" /\ hal.ntf
    /\ \/ HalIs(HalDataCback([hal EXCEPT !.ntf = FALSE], Ntf("CORE_RESET", TRUE)))
       \/ MayFail("lost_ntf") /\ HalIs([hal EXCEPT !.ntf = FALSE, !.faults = @ + 1])

(* A notification nobody asked for; an NFCC that reset itself. *)
HalStrayNtf ==
    /\ hal.link = "OPEN" /\ nfc_cb.nfc_state = "IDLE"
    /\ \/ /\ MayFail("stray")
          /\ HalIs(HalDataCback([hal EXCEPT !.faults = @ + 1], Ntf("OTHER", TRUE)))
       \/ /\ MayFail("reset")
          /\ HalIs(HalDataCback([hal EXCEPT !.faults = @ + 1, !.pending = <<>>],
                                Ntf("CORE_RESET", FALSE)))

(* After recovery the HAL passes on the answers to the commands it resent. *)
HalRecovered ==
    /\ hal.link = "OPEN" /\ hal.recovered # <<>>
    /\ HalIs(Answer([hal EXCEPT !.recovered = Tail(@)], Head(hal.recovered), TRUE))

(* The HAL completes core_initialized(), prediscover() or the use of the   *)
(* command window it was granted.                                          *)
JobDone(j) == CASE j = "post_init"   -> "POST_INIT_CPLT"
                [] j = "prediscover" -> "PRE_DISCOVER_CPLT"
                [] j = "granted"     -> "RELEASE_CONTROL"
HalJobDone ==
    /\ hal.link = "OPEN" /\ hal.job # "none"
    /\ \E ok \in BOOLEAN :
        /\ ok \/ (hal.job = "post_init" /\ MayFail("post_init"))
        /\ HalIs(PostHalEvt([hal EXCEPT !.job = "none", !.faults = IF ok THEN @ ELSE @ + 1],
                            JobDone(hal.job), ok))

HalRequestControl ==
    /\ hal.link = "OPEN" /\ nfc_cb.nfc_state = "IDLE" /\ hal.job = "none" /\ MayCall("control")
    /\ HalIs(PostHalEvt([hal EXCEPT !.calls = @ + 1], "REQUEST_CONTROL", TRUE))

HalError ==
    /\ hal.link = "OPEN" /\ MayFail("error")
    /\ HalIs(PostHalEvt([hal EXCEPT !.faults = @ + 1], "ERROR", TRUE))

Task == TransportReady \/ ReadMbox \/ WaitRspTimeout
Answers == HalOpenCplt \/ HalCloseCplt \/ HalRsp \/ HalResetNtf \/ HalRecovered \/ HalJobDone
Api == \/ NfcEnable \/ NfcDisable \/ NfcDiscoveryStart \/ NfcDeactivate
       \/ NfcSendVsCommand \/ NfcSetPowerOffSleep \/ NfcPowerCycleNFCC
Next == \/ Task \/ EarlyTimeout \/ Api
        \/ Answers \/ HalStrayNtf \/ HalRequestControl \/ HalError
Spec == Init /\ [][Next]_vars

(* NFC_TASK goes on handling its events and its timer, and the HAL goes on *)
(* completing what it was asked to do: two threads the system schedules.   *)
TimerDue == ~Coming /\ nfc_cb.nci_wait_rsp_timer /\ nfc_cb.nfc_state \notin {"W4_HAL_CLOSE", "NONE"}
TaskDue == hal.ready \/ hal.mbox # <<>> \/ TimerDue
HalDue ==
    \/ hal.link \in {"OPENING", "CLOSING"}
    \/ hal.link = "OPEN" /\ (hal.pending # <<>> \/ hal.ntf \/ hal.recovered # <<>> \/ hal.job # "none")
Fairness ==
    /\ []<>~TaskDue \/ []<><<Task>>_vars
    /\ []<>~HalDue \/ []<><<Answers>>_vars
FairSpec == Spec /\ Fairness

-----------------------------------------------------------------------------
(* Properties.                                                             *)

Responses == Cardinality({i \in DOMAIN hal.mbox : hal.mbox[i].mt = "RSP"})
InMbox(e) == \E i \in DOMAIN hal.mbox : hal.mbox[i].op = e
HalHasControl == \/ hal.job \in {"prediscover", "granted"}
                 \/ InMbox("PRE_DISCOVER_CPLT") \/ InMbox("RELEASE_CONTROL")

(* nci_cmd_window is right: never more commands are unanswered, or their   *)
(* answers unread, than the window leaves closed ("number of commands the  *)
(* controller can accept without waiting for response").                   *)
WindowRespected ==
    nfc_cb.nci_cmd_window + Len(hal.pending) + Responses <= NCI_MAX_CMD_WINDOW

(* While the HAL has control of the command window the stack has no        *)
(* command outstanding and writes none.                                    *)
HalHasChannel ==
    hal.job \in {"prediscover", "granted"} =>
        /\ "CONTROL_GRANTED" \in nfc_cb.flags
        /\ nfc_cb.nci_cmd_window = 0 /\ hal.pending = <<>> /\ Responses = 0

(* The command channel has one owner: the window counts what is            *)
(* outstanding, and the HAL has it for itself when it has control.  With   *)
(* NCI_MAX_CMD_WINDOW as nfc_target.h defines it (with more, the DISCOVER  *)
(* response of a recovery counts twice) and as long as no command has to   *)
(* time out: every answer comes and in time, no raw vendor command meets a *)
(* notification, the stack is not disabled before it has started, and a    *)
(* restart from sleep fails only before the transport is open.  A recovery *)
(* resends a command that may have been answered after all, or a second    *)
(* time when the NFCC resets itself meanwhile.                             *)
NoRecovery ==
    /\ env.faults \cap {"lost_rsp", "slow", "reset"} = {}
    /\ ~("RAW" \in env.user_cmds /\ "stray" \in env.faults)
    /\ "disable_early" \notin env.calls
    /\ "sleep" \in env.calls => env.faults \subseteq {"open", "lost_ntf", "stray"}
ChannelOwned ==
    /\ TypeOK
    /\ (NCI_MAX_CMD_WINDOW = 1 /\ NoRecovery) => (WindowRespected /\ HalHasChannel)

(* And no command of a start is refused. *)
Undisturbed == NoRecovery /\ env.faults \cap {"reset_refused", "init_refused"} = {}

(* A closed command window will open again: the response timer runs, or    *)
(* the HAL has control, or recovery or a response read will do it.         *)
WindowReopens ==
    (nfc_cb.nfc_state \in {"CORE_INIT", "IDLE"} /\ hal.link = "OPEN" /\ nfc_cb.nci_cmd_window = 0)
      => \/ nfc_cb.nci_wait_rsp_timer \/ hal.recovered # <<>> \/ Responses # 0
         \/ HalHasControl

(* No command waits in nci_cmd_xmit_q while the window is open.            *)
NoIdleQueue == nfc_cb.nci_cmd_window > 0 => nfc_cb.nci_cmd_xmit_q = <<>>

(* The response to a vendor command is reported to the callback given with *)
(* it (NFC_SendVsCommand, NFC_SendRawVsCommand: "the response from NFCC is *)
(* reported to the given tNFC_VS_CBACK").                                  *)
VendorAnswer == nfc_cb.back.to = nfc_cb.back.answers

(* The event reported after a request is one of those that answer it       *)
(* (NFC_Disable: "when the NFC shutdown procedure is completed, an         *)
(* NFC_DISABLED_REVT is returned").                                        *)
AnswerTo(r) == CASE r = "ENABLE"    -> {"ENABLE_OK", "ENABLE_FAILED"}
                 [] r = "RESTART"   -> {"RESTART_OK", "RESTART_FAILED"}
                 [] r = "POWER_OFF" -> {"POWER_OFF"}
                 [] r = "DISABLE"   -> {"DISABLE"}
                 [] r = "none"      -> {}
ReportMatches == nfc_cb.report \in AnswerTo(nfc_cb.asked) \cup {"none"}

(* A request is answered once.                                             *)
OneReportStep == \/ nfc_cb'.report \in {nfc_cb.report, "none"}
                 \/ nfc_cb.report = "none" \/ nfc_cb'.asked # nfc_cb.asked

(* A failed start, a power-off and a disable are reported after the HAL is *)
(* closed (nfc_main_handle_hal_evt: "notify upper layer of failure after   *)
(* closing HAL").                                                          *)
ClosedWhenReported ==
    nfc_cb.report \in {"ENABLE_FAILED", "RESTART_FAILED", "POWER_OFF", "DISABLE"}
        => hal.link = "CLOSED"

(* What is reported answers what was asked, once, with the HAL closed when *)
(* it says so.  Answers may be lost, CORE_INIT may be refused and the NFCC *)
(* may reset itself, but none comes after its time-out; the HAL reports no *)
(* error; the stack is not disabled before it has started; CORE_RESET is   *)
(* not refused (NFC_Disable takes the stack out of CORE_INIT, so that      *)
(* nfc_enabled reports the failure while the HAL closes, and CLOSE_CPLT    *)
(* reports it again); and a restart from sleep meets neither a lost or     *)
(* refusing response nor a transport that does not open (a second restart  *)
(* keeps POWER_OFF_SLEEP then, and the next disable is reported as a       *)
(* power-off).                                                             *)
Timely ==
    /\ env.faults \cap {"error", "post_init", "slow", "reset_refused"} = {}
    /\ "disable_early" \notin env.calls
    /\ "sleep" \in env.calls => env.faults \subseteq {"stray", "lost_ntf"}

(* A vendor response goes to the callback given with its command: with a   *)
(* window of one command, as long as nothing has to be sent again, and no  *)
(* raw vendor command is outstanding when the NFCC restarts (its callback  *)
(* would take the response to CORE_RESET).                                 *)
Addressed ==
    /\ NCI_MAX_CMD_WINDOW = 1 /\ Undisturbed
    /\ ~("RAW" \in env.user_cmds /\ env.calls \cap {"sleep", "cycle"} # {})

AnswersMatch ==
    /\ Timely => ReportMatches /\ ClosedWhenReported
    /\ Addressed => VendorAnswer
OneReportInTime == [][Timely => OneReportStep]_vars

(* A shutdown is left only when the HAL is closed (nfc_main_hal_cback: "if *)
(* NFC_Disable() is called before receiving HAL_NFC_OPEN_CPLT_EVT, then    *)
(* wait for HAL_NFC_CLOSE_CPLT_EVT").                                      *)
ShutdownWaits ==
    [][nfc_cb.nfc_state = "W4_HAL_CLOSE" /\ nfc_cb'.nfc_state # "W4_HAL_CLOSE"
         => hal.link = "CLOSED"]_vars
=============================================================================
