------------------------------ MODULE NfaDmDisc -----------------------------
(***************************************************************************)
(* RF discovery in NFA DM (nfa_dm_discover.cc, the discovery part of       *)
(* nfa_dm_act.cc) with the presence check of NFA RW, the discovery calls   *)
(* of the NFC core and the shutdown of NFA (nfa_sys_main.cc).              *)
(*                                                                         *)
(* Everything runs in the NFC task: its state is one record, "host", and a *)
(* handler is an operator from that record to the next one.  The           *)
(* application's calls are modelled when the task handles their message.   *)
(* Commands wait in nci_cmd_xmit_q, the first one is at the NFCC; responses*)
(* and notifications come back in order in "up".                           *)
(*                                                                         *)
(* Poll mode is served by NFA DM's own entry, which passes tags to NFA RW, *)
(* listen mode by the entry of another module.  Tags are activated with    *)
(* the frame interface and checked by putting them to sleep and waking     *)
(* them (T2T that are not NFC Forum, MIFARE).  Exclusive RF control, P2P   *)
(* priority logic, Kovio, low power listening, ETSI reader mode, the halted *)
(* T2T and the HAL's prediscover are left out; GKI_getbuf does not fail and*)
(* auto_presence_check is false, as Android has it.                        *)
(*                                                                         *)
(* Ghost data: "acts" counts NFA_ACTIVATED_EVT since NFA_DEACTIVATED_EVT,  *)
(* up to 2; "waits" are the events the application waits for; "forced"     *)
(* records that the timer of the graceful shutdown expired.                *)
(***************************************************************************)
EXTENDS Integers, Sequences, FiniteSets

CONSTANT Environments   \* what may surround NFA DM: see Environment

Call == {"start", "stop", "sleep", "deactivate", "check", "select", "enable_polling",
         "disable_polling", "disable"}

(* What the RF field may do: several tags, loss of a link, a lost          *)
(* activation after a selection, and an NFCC that refuses to put a tag to  *)
(* sleep or rejects a second deactivation.                                 *)
Rf == {"multi", "abort", "linkloss", "sleeploss", "interror", "refuse", "reject"}

Mode == {"poll", "listen"}

(* The calls made, in any order if not patient (else one at a time, each   *)
(* after the events of the one before) and at most max_calls in all; the   *)
(* modes with a registered entry; whether the 8 s timer of a deactivation  *)
(* may expire although the notification is coming.                         *)
Environment == [name : STRING, calls : SUBSET Call, patient : BOOLEAN, modes : SUBSET Mode,
                rf : SUBSET Rf, proto : {"T2T", "MIFARE"}, early : BOOLEAN, max_calls : Nat]

ASSUME EnvAssumption == Environments \subseteq Environment

VARIABLES
    host,      \* the NFC task
    nfcc,      \* the NFCC
    up,        \* messages of the NFCC to the task
    env        \* the environment of this behaviour, chosen at the start

vars == <<host, nfcc, up, env>>
-----------------------------------------------------------------------------
(* Data.                                                                   *)

RFST == {"IDLE", "DISCOVERY", "W4_ALL_DISCOVERIES", "W4_HOST_SELECT", "POLL_ACTIVE",
         "LISTEN_ACTIVE", "LISTEN_SLEEP"}

DISC_FLAGS == {"ENABLED", "STOPPING", "DISABLING", "CHECKING", "NOTIFY", "W4_RSP", "W4_NTF"}

DEACTIVATE_TYPE == {"IDLE", "SLEEP", "DISCOVERY"}

Command == {"DISCOVER", "SELECT"} \union DEACTIVATE_TYPE

Rsp == {"DISCOVER_RSP", "SELECT_RSP", "DEACTIVATE_RSP"}

(* arg: a status, the mode or type of a notification.                      *)
Message == [type : Rsp \union {"DISCOVER_NTF", "ACTIVATED_NTF", "DEACTIVATE_NTF",
                               "REQ_FAILED_NTF", "INTF_ERROR_NTF"},
            arg : {"OK", "SEMANTIC_ERROR", "FAILED", "MORE", "LAST", "ABORT"}
                    \union Mode \union DEACTIVATE_TYPE]

Msg(t, a) == [type |-> t, arg |-> a]

(* The events the application may wait for.                                *)
Event == {"STARTED", "STOPPED", "SELECTED", "DEACTIVATED", "CHECKED", "POLL_DISABLED"}

(* disc_cb, the flags of nfa_dm_cb (polling: POLLING_ENABLED, entry: the   *)
(* poll entry is in use, stop_evt: SEND_POLL_STOP_EVT, deact_evt:          *)
(* SEND_DEACTIVATED_EVT), NFA RW (activated, busy), the NFC core           *)
(* (disc_pending, cmds), NFA SYS (power, subsystems).                      *)
Host == [disc_state : RFST, disc_flags : SUBSET DISC_FLAGS,
         activated_handle : Mode \union {"none"}, proto : {"T2T", "MIFARE", "none"},
         deact_pending : BOOLEAN, pending_deact_type : DEACTIVATE_TYPE,
         deact_notify_pending : BOOLEAN, tle : BOOLEAN, retry : 0..3,
         polling : BOOLEAN, entry : BOOLEAN, stop_evt : BOOLEAN, deact_evt : BOOLEAN,
         activated : BOOLEAN, busy : BOOLEAN,
         disc_pending : BOOLEAN, cmds : Seq(Command),
         power : {"up", "disabling", "down"}, subsystems : BOOLEAN,
         acts : 0..2, waits : SUBSET Event, forced : BOOLEAN, ncalls : Nat]

(* The NFCC: the notification it owes for a deactivation, the selection it *)
(* is carrying out, whether its discovery polls.                           *)
Nfcc == [state : RFST, owes : DEACTIVATE_TYPE \union {"none"}, selecting : BOOLEAN,
         polls : BOOLEAN]

Init ==
    /\ env \in Environments
    /\ host = [disc_state |-> "IDLE", disc_flags |-> {},
               activated_handle |-> "none", proto |-> "none",
               deact_pending |-> FALSE, pending_deact_type |-> "IDLE",
               deact_notify_pending |-> FALSE, tle |-> FALSE, retry |-> 0,
               polling |-> "poll" \in env.modes, entry |-> "poll" \in env.modes,
               stop_evt |-> FALSE, deact_evt |-> FALSE, activated |-> FALSE, busy |-> FALSE,
               disc_pending |-> FALSE, cmds |-> <<>>, power |-> "up", subsystems |-> TRUE,
               acts |-> 0, waits |-> {}, forced |-> FALSE, ncalls |-> 0]
    /\ nfcc = [state |-> "IDLE", owes |-> "none", selecting |-> FALSE, polls |-> FALSE]
    /\ up = <<>>
-----------------------------------------------------------------------------
(* Helpers.                                                                *)

Set(s, flags) == [s EXCEPT !.disc_flags = @ \union flags]

Clear(s, flags) == [s EXCEPT !.disc_flags = @ \ flags]

Waiting(s) == s.disc_flags \cap {"W4_RSP", "W4_NTF"} # {}

Tell(s, event) == [s EXCEPT !.waits = @ \ {event}]

(* NFA_RF_DISCOVERY_STOPPED_EVT also ends the wait for a start.            *)
TellStopped(s) == [s EXCEPT !.waits = @ \ {"STARTED", "STOPPED"}]

(* NFA_ACTIVATED_EVT and NFA_DEACTIVATED_EVT; the latter also ends the     *)
(* wait for a presence check.                                              *)
TellActivated(s) == [s EXCEPT !.acts = IF @ < 2 THEN @ + 1 ELSE @, !.waits = @ \ {"SELECTED"}]

TellDeactivated(s) == [s EXCEPT !.acts = 0, !.waits = @ \ {"DEACTIVATED", "CHECKED"}]
-----------------------------------------------------------------------------
(* The NFC core.                                                           *)

(* nfc_ncif_check_cmd_queue: a pending discovery is issued when no command *)
(* is outstanding.                                                         *)
CheckCmdQueue(s) ==
    IF s.disc_pending /\ s.cmds = <<>>
      THEN [s EXCEPT !.disc_pending = FALSE, !.cmds = <<"DISCOVER">>] ELSE s

NfcDiscoveryStart(s) == CheckCmdQueue([s EXCEPT !.disc_pending = TRUE])

NfcSend(s, cmd) == [s EXCEPT !.cmds = Append(@, cmd)]

(* Faulty variant: the response of the cancelled discovery is awaited.     *)
NfcDeactivate_StillWaits(s, type) ==
    IF s.disc_pending THEN [s EXCEPT !.disc_pending = FALSE] ELSE NfcSend(s, type)

(* A discovery that is still pending is cancelled instead.                 *)
NfcDeactivate(s, type) ==
    IF s.disc_pending THEN Clear([s EXCEPT !.disc_pending = FALSE], {"W4_RSP"})
    ELSE NfcSend(s, type)
-----------------------------------------------------------------------------
(* Starting, and becoming idle.                                            *)

NotifyStarted(s) ==
    IF "NOTIFY" \in s.disc_flags THEN Tell(Clear(s, {"NOTIFY"}), "STARTED") ELSE s

StartRfDiscover(s) ==
    LET s1 == IF s.entry \/ "listen" \in env.modes
                THEN Set(NfcDiscoveryStart(s), {"W4_RSP"}) ELSE NotifyStarted(s)
    IN IF "ENABLED" \notin s.disc_flags THEN s
       ELSE [s1 EXCEPT !.proto = "none", !.activated_handle = "none"]

DisableComplete(s) == [s EXCEPT !.power = "down"]

(* nfa_dm_sys_disable, on a graceful shutdown.                             *)
DmSysDisable(s) ==
    IF s.disc_state = "IDLE" /\ "DISABLING" \notin s.disc_flags THEN DisableComplete(s) ELSE s

SysCheckDisabled(s) == IF s.subsystems THEN s ELSE DmSysDisable(s)

(* Faulty variant: the shutdown does not go on.                            *)
NewState_NoShutdown(s, state) ==
    LET s1 == [s EXCEPT !.disc_state = state]
        s2 == IF "STOPPING" \in s.disc_flags
                THEN TellStopped(Clear(s1, {"STOPPING"})) ELSE s1
    IN IF state # "IDLE" \/ "W4_RSP" \in s.disc_flags THEN s1 ELSE s2

NewState(s, state) ==
    LET s1 == [s EXCEPT !.disc_state = state]
        s2 == IF "STOPPING" \in s.disc_flags
                THEN TellStopped(Clear(s1, {"STOPPING"})) ELSE s1
    IN CASE state # "IDLE" \/ "W4_RSP" \in s.disc_flags -> s1
         [] state = "IDLE" /\ s.disc_flags \cap {"W4_RSP", "DISABLING"} = {} -> s2
         [] OTHER -> SysCheckDisabled(Clear(s2, {"DISABLING"}))

ToIdle(s) == StartRfDiscover(NewState(s, "IDLE"))
-----------------------------------------------------------------------------
(* Activation and deactivation of the modules above.                       *)

(* NFA DM's entry: NFA RW takes the tag and reports it at once.            *)
ActivatePoll(s) ==
    LET s1 == [s EXCEPT !.activated = TRUE, !.busy = FALSE, !.deact_evt = TRUE]
    IN IF "CHECKING" \in s.disc_flags THEN s1 ELSE TellActivated(s1)

Matches(s, mode) == IF mode = "poll" THEN s.entry ELSE "listen" \in env.modes

(* nfa_dm_disc_notify_activation.                                          *)
NotifyActivation(s, mode) ==
    LET s1 == [s EXCEPT !.proto = IF mode = "poll" THEN env.proto ELSE "none",
                        !.activated_handle = mode]
    IN CASE ~Matches(s, mode) -> [s EXCEPT !.proto = "none", !.activated_handle = "none"]
         [] Matches(s, mode) /\ mode = "poll" -> ActivatePoll(s1)
         [] OTHER -> s1

(* Not matched: discovery is restarted, by some callers after setting w4.  *)
ActivateOrRestart(s, mode, w4) ==
    IF Matches(s, mode) THEN NotifyActivation(s, mode)
    ELSE NfcDeactivate(Set(NotifyActivation(s, mode), w4), "IDLE")

(* nfa_dm_poll_disc_cback on NFA_DM_RF_DISC_DEACTIVATED_EVT.               *)
DeactivatePoll(s) ==
    LET s1 == [s EXCEPT !.activated = FALSE, !.deact_evt = FALSE]
        s2 == IF s.deact_evt THEN TellDeactivated(s1) ELSE s1
        s3 == [s2 EXCEPT !.entry = FALSE, !.stop_evt = FALSE]
    IN CASE s.polling -> s2
         [] ~s.polling /\ s.stop_evt -> Tell(s3, "POLL_DISABLED")
         [] ~s.polling /\ ~s.stop_evt -> s3

(* The entry that was activated hears of the end, or (of a selection given *)
(* up) the application.                                                    *)
NotifyDeactivation(s, event) ==
    LET told == s.activated_handle = "poll" /\ s.entry
        inState == s.disc_state = "LISTEN_SLEEP"
        unasked == "STOPPING" \notin s.disc_flags \/ s.deact_notify_pending
        s1 == CASE event = "NTF" -> IF told THEN DeactivatePoll(s)
                                     ELSE IF s.activated_handle = "listen"
                                            THEN Tell(s, "DEACTIVATED") ELSE s
                [] event = "RSP" /\ inState -> Tell(s, "DEACTIVATED")
                [] event = "RSP" /\ ~inState /\ ~unasked -> s
                [] event = "RSP" /\ ~inState /\ unasked ->
                     IF told THEN DeactivatePoll(s)
                     ELSE IF s.activated_handle = "listen" THEN Tell(s, "DEACTIVATED") ELSE TellDeactivated(s)
    IN IF "CHECKING" \in s.disc_flags THEN s
       ELSE [s1 EXCEPT !.proto = "none", !.activated_handle = "none",
                       !.deact_notify_pending = FALSE]
-----------------------------------------------------------------------------
(* NFA_DM_RF_DEACTIVATE_CMD.                                               *)

ForceToIdle(s) ==
    IF "W4_NTF" \notin s.disc_flags THEN s
    ELSE NfcDeactivate(NewState(Set(Clear(s, {"W4_NTF"}), {"W4_RSP"}), "IDLE"), "IDLE")

(* nfa_dm_send_deactivate_cmd: sent if none is outstanding; one that is    *)
(* outstanding is left to its timer.                                       *)
SendDeactivateCmd(s, type) ==
    CASE ~Waiting(s) ->
           [NfcDeactivate(Set(s, {"W4_RSP", "W4_NTF"}), type) EXCEPT !.tle = TRUE]
      [] Waiting(s) /\ (type = "SLEEP" \/ s.tle) -> s
      [] OTHER -> ForceToIdle(s)

(* The command is kept until the presence check is over.                   *)
KeepDeactivate(s, type) == [s EXCEPT !.deact_pending = TRUE, !.pending_deact_type = type]

DeactivateUnlessWaiting(s, type) ==
    IF "W4_RSP" \in s.disc_flags THEN s ELSE NfcDeactivate(Set(s, {"W4_RSP"}), type)

SmDeactivateCmd(s, type) ==
    LET checking == "CHECKING" \in s.disc_flags
    IN CASE s.disc_state = "IDLE" -> s
         [] s.disc_state = "DISCOVERY" -> DeactivateUnlessWaiting(s, type)
         [] s.disc_state = "W4_ALL_DISCOVERIES" -> DeactivateUnlessWaiting(s, "IDLE")
         [] s.disc_state = "W4_HOST_SELECT" ->
              IF checking THEN KeepDeactivate(s, type) ELSE DeactivateUnlessWaiting(s, "IDLE")
         [] s.disc_state = "POLL_ACTIVE" ->
              (CASE s.proto = "MIFARE" -> SendDeactivateCmd(KeepDeactivate(s, type), type)
                 [] s.proto # "MIFARE" /\ checking -> KeepDeactivate(s, type)
                 [] OTHER -> SendDeactivateCmd(s, type))
         [] s.disc_state = "LISTEN_ACTIVE" -> SendDeactivateCmd(s, type)
         [] s.disc_state = "LISTEN_SLEEP" ->
              LET s1 == SendDeactivateCmd(s, type)
              IN IF type = "DISCOVERY" THEN s1
                 ELSE Clear([s1 EXCEPT !.tle = FALSE], {"W4_NTF"})

(* nfa_dm_rf_deactivate fails.                                             *)
RefusesDeactivate(s, type) ==
    s.disc_state = "IDLE" \/ (s.disc_state = "DISCOVERY" /\ type # "IDLE")

RfDeactivate(s, type) == IF RefusesDeactivate(s, type) THEN s ELSE SmDeactivateCmd(s, type)
-----------------------------------------------------------------------------
(* Presence check by sleep and wake-up.                                    *)

PresenceCheckRsp(s, ok) ==
    LET s1 == Tell([s EXCEPT !.busy = FALSE], "CHECKED")
    IN IF ok THEN s1 ELSE RfDeactivate(s1, "DISCOVERY")

SleepWakeup(s) ==
    IF s.disc_state = "POLL_ACTIVE" /\ ~Waiting(s)
      THEN Set([SendDeactivateCmd(s, "SLEEP") EXCEPT !.deact_pending = FALSE], {"CHECKING"})
      ELSE PresenceCheckRsp(s, FALSE)

EndSleepWakeup(s, ok) ==
    LET s1 == PresenceCheckRsp(Clear(s, {"CHECKING"}), ok)
    IN CASE "CHECKING" \notin s.disc_flags -> s
         [] "CHECKING" \in s.disc_flags /\ ~s1.deact_pending -> s1
         [] "CHECKING" \in s.disc_flags /\ s1.deact_pending ->
              SmDeactivateCmd([s1 EXCEPT !.deact_pending = FALSE, !.deact_notify_pending = TRUE],
                              s1.pending_deact_type)
-----------------------------------------------------------------------------
(* The state machine: what each state does with a message of the NFCC.     *)

Deactivating == {"STOPPING", "DISABLING"}

(* DISCOVER rejected, or accepted after it was stopped: back to idle.      *)
BackToIdle(s) == NfcDeactivate(Set(s, {"W4_RSP"}), "IDLE")

SmIdle(s, m) ==
    LET s1 == Clear(s, {"W4_RSP"})
        w4ntf == "W4_NTF" \in s.disc_flags
        restart(t) == ToIdle(NotifyDeactivation(t, "NTF"))
        sN == CASE w4ntf -> s
                [] ~w4ntf /\ m.arg = "DISCOVERY" -> BackToIdle(s)
                [] OTHER -> restart(s)
        started == NewState(s1, "DISCOVERY")
    IN CASE m.type = "DISCOVER_RSP" ->
              (CASE m.arg # "OK" -> BackToIdle(s1)
                 [] m.arg = "OK" /\ s.disc_flags \cap Deactivating # {} -> BackToIdle(started)
                 [] OTHER -> NotifyStarted(started))
         [] m.type = "DEACTIVATE_RSP" ->
              (CASE m.arg = "OK" /\ ~w4ntf -> restart(s1)
                 [] m.arg = "SEMANTIC_ERROR" -> ToIdle(s1)
                 [] OTHER -> s1)
         [] m.type \in {"DEACTIVATE_NTF", "REQ_FAILED_NTF"} -> Clear(sN, {"W4_NTF"})
         [] m.type = "ACTIVATED_NTF" -> NfcDeactivate(Set(s, {"W4_RSP", "W4_NTF"}), "IDLE")
         [] OTHER -> s

SmDiscovery(s, m) ==
    LET s1 == Clear(s, {"W4_RSP"})
        s2 == Clear(s, {"W4_NTF"})
        w4rsp == "W4_RSP" \in s.disc_flags
        w4ntf == "W4_NTF" \in s.disc_flags
    IN CASE m.type = "DEACTIVATE_RSP" -> IF w4ntf THEN s1 ELSE ToIdle(s1)
         [] m.type = "DISCOVER_NTF" ->
              IF m.arg = "ABORT" THEN NfcDeactivate(s, "IDLE")
              ELSE NewState(s, "W4_ALL_DISCOVERIES")
         [] m.type = "ACTIVATED_NTF" ->
              IF w4rsp THEN Set(s, {"W4_NTF"})
              ELSE ActivateOrRestart(
                     NewState(s, IF m.arg = "listen" THEN "LISTEN_ACTIVE" ELSE "POLL_ACTIVE"),
                     m.arg, {"W4_RSP", "W4_NTF"})
         [] m.type \in {"DEACTIVATE_NTF", "REQ_FAILED_NTF"} ->
              IF w4ntf /\ ~w4rsp THEN ToIdle(s2) ELSE s2
         [] OTHER -> s

(* The answer to the deactivation of a selection.                          *)
SelectionEnds(s) == ToIdle(NotifyDeactivation(Clear(s, {"W4_RSP"}), "RSP"))

SmW4AllDiscoveries(s, m) ==
    CASE m.type = "DEACTIVATE_RSP" -> SelectionEnds(s)
      [] m.type = "DISCOVER_NTF" ->
           IF "W4_RSP" \notin s.disc_flags /\ m.arg # "MORE" THEN NewState(s, "W4_HOST_SELECT")
           ELSE s
      [] m.type = "ACTIVATED_NTF" -> ActivateOrRestart(NewState(s, "POLL_ACTIVE"), m.arg, {})
      [] OTHER -> s

SmW4HostSelect(s, m) ==
    LET checking == "CHECKING" \in s.disc_flags
        active == NewState(s, "POLL_ACTIVE")
    IN CASE m.type = "SELECT_RSP" ->
              (CASE ~checking /\ m.arg = "OK" -> Clear(s, {"NOTIFY"})
                 [] ~checking /\ m.arg # "OK" -> Tell(Clear(s, {"NOTIFY"}), "SELECTED")
                 [] checking /\ m.arg # "OK" -> EndSleepWakeup(s, FALSE)
                 [] OTHER -> s)
         [] m.type = "ACTIVATED_NTF" ->
              IF checking THEN EndSleepWakeup(NotifyActivation(active, m.arg), TRUE)
              ELSE ActivateOrRestart(active, m.arg, {})
         [] m.type = "DEACTIVATE_RSP" -> SelectionEnds(s)
         [] m.type = "INTF_ERROR_NTF" ->
              IF checking THEN EndSleepWakeup(s, FALSE) ELSE Tell(s, "SELECTED")
         [] OTHER -> NfcDeactivate(s, "IDLE")

(* Faulty variants: the end of the activation is not reported; the state   *)
(* is kept.                                                                *)
ActiveDeactivateRsp_Unreported(s) ==
    LET s1 == Clear(s, {"W4_RSP"})
    IN IF "W4_NTF" \in s.disc_flags THEN s1 ELSE ToIdle(s1)

ActiveDeactivateRsp_StaysActive(s) ==
    LET s1 == Clear(s, {"W4_RSP"})
    IN IF "W4_NTF" \in s.disc_flags THEN s1 ELSE NotifyDeactivation(s1, "NTF")

(* The response after the notification: the NFCC is idle.                  *)
ActiveDeactivateRsp(s) ==
    LET s1 == Clear(s, {"W4_RSP"})
    IN IF "W4_NTF" \in s.disc_flags THEN s1 ELSE ToIdle(NotifyDeactivation(s1, "NTF"))

(* Discovery goes on, unless it was to be stopped.                         *)
ToDiscovery(s) ==
    LET s1 == NewState(s, "DISCOVERY")
    IN IF "STOPPING" \in s.disc_flags THEN NfcDeactivate(s1, "IDLE") ELSE s1

(* A tag is asleep: wake it up if it is being checked, or deactivate it.   *)
Asleep(s) ==
    LET s1 == NewState([NotifyDeactivation(s, "NTF") EXCEPT !.retry = 0], "W4_HOST_SELECT")
    IN CASE "CHECKING" \notin s.disc_flags -> s1
         [] "CHECKING" \in s.disc_flags /\ s1.deact_pending ->
              [EndSleepWakeup(s1, TRUE) EXCEPT !.activated = FALSE]
         [] OTHER -> NfcSend(s1, "SELECT")

(* The NFCC could not put the tag to sleep: asked again, the fourth time   *)
(* for discovery.                                                          *)
SleepRefused(s) ==
    LET checking == "CHECKING" \in s.disc_flags
        s1 == IF checking /\ s.deact_pending
                THEN [EndSleepWakeup(s, TRUE) EXCEPT !.activated = FALSE]
                ELSE IF checking THEN NfcSend(s, "SELECT") ELSE s
        again == IF checking /\ s1.deact_pending THEN s1 ELSE SendDeactivateCmd(s1, "DISCOVERY")
    IN IF s1.retry = 3 THEN [again EXCEPT !.retry = 0]
       ELSE SendDeactivateCmd([s1 EXCEPT !.retry = @ + 1], "SLEEP")

SmPollActive(s, m) ==
    LET s1 == [Clear(s, {"W4_NTF"}) EXCEPT !.tle = FALSE]
        told == NotifyDeactivation(s1, "NTF")
    IN CASE m.type = "DEACTIVATE_RSP" -> ActiveDeactivateRsp(s)
         [] m.type \in {"DEACTIVATE_NTF", "REQ_FAILED_NTF"} /\ "W4_RSP" \in s.disc_flags -> s1
         [] m.type = "REQ_FAILED_NTF" /\ "W4_RSP" \notin s.disc_flags -> SleepRefused(s1)
         [] m.type = "DEACTIVATE_NTF" /\ "W4_RSP" \notin s.disc_flags ->
              (CASE m.arg = "SLEEP" -> Asleep(s1)
                 [] m.arg = "IDLE" -> EndSleepWakeup(ToIdle(told), FALSE)
                 [] m.arg = "DISCOVERY" -> EndSleepWakeup(ToDiscovery(told), FALSE))
         [] OTHER -> s

SmListenActive(s, m) ==
    LET s1 == [Clear(s, {"W4_NTF"}) EXCEPT !.tle = FALSE]
        told == NotifyDeactivation(s1, "NTF")
    IN CASE m.type = "DEACTIVATE_RSP" -> ActiveDeactivateRsp(s)
         [] m.type \in {"DEACTIVATE_NTF", "REQ_FAILED_NTF"} ->
              (CASE "W4_RSP" \in s.disc_flags -> s1
                 [] "W4_RSP" \notin s.disc_flags /\ m.arg = "IDLE" -> ToIdle(told)
                 [] "W4_RSP" \notin s.disc_flags /\ m.arg = "SLEEP" ->
                      NewState(told, "LISTEN_SLEEP")
                 [] OTHER -> ToDiscovery(told))
         [] OTHER -> s

SmListenSleep(s, m) ==
    LET s1 == Clear(s, {"W4_RSP"})
        s2 == NotifyDeactivation([Clear(s1, {"W4_NTF"}) EXCEPT !.tle = FALSE], "RSP")
    IN CASE m.type = "DEACTIVATE_RSP" ->
              IF "W4_NTF" \in s.disc_flags THEN s1 ELSE ToIdle(NotifyDeactivation(s1, "RSP"))
         [] m.type \in {"DEACTIVATE_NTF", "REQ_FAILED_NTF"} ->
              IF m.arg = "DISCOVERY" THEN NewState(s2, "DISCOVERY") ELSE ToIdle(s2)
         [] m.type = "ACTIVATED_NTF" -> ActivateOrRestart(NewState(s, "LISTEN_ACTIVE"), m.arg, {})
         [] OTHER -> s

SmExecute(s, m) ==
    CASE s.disc_state = "IDLE" -> SmIdle(s, m)
      [] s.disc_state = "DISCOVERY" -> SmDiscovery(s, m)
      [] s.disc_state = "W4_ALL_DISCOVERIES" -> SmW4AllDiscoveries(s, m)
      [] s.disc_state = "W4_HOST_SELECT" -> SmW4HostSelect(s, m)
      [] s.disc_state = "POLL_ACTIVE" -> SmPollActive(s, m)
      [] s.disc_state = "LISTEN_ACTIVE" -> SmListenActive(s, m)
      [] s.disc_state = "LISTEN_SLEEP" -> SmListenSleep(s, m)
-----------------------------------------------------------------------------
(* The task.                                                               *)

Up == host.power # "down"

(* A notification of discovery is dropped while one is pending             *)
(* (nfc_ncif_proc_deactivate); the command of a response makes room for    *)
(* the next one after the response was handled.                            *)
Receive ==
    LET m == Head(up)
        dropped == m = Msg("DEACTIVATE_NTF", "DISCOVERY") /\ host.disc_pending
        s == IF dropped THEN host ELSE SmExecute(host, m)
    IN /\ Up /\ up # <<>>
       /\ host' = IF m.type \in Rsp THEN CheckCmdQueue([s EXCEPT !.cmds = Tail(@)]) ELSE s
       /\ up' = Tail(up)
       /\ UNCHANGED <<nfcc, env>>

Answered == \E i \in DOMAIN up : up[i].type \in Rsp

RspDue == host.cmds # <<>> \/ Answered

NtfDue == nfcc.owes # "none" \/ up # <<>> \/ host.cmds # <<>>

(* nfa_dm_disc_deact_ntf_timeout_cback, 8 s after the command, by then     *)
(* answered or given up by the NFC core.                                   *)
DeactNtfTimeout ==
    /\ Up /\ host.tle
    /\ (env.early /\ ~RspDue) \/ ~NtfDue
    /\ host' = ForceToIdle([host EXCEPT !.tle = FALSE])
    /\ UNCHANGED <<nfcc, up, env>>

(* Nothing goes on: what is waited for now does not come.                  *)
Settled ==
    /\ up = <<>> /\ host.cmds = <<>> /\ ~host.disc_pending /\ ~host.tle
    /\ nfcc.owes = "none" /\ ~nfcc.selecting

(* The other modules have shut down.                                       *)
SubsystemsGone ==
    /\ host.power = "disabling" /\ host.subsystems
    /\ host' = SysCheckDisabled([host EXCEPT !.subsystems = FALSE])
    /\ UNCHANGED <<nfcc, up, env>>

(* nfa_dm_act_disable_timeout.                                             *)
DisableTimeout ==
    /\ host.power = "disabling" /\ ~host.subsystems /\ Settled
    /\ host' = [DisableComplete(host) EXCEPT !.forced = TRUE]
    /\ UNCHANGED <<nfcc, up, env>>
-----------------------------------------------------------------------------
(* The application's calls.                                                *)

StartRfDiscovery(s) ==
    LET s1 == [s EXCEPT !.waits = @ \union {"STARTED"}]
    IN IF "ENABLED" \in s.disc_flags \/ s.disc_state # "IDLE" THEN Tell(s1, "STARTED")
       ELSE StartRfDiscover(Set(s1, {"ENABLED", "NOTIFY"}))

(* Faulty variant: the command is not sent from W4_HOST_SELECT.            *)
StopRfDiscovery_NotSelected(s) ==
    LET s1 == Clear([s EXCEPT !.waits = @ \union {"STOPPED"}], {"ENABLED"})
    IN CASE "ENABLED" \in s.disc_flags /\ s.disc_state # "IDLE" ->
              IF s.disc_state = "W4_HOST_SELECT" THEN Set(s1, {"STOPPING"})
              ELSE RfDeactivate(Set(s1, {"STOPPING"}), "IDLE")
         [] "W4_RSP" \in s.disc_flags -> Set(s1, {"STOPPING"})
         [] OTHER -> TellStopped(s1)

StopRfDiscovery(s) ==
    LET s1 == Clear([s EXCEPT !.waits = @ \union {"STOPPED"}], {"ENABLED"})
    IN CASE "ENABLED" \in s.disc_flags /\ s.disc_state # "IDLE" ->
              RfDeactivate(Set(s1, {"STOPPING"}), "IDLE")
         [] ~("ENABLED" \in s.disc_flags /\ s.disc_state # "IDLE") /\ "W4_RSP" \in s.disc_flags ->
              Set(s1, {"STOPPING"})
         [] OTHER -> TellStopped(s1)

(* nfa_dm_act_deactivate; a refusal is reported at once.                   *)
Deactivate(s, sleep) ==
    LET type == CASE s.disc_state = "W4_ALL_DISCOVERIES" -> "IDLE"
                  [] s.disc_state = "W4_HOST_SELECT" /\ sleep -> "IDLE"
                  [] s.disc_state \notin {"W4_ALL_DISCOVERIES", "W4_HOST_SELECT", "LISTEN_SLEEP"}
                       /\ sleep -> "SLEEP"
                  [] OTHER -> "DISCOVERY"
    IN IF RefusesDeactivate(s, type) THEN s
       ELSE SmDeactivateCmd([s EXCEPT !.waits = @ \union {"DEACTIVATED"}], type)

(* NFA RW ignores the request without a tag, and while it is busy.         *)
RwPresenceCheck(s) ==
    IF ~s.activated \/ s.busy THEN s
    ELSE SleepWakeup([s EXCEPT !.busy = TRUE, !.waits = @ \union {"CHECKED"}])

Select(s) ==
    IF s.disc_state # "W4_HOST_SELECT" \/ "W4_RSP" \in s.disc_flags THEN Clear(s, {"NOTIFY"})
    ELSE NfcSend(Set([s EXCEPT !.waits = @ \union {"SELECTED"}], {"NOTIFY"}), "SELECT")

EnablePolling(s) == IF s.polling THEN s ELSE [s EXCEPT !.polling = TRUE, !.entry = TRUE]

DisablePolling(s) ==
    LET s1 == [s EXCEPT !.polling = FALSE]
        gone == [s1 EXCEPT !.entry = FALSE]
    IN CASE ~s.entry -> s
         [] s.entry /\ s.disc_state \in {"W4_ALL_DISCOVERIES", "W4_HOST_SELECT"} ->
              [RfDeactivate(s1, "IDLE") EXCEPT !.entry = FALSE]
         [] s.entry /\ s.disc_state = "POLL_ACTIVE" ->
              [RfDeactivate(s1, "IDLE") EXCEPT !.stop_evt = TRUE,
                                               !.waits = @ \union {"POLL_DISABLED"}]
         [] OTHER -> gone

(* nfa_dm_disable, graceful.                                               *)
Disable(s) ==
    LET s1 == Clear([s EXCEPT !.power = "disabling", !.waits = {}], {"ENABLED"})
        s2 == Set(s1, {"DISABLING"})
        s3 == SmDeactivateCmd(s2, "IDLE")
    IN CASE "ENABLED" \notin s.disc_flags -> s1
         [] "ENABLED" \in s.disc_flags /\ s.disc_state = "IDLE" ->
              IF "W4_RSP" \in s.disc_flags THEN s2 ELSE s1
         [] OTHER -> IF Waiting(s3) THEN s3 ELSE Clear(s3, {"DISABLING"})

Serve(s, call) ==
    CASE call = "start" -> StartRfDiscovery(s)
      [] call = "stop" -> StopRfDiscovery(s)
      [] call = "sleep" -> Deactivate(s, TRUE)
      [] call = "deactivate" -> Deactivate(s, FALSE)
      [] call = "check" -> RwPresenceCheck(s)
      [] call = "select" -> Select(s)
      [] call = "enable_polling" -> EnablePolling(s)
      [] call = "disable_polling" -> DisablePolling(s)
      [] call = "disable" -> Disable(s)

ApiCall(call) ==
    /\ host.power = "up" /\ host.ncalls < env.max_calls
    /\ call \in env.calls
    /\ env.patient => host.waits = {}
    /\ host' = Serve([host EXCEPT !.ncalls = @ + 1], call)
    /\ UNCHANGED <<nfcc, up, env>>
-----------------------------------------------------------------------------
(* The NFCC (external): its answer to the first command, notifications it  *)
(* owes, and what happens in the field.  Bounds: while MaxUp messages wait *)
(* for the task, or MaxCmds commands for the NFCC, the field is quiet.     *)
MaxUp == 2
MaxCmds == 2

Answer(cmd, status, next) ==
    /\ up' = Append(up, Msg(CASE cmd = "DISCOVER" -> "DISCOVER_RSP"
                               [] cmd = "SELECT" -> "SELECT_RSP"
                               [] OTHER -> "DEACTIVATE_RSP", status))
    /\ nfcc' = next

NfccCommand ==
    LET cmd == Head(host.cmds)
        idle == [nfcc EXCEPT !.state = "IDLE", !.owes = "none", !.selecting = FALSE]
        active == nfcc.state \in {"POLL_ACTIVE", "LISTEN_ACTIVE"}
                    \/ (nfcc.state = "LISTEN_SLEEP" /\ cmd = "DISCOVERY")
    IN /\ Up /\ host.cmds # <<>> /\ ~Answered
       /\ \/ /\ cmd = "DISCOVER" /\ nfcc.state = "IDLE"
             /\ Answer(cmd, "OK", [nfcc EXCEPT !.state = "DISCOVERY", !.polls = host.entry])
          \/ /\ cmd = "DISCOVER" /\ nfcc.state # "IDLE"
             /\ Answer(cmd, "SEMANTIC_ERROR", nfcc)
          \/ /\ cmd = "SELECT" /\ nfcc.state = "W4_HOST_SELECT" /\ ~nfcc.selecting
             /\ Answer(cmd, "OK", [nfcc EXCEPT !.selecting = TRUE])
          \/ /\ cmd = "SELECT" /\ (nfcc.state # "W4_HOST_SELECT" \/ nfcc.selecting)
             /\ Answer(cmd, "FAILED", nfcc)
          \/ /\ cmd \in DEACTIVATE_TYPE /\ nfcc.state = "IDLE"
             /\ Answer(cmd, "SEMANTIC_ERROR", nfcc)
          \/ /\ cmd \in DEACTIVATE_TYPE /\ nfcc.state # "IDLE" /\ ~active
             /\ Answer(cmd, "OK", idle)
          \/ /\ cmd \in DEACTIVATE_TYPE /\ active /\ nfcc.owes = "none"
             /\ Answer(cmd, "OK", [nfcc EXCEPT !.owes = cmd])
          \/ /\ cmd \in DEACTIVATE_TYPE /\ active /\ nfcc.owes # "none"
             /\ \/ Answer(cmd, "OK", idle)
                \/ "reject" \in env.rf /\ Answer(cmd, "FAILED", nfcc)
       /\ UNCHANGED <<host, env>>

AfterDeactivation ==
    CASE nfcc.owes # "SLEEP" -> nfcc.owes
      [] nfcc.owes = "SLEEP" /\ nfcc.state = "POLL_ACTIVE" -> "W4_HOST_SELECT"
      [] OTHER -> "LISTEN_SLEEP"

NfccDeactivated ==
    LET next == [nfcc EXCEPT !.state = AfterDeactivation, !.owes = "none"]
    IN /\ nfcc.owes # "none"
       /\ \/ nfcc' = next /\ up' = Append(up, Msg("DEACTIVATE_NTF", nfcc.owes))
          \/ /\ "refuse" \in env.rf /\ nfcc.owes = "SLEEP" /\ nfcc.state = "POLL_ACTIVE"
             /\ nfcc' = [nfcc EXCEPT !.owes = "none"]
             /\ up' = Append(up, Msg("REQ_FAILED_NTF", "SLEEP"))
       /\ UNCHANGED <<host, env>>

(* Messages of the field, [in the state, to the state, message].           *)
FieldEvents ==
    LET Ev(from, to, t, a) == [from |-> from, to |-> to, msg |-> Msg(t, a)]
        polled == {Ev("DISCOVERY", "POLL_ACTIVE", "ACTIVATED_NTF", "poll")}
        several == {Ev("DISCOVERY", "W4_ALL_DISCOVERIES", "DISCOVER_NTF", "MORE"),
                    Ev("W4_ALL_DISCOVERIES", "W4_HOST_SELECT", "DISCOVER_NTF", "LAST")}
        aborted == {Ev("DISCOVERY", "W4_HOST_SELECT", "DISCOVER_NTF", "ABORT"),
                    Ev("W4_ALL_DISCOVERIES", "W4_HOST_SELECT", "DISCOVER_NTF", "ABORT")}
        listened == {Ev("DISCOVERY", "LISTEN_ACTIVE", "ACTIVATED_NTF", "listen"),
                     Ev("LISTEN_ACTIVE", "LISTEN_SLEEP", "DEACTIVATE_NTF", "SLEEP"),
                     Ev("LISTEN_SLEEP", "LISTEN_ACTIVE", "ACTIVATED_NTF", "listen")}
        lost == {Ev("POLL_ACTIVE", "DISCOVERY", "DEACTIVATE_NTF", "DISCOVERY"),
                 Ev("LISTEN_ACTIVE", "DISCOVERY", "DEACTIVATE_NTF", "DISCOVERY")}
        sleeplost == {Ev("LISTEN_SLEEP", "DISCOVERY", "DEACTIVATE_NTF", "DISCOVERY")}
    IN (IF nfcc.polls THEN polled ELSE {})
         \union (IF nfcc.polls /\ "multi" \in env.rf THEN several ELSE {})
         \union (IF nfcc.polls /\ "abort" \in env.rf THEN aborted ELSE {})
         \union (IF "listen" \in env.modes THEN listened ELSE {})
         \union (IF "linkloss" \in env.rf THEN lost ELSE {})
         \union (IF "sleeploss" \in env.rf THEN sleeplost ELSE {})

NfccField ==
    /\ Up /\ nfcc.owes = "none" /\ Len(up) < MaxUp /\ Len(host.cmds) < MaxCmds
    /\ \E e \in FieldEvents :
         /\ nfcc.state = e.from
         /\ nfcc' = [nfcc EXCEPT !.state = e.to]
         /\ up' = Append(up, e.msg)
    /\ UNCHANGED <<host, env>>

NfccSelected ==
    /\ nfcc.selecting
    /\ \/ /\ nfcc' = [nfcc EXCEPT !.selecting = FALSE, !.state = "POLL_ACTIVE"]
          /\ up' = Append(up, Msg("ACTIVATED_NTF", "poll"))
       \/ /\ "interror" \in env.rf
          /\ nfcc' = [nfcc EXCEPT !.selecting = FALSE]
          /\ up' = Append(up, Msg("INTF_ERROR_NTF", "OK"))
    /\ UNCHANGED <<host, env>>

NfccStep == NfccCommand \/ NfccDeactivated \/ NfccField \/ NfccSelected

Next ==
    \/ Receive \/ DeactNtfTimeout \/ SubsystemsGone \/ DisableTimeout
    \/ \E call \in Call : ApiCall(call)
    \/ NfccStep

Spec == Init /\ [][Next]_vars
-----------------------------------------------------------------------------
(* Fairness: the task takes its messages; the NFCC answers commands, sends *)
(* what it owes, completes a selection and reports the last of several     *)
(* tags; the timer, whatever the field does meanwhile, expires; the other  *)
(* modules shut down.                                                      *)
Fairness ==
    /\ WF_vars(Receive) /\ WF_vars(SubsystemsGone) /\ SF_vars(DeactNtfTimeout)
    /\ WF_vars(NfccCommand) /\ WF_vars(NfccDeactivated) /\ WF_vars(NfccSelected)
    /\ WF_vars(nfcc.state = "W4_ALL_DISCOVERIES" /\ NfccField)

FairSpec == Spec /\ Fairness
-----------------------------------------------------------------------------
(* Properties.                                                             *)

TypeOK ==
    /\ env \in Environments
    /\ host \in Host
    /\ nfcc \in Nfcc
    /\ up \in Seq(Message)

(* While a response is awaited (W4_RSP), a command is outstanding that it  *)
(* can answer.  The flag does not say which one, and is cleared by the     *)
(* handlers of some responses only.                                        *)
RspAwaited == "W4_RSP" \in host.disc_flags => host.cmds # <<>>

(* What the state machine waits for is coming or watched by a timer: a     *)
(* flag W4_RSP or W4_NTF that nothing clears stops discovery for good, as  *)
(* all later commands wait for it.                                         *)
WaitsAreReal ==
    Settled /\ Up => ~Waiting(host)

(* When nothing is going on, NFA DM and the NFCC are in the same state of  *)
(* the discovery.                                                          *)
StatesAgree ==
    Settled /\ Up => host.disc_state = nfcc.state

(* The state machine, its flags and the NFCC agree.                        *)
InStep == TypeOK /\ WaitsAreReal /\ StatesAgree

(* The application hears of the end of an activation before the next one.  *)
ActivationsPaired == host.acts <= 1

(* A call is answered: a patient application gets the event it waits for.  *)
CallsAnswered ==
    \A event \in Event :
      (event \in host.waits /\ env.patient) ~> event \notin host.waits

(* nfa_rw_api.cc:179: "The NFA_RW_PRESENCE_CHECK_EVT w/ status is used to  *)
(* indicate presence or non-presence": every check that began is answered. *)
CheckAnswered == "CHECKED" \in host.waits ~> "CHECKED" \notin host.waits

(* The graceful shutdown of a patient application needs no timer.          *)
ShutdownGraceful == env.patient => ~host.forced
=============================================================================
