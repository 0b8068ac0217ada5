------------------------------- MODULE NfaHci -------------------------------
(***************************************************************************)
(* NFA HCI: the device host's end of the HCI network (nfa_hci_main.cc,     *)
(* nfa_hci_act.cc, nfa_hci_api.cc), over the gates and pipes of HciTables. *)
(* It starts the network, keeps what it knows of it in flash, and does the *)
(* requests of applications one at a time: a command to the host           *)
(* controller, a response or a timeout, an event to the application.       *)
(*                                                                         *)
(* h is nfa_hci_cb with the mailbox of NFA; net is the rest of the         *)
(* network, the host controller with one terminal host and the NFCC,       *)
(* modelled from the packets this code exchanges with it; app is the       *)
(* applications.  A handler maps the record x of the three to the next     *)
(* one.  The build is the one of NXP_EXTNS, over NCI 2.0.                  *)
(***************************************************************************)
EXTENDS HciTables, Sequences, SequencesExt

CONSTANT Environments        \* what may surround the stack: see Environment

(* A call: the function, the application, and its arguments.               *)
Op == {"REGISTER", "DEREGISTER", "ALLOC", "DEALLOC", "LIST", "HOSTS", "CREATE", "OPEN", "CLOSE", "DELETE",
       "GET", "SET", "CMD", "EVENT", "RSP", "STATIC", "CONFIGURE"}
Call == [op : Op, app : App \cup {InvalidHandle}, gate : Gate \cup {NoGate}, dgate : Gate \cup {NoGate},
         pipe : PipeId \cup {0}, timeout : BOOLEAN]

(* What the other hosts do of their own accord.                            *)
Initiative == [op : {"create", "delete", "clear", "clear_hc", "close_admin", "cmd", "event", "link", "hot_plug"},
               gate : Gate \cup {NoGate}, dgate : Gate \cup {NoGate}, pipe : PipeId \cup {0},
               inst : {"OPEN", "CLOSE", "GET", "SET", "CMD", "EVT", "POST_DATA", "TRANSACTION"}]

(* What surrounds the stack: the terminal host, whether the host           *)
(* controller knows of host types (version 12), lists the host at first,   *)
(* and shows up as an NFCEE itself; whether there are fewer NFCEEs than    *)
(* configured; how often a session identity is still the default one when  *)
(* polled; the calls of the applications and the initiatives of the hosts, *)
(* in their order; whether applications call before the stack is told that *)
(* HCI is ready; whether an answer may come after its timeout; how many    *)
(* packets are lost, commands refused and power cycles there are at most.  *)
Environment ==
    [host : Host, version12 : BOOLEAN, listed : BOOLEAN, hci_nfcee : BOOLEAN, few : BOOLEAN, polls : Nat,
     calls : Seq(Call), hosts : Seq(Initiative), eager : BOOLEAN,
     late : BOOLEAN, losses : Nat, refusals : Nat, restarts : Nat]
ASSUME EnvironmentAssumption == \A e \in Environments : e.host \in Host /\ e.polls \in Nat
CONSTANT NFA_HCI_MAX_SESSION_ID_RETRY_CNT
ASSUME RetryAssumption == NFA_HCI_MAX_SESSION_ID_RETRY_CNT \in Nat

VARIABLES env, h, net, app
vars == <<env, h, net, app>>

-----------------------------------------------------------------------------
(* State.                                                                  *)

State == {"DISABLED", "STARTUP", "WAIT_NETWK_ENABLE", "IDLE", "WAIT_RSP", "REMOVE_GATE", "APP_DEREGISTER",
          "NFCEE_ENABLE"}
Cmd == {"OPEN", "CLOSE", "GET", "SET", "CREATE", "DELETE", "CLEAR_ALL", "CMD"}
Notification == {"CREATED", "DELETED", "CLEARED", "CLEARED_HC"}
Rsp == {"OK", "E_NOK", "E_PIPE_NOT_OPENED", "E_NO_PIPES", "E_UNSUPPORTED"}
Event == {"HOT_PLUG", "POST_DATA", "EVT", "WTX", "ABORT", "TRANSACTION"}
Param == {"SESSION", "WHITELIST", "HOST_TYPE", "HOST_LIST", "HOST_TYPE_LIST", "REG"}

(* A packet: its pipe, type and instruction, the parameter asked for or    *)
(* set with its value, the gates and the pipe of an administration         *)
(* command, whether a host list has the host.  ABORT is the event an abort  *)
(* is answered with when it comes from the host.                           *)
Packet == [pipe : Nat, type : {"cmd", "evt", "rsp"}, inst : Cmd \cup Notification \cup Rsp \cup Event,
           par : Param \cup {"none"}, val : Nat, gate : Gate \cup {NoGate}, dgate : Gate \cup {NoGate},
           new : PipeId \cup {0}, host : BOOLEAN]
Pkt(pipe, type, inst) ==
    [pipe |-> pipe, type |-> type, inst |-> inst, par |-> "none", val |-> 0, gate |-> NoGate,
     dgate |-> NoGate, new |-> 0, host |-> FALSE]

(* Session identities: the default one, and those the device host makes    *)
(* from the clock.                                                         *)
DefaultSession == 0

(* What is in flash: the tables, the states of the two static pipes, the   *)
(* session and the names of the applications.                              *)
Config == [t : Tables, admin : BOOLEAN, link : BOOLEAN, session : Nat, names : SUBSET App]

ConfigState == {"none", "GET_NUM", "READ_SESSIONID", "HOST_TYPE_LIST", "INIT", "COMPLETE"}
Message == [t : {"api", "nv_read", "timeout", "poll", "check"}, call : Call]
NoCall == [op |-> "CONFIGURE", app |-> InvalidHandle, gate |-> NoGate, dgate |-> NoGate, pipe |-> 0,
           timeout |-> FALSE]
Msg(t) == [t |-> t, call |-> NoCall]

HciBlock ==
    [hci_state : State, cfg : Config, nv : Seq(Config), cback : SUBSET App, conn_id : BOOLEAN,
     nv_read_cmplt : BOOLEAN, ee_disc_cmplt : BOOLEAN, b_hci_netwk_reset : BOOLEAN,
     w4_hci_netwk_init : BOOLEAN, w4_nfcee_enable : BOOLEAN, version12 : BOOLEAN,
     cmd_sent : Cmd \cup {"INVALID"}, param_in_use : Param \cup {"none"}, pipe_in_use : Nat,
     local_gate_in_use : Gate \cup {NoGate}, app_in_use : Owner, w4_rsp_evt : BOOLEAN,
     evt_sent : Event \cup {"none"}, IsEventAbortSent : BOOLEAN, IsLastEvtAbortFailed : BOOLEAN,
     timer : {"off", "rsp", "poll"}, inactive_host : SUBSET Host, reset_host : SUBSET Host,
     hci_api_q : Seq(Call), hci_host_reset_api_q : Seq(Call), mbox : Seq(Message),
     config_nfcee_state : ConfigState, nfc_init_state : BOOLEAN, session_id_retry : Nat,
     ee_active : BOOLEAN, polled : BOOLEAN, configured : BOOLEAN, host_count : 0..1]

(* The network: pipes, the pipes between the terminal host and the device  *)
(* host by number, with the gates at either end; enabled, the terminal     *)
(* host's NFCEE is; raw and mode, the NFCC owes an answer to a CORE_GET_   *)
(* CONFIG and to an NFCEE_MODE_SET command; asked, the command of the      *)
(* other side that is unanswered; out and in, the packets to and from the  *)
(* device host; then what is left of the environment.                      *)
Network ==
    [admin : BOOLEAN, session : Nat, used : SUBSET PipeId, gate : [PipeId -> Gate \cup {NoGate}],
     dgate : [PipeId -> Gate \cup {NoGate}], open : SUBSET PipeId, listed : BOOLEAN, enabled : BOOLEAN,
     raw : BOOLEAN, mode : BOOLEAN, asked : Seq(Packet), out : Seq(Packet), in : Seq(Packet),
     polls : Nat, hosts : Seq(Initiative), losses : Nat, refusals : Nat, restarts : Nat]

(* The applications: how many calls were made, which of them (by their     *)
(* place) are unanswered; started, the stack was told that HCI is ready.   *)
(* For the properties: late, a timeout came before the answer it was for;  *)
(* overtaken, something the other side did made the device host send while *)
(* it waited for a response, or serve another application; lost, the       *)
(* device host started without all it knew.                                *)
AppBlock ==
    [made : Nat, asked : SUBSET Nat, started : BOOLEAN, late : BOOLEAN, overtaken : BOOLEAN, lost : BOOLEAN]

TypeOK ==
    /\ env \in Environments
    /\ h.hci_state \in State /\ h.cmd_sent \in Cmd \cup {"INVALID"} /\ h.app_in_use \in Owner
    /\ h.cfg.t.gates \in [GateSlot -> DynGate] /\ h.cfg.t.pipes \in [PipeSlot -> DynPipe]
    /\ h.timer \in {"off", "rsp", "poll"} /\ Len(h.nv) <= 1
    /\ h.config_nfcee_state \in ConfigState
    /\ h.reset_host \cup h.inactive_host \subseteq {UICC}
    /\ \A i \in DOMAIN net.out : net.out[i] \in Packet
    /\ \A i \in DOMAIN net.in : net.in[i] \in Packet
    /\ \A i \in DOMAIN h.mbox : h.mbox[i] \in Message
    /\ app.asked \subseteq 1..app.made /\ app.made <= Len(env.calls)

DefaultConfig(session) ==
    [t |-> EmptyTables, admin |-> FALSE, link |-> FALSE, session |-> session, names |-> {}]

(* nfa_hci_init and nfa_hci_sys_enable: flash is read at once, the result  *)
(* is in the mailbox before anything else.                                 *)
InitHci(nv) ==
    [hci_state |-> "STARTUP",
     cfg |-> IF nv = <<>> THEN DefaultConfig(DefaultSession) ELSE nv[1],
     nv |-> nv, cback |-> {}, conn_id |-> FALSE, nv_read_cmplt |-> FALSE,
     ee_disc_cmplt |-> FALSE, b_hci_netwk_reset |-> FALSE, w4_hci_netwk_init |-> FALSE,
     w4_nfcee_enable |-> FALSE, version12 |-> FALSE, cmd_sent |-> "INVALID", param_in_use |-> "none",
     pipe_in_use |-> 0, local_gate_in_use |-> NoGate, app_in_use |-> NoOwner, w4_rsp_evt |-> FALSE,
     evt_sent |-> "none", IsEventAbortSent |-> FALSE, IsLastEvtAbortFailed |-> FALSE, timer |-> "rsp",
     inactive_host |-> {}, reset_host |-> {}, hci_api_q |-> <<>>, hci_host_reset_api_q |-> <<>>,
     mbox |-> <<Msg("nv_read")>>, config_nfcee_state |-> "none", nfc_init_state |-> FALSE, session_id_retry |-> 0,
     ee_active |-> FALSE, polled |-> FALSE, configured |-> FALSE, host_count |-> 0]

-----------------------------------------------------------------------------
(* To the network and to the applications.                                 *)

Waiting(x) == x.h.hci_state \in {"WAIT_RSP", "REMOVE_GATE", "APP_DEREGISTER", "NFCEE_ENABLE"}
Post(x, m) == [x EXCEPT !.h.mbox = Append(@, m)]
StopTimer(x) == [x EXCEPT !.h.timer = "off"]
StartTimer(x) == [x EXCEPT !.h.timer = "rsp"]
Send(x, p) == [x EXCEPT !.net.out = Append(@, p)]
SetTables(x, t) == [x EXCEPT !.h.cfg.t = t]
NeedWrite(x) == [x EXCEPT !.h.cfg.t.nv = TRUE]

(* nfa_hciu_send_msg: a command arms the timer, and makes a request out of *)
(* an idle state; an event that follows an abort nobody answered is        *)
(* preceded by another.                                                    *)
(* Faulty: a command leaves the state idle.                                *)
SendMsg_StaysIdle(x, p) ==
    CASE p.type = "cmd" ->
           Send([x EXCEPT !.h.cmd_sent = p.inst, !.h.timer = "rsp",
                          !.h.param_in_use = IF p.inst \in {"GET", "SET"} THEN p.par ELSE @], p)
      [] p.type = "evt" -> Send([x EXCEPT !.h.evt_sent = p.inst, !.h.cmd_sent = "INVALID"], p)
      [] OTHER -> Send(x, p)
SendMsg(x, p) ==
    CASE p.type = "cmd" ->
           Send([x EXCEPT !.h.cmd_sent = p.inst, !.h.timer = "rsp",
                          !.h.param_in_use = IF p.inst \in {"GET", "SET"} THEN p.par ELSE @,
                          !.h.hci_state = IF @ = "IDLE" THEN "WAIT_RSP" ELSE @], p)
      [] p.type = "evt" ->
           LET y == [x EXCEPT !.h.evt_sent = p.inst, !.h.cmd_sent = "INVALID", !.h.IsEventAbortSent = FALSE]
           IN IF x.h.IsLastEvtAbortFailed /\ p.inst # "ABORT"
              THEN Send(Send(y, Pkt(x.h.pipe_in_use, "evt", "ABORT")), p)
              ELSE Send(y, p)
      [] OTHER -> Send(x, p)

SendOpen(x, pipe) == SendMsg([x EXCEPT !.h.pipe_in_use = pipe], Pkt(pipe, "cmd", "OPEN"))
SendClose(x, pipe) == SendMsg([x EXCEPT !.h.pipe_in_use = pipe], Pkt(pipe, "cmd", "CLOSE"))
SendDelete(x, pipe) ==
    IF pipe > NFA_HCI_LAST_DYNAMIC_PIPE THEN x
    ELSE SendMsg([x EXCEPT !.h.pipe_in_use = pipe],
                 [Pkt(NFA_HCI_ADMIN_PIPE, "cmd", "DELETE") EXCEPT !.new = pipe])
SendCreate(x, gate, dgate) ==
    SendMsg(x, [Pkt(NFA_HCI_ADMIN_PIPE, "cmd", "CREATE") EXCEPT !.gate = gate, !.dgate = dgate])
SendClearAll(x) == SendMsg(x, Pkt(NFA_HCI_ADMIN_PIPE, "cmd", "CLEAR_ALL"))
SendGet(x, pipe, par) == SendMsg(x, [Pkt(pipe, "cmd", "GET") EXCEPT !.par = par])
SendSet(x, pipe, par, val) == SendMsg(x, [Pkt(pipe, "cmd", "SET") EXCEPT !.par = par, !.val = val])
Respond(x, pipe, inst) == SendMsg(x, Pkt(pipe, "rsp", inst))

(* A session made from the clock, and told to the host controller.         *)
Fresh(x) == 1 + Max({x.h.cfg.session, x.net.session})
SetNewSession(x) ==
    LET y == [x EXCEPT !.h.cfg.session = Fresh(x)] IN SendSet(y, NFA_HCI_ADMIN_PIPE, "SESSION", y.h.cfg.session)

(* The events that answer a call.                                          *)
Answers == [REGISTER |-> {"REGISTER"}, DEREGISTER |-> {"DEREGISTER"}, ALLOC |-> {"ALLOC"},
            DEALLOC |-> {"DEALLOC"}, LIST |-> {"LIST"}, HOSTS |-> {"HOSTS"}, CREATE |-> {"CREATE"},
            OPEN |-> {"OPEN", "RSP_RCVD"}, CLOSE |-> {"CLOSE", "RSP_RCVD"}, DELETE |-> {"DELETE"},
            GET |-> {"GET", "CMD_SENT"}, SET |-> {"SET", "CMD_SENT"}, CMD |-> {"RSP_RCVD", "CMD_SENT"},
            EVENT |-> {"EVENT_SENT"}, STATIC |-> {"STATIC"}]
(* nfa_hciu_send_to_app with the answer to a call: it reaches an           *)
(* application that has a callback.  Events nobody asked for change        *)
(* nothing here and are left out.                                          *)
Answer(x, ev, a) ==
    LET due == {n \in x.app.asked : env.calls[n].app = a /\ ev \in Answers[env.calls[n].op]}
    IN IF a \notin x.h.cback \/ due = {} THEN x ELSE [x EXCEPT !.app.asked = @ \ {Min(due)}]
AnswerUser(x, ev) == Answer(x, ev, x.h.app_in_use)

InitNet ==
    [admin |-> FALSE, session |-> DefaultSession, used |-> {}, gate |-> [p \in PipeId |-> NoGate],
     dgate |-> [p \in PipeId |-> NoGate], open |-> {}, listed |-> env.listed, enabled |-> FALSE,
     raw |-> FALSE, mode |-> FALSE, asked |-> <<>>, out |-> <<>>, in |-> <<>>, polls |-> env.polls,
     hosts |-> env.hosts, losses |-> env.losses, refusals |-> env.refusals, restarts |-> env.restarts]
InitApp ==
    [made |-> 0, asked |-> {}, started |-> FALSE, late |-> FALSE, overtaken |-> FALSE, lost |-> FALSE]

Init ==
    /\ env \in Environments
    /\ h = InitHci(<<>>)
    /\ net = InitNet
    /\ app = InitApp

-----------------------------------------------------------------------------
(* The requests of applications (nfa_hci_api_...): c is the call.  Each is *)
(* answered at once, or sent to the network, or put aside while the host   *)
(* it is for is resetting.                                                 *)

PipeOf(x, pid) == x.h.cfg.t.pipes[FindPipe(x.h.cfg.t, pid)]
Reachable(x, pid) == FindPipe(x.h.cfg.t, pid) # 0 /\ PipeOf(x, pid).host \notin x.h.inactive_host
OwnPipe(x, c) == Reachable(x, c.pipe) /\ PipeOwner(x.h.cfg.t, c.pipe) = c.app
MaySend(x, c) ==
    /\ Reachable(x, c.pipe)
    /\ PipeOwner(x.h.cfg.t, c.pipe) = c.app \/ PipeOf(x, c.pipe).gate = Connectivity
Resetting(x, c) == PipeOf(x, c.pipe).host \in x.h.reset_host
PutAside(x, c) == [x EXCEPT !.h.hci_host_reset_api_q = Append(@, c)]

ApiRegister(x, c) ==
    Answer([x EXCEPT !.h.app_in_use = IF c.app \in x.h.cfg.names THEN c.app ELSE @,
                     !.h.cfg.names = @ \cup {c.app}, !.h.cfg.t.nv = @ \/ c.app \notin x.h.cfg.names,
                     !.h.cback = @ \cup {c.app}], "REGISTER", c.app)

(* nfa_hci_api_deregister for app_in_use: the first call, and again after  *)
(* each pipe deleted (there the timer is stopped).                         *)
Settled(x, state) == [x EXCEPT !.h.hci_state = IF @ = state THEN "IDLE" ELSE @]
Deregister(x) ==
    LET a == x.h.app_in_use
        t == x.h.cfg.t
        s == FindActivePipeByOwner(t, a, x.h.inactive_host)
        told == [Answer(Settled(x, "APP_DEREGISTER"), "DEREGISTER", a) EXCEPT !.h.cback = @ \ {a}]
    IN IF FindPipeByOwner(t, a) = 0
       THEN NeedWrite([SetTables(told, ReleaseGatesOf(t, a)) EXCEPT !.h.cfg.names = @ \ {a}])
       ELSE IF s = 0 THEN NeedWrite(SetTables(told, ReleaseUnusedGatesOf(t, a)))
       ELSE SendDelete([x EXCEPT !.h.hci_state = "APP_DEREGISTER"], t.pipes[s].id)
ApiDeregister(x, c) ==
    IF c.app \notin x.h.cfg.names THEN x ELSE Deregister([x EXCEPT !.h.app_in_use = c.app])
ContinueDeregister(x) == Deregister(StopTimer(x))

GivenOwner(t, g, a) == IF g # 0 /\ t.gates[g].owner = NoOwner THEN [t EXCEPT !.gates[g].owner = a] ELSE t
ApiAllocGate(x, c) ==
    Answer(SetTables(x, GivenOwner(AllocGate(x.h.cfg.t, c.gate, c.app, x.h.cback),
                                   AllocGateSlot(x.h.cfg.t, c.gate, c.app, x.h.cback), c.app)), "ALLOC", c.app)

(* nfa_hci_api_dealloc_gate: as for an application.  A gate that is gone   *)
(* or another's leaves the state alone.                                    *)
DeallocGate(x, gate, a) ==
    LET t == x.h.cfg.t
        s == FindActivePipeOnGate(t, gate, x.h.inactive_host)
    IN IF GateOwner(t, gate) # a THEN Answer(x, "DEALLOC", a)
       ELSE IF FindPipeOnGate(t, gate) = 0
       THEN Answer(NeedWrite(SetTables(Settled(x, "REMOVE_GATE"), ReleaseGate(t, gate))), "DEALLOC", a)
       ELSE IF s = 0 THEN Answer(NeedWrite(Settled(x, "REMOVE_GATE")), "DEALLOC", a)
       ELSE SendDelete([x EXCEPT !.h.local_gate_in_use = gate, !.h.app_in_use = a, !.h.hci_state = "REMOVE_GATE"],
                       t.pipes[s].id)
ContinueDealloc(x) == DeallocGate(StopTimer(x), x.h.local_gate_in_use, x.h.app_in_use)

ApiGetHostList(x, c) ==
    IF c.app = InvalidHandle \/ c.app \in x.h.cback THEN SendGet(x, NFA_HCI_ADMIN_PIPE, "HOST_LIST") ELSE x

(* A creation asks whether the destination GATE is one of a resetting      *)
(* host, which it never is: it is not put aside.                           *)
ApiCreatePipe(x, c) ==
    IF GateOwner(x.h.cfg.t, c.gate) # c.app \/ PipeBetweenGates(x.h.cfg.t, c.gate, env.host, c.dgate)
    THEN Answer(x, "CREATE", c.app)
    ELSE SendCreate([x EXCEPT !.h.local_gate_in_use = c.gate, !.h.app_in_use = c.app], c.gate, c.dgate)
ApiOpenPipe(x, c) ==
    IF OwnPipe(x, c) /\ ~PipeOf(x, c.pipe).open THEN SendOpen(x, c.pipe) ELSE Answer(x, "OPEN", c.app)
ApiClosePipe(x, c) ==
    IF OwnPipe(x, c) /\ PipeOf(x, c.pipe).open THEN SendClose(x, c.pipe) ELSE Answer(x, "CLOSE", c.app)
ApiDeletePipe(x, c) == IF OwnPipe(x, c) THEN SendDelete(x, c.pipe) ELSE Answer(x, "DELETE", c.app)

ApiRegistry(x, c) ==
    LET y == [x EXCEPT !.h.app_in_use = c.app]
    IN IF ~OwnPipe(x, c) THEN Answer(x, "CMD_SENT", c.app)
       ELSE IF Resetting(x, c) THEN PutAside(y, c)
       ELSE IF ~PipeOf(x, c.pipe).open THEN Answer(y, "CMD_SENT", c.app)
       ELSE IF c.op = "GET" THEN SendGet(y, c.pipe, "REG") ELSE SendSet(y, c.pipe, "REG", 0)
ApiSendCmd(x, c) ==
    IF ~MaySend(x, c) THEN Answer(x, "CMD_SENT", c.app)
    ELSE IF Resetting(x, c) THEN PutAside(x, c)
    ELSE IF ~PipeOf(x, c.pipe).open THEN Answer(x, "CMD_SENT", c.app)
    ELSE SendMsg([x EXCEPT !.h.pipe_in_use = c.pipe], Pkt(c.pipe, "cmd", "CMD"))
ApiSendRsp(x, c) == IF MaySend(x, c) /\ PipeOf(x, c.pipe).open THEN Respond(x, c.pipe, "OK") ELSE x
ApiSendEvent(x, c) ==
    LET sent == SendMsg(x, Pkt(c.pipe, "evt", "EVT"))
        expecting == [StartTimer(sent) EXCEPT !.h.pipe_in_use = c.pipe, !.h.w4_rsp_evt = TRUE,
                                              !.h.hci_state = "WAIT_RSP"]
    IN IF MaySend(x, c) /\ Resetting(x, c) THEN PutAside(x, c)
       ELSE Answer(IF ~MaySend(x, c) \/ ~PipeOf(x, c.pipe).open THEN x ELSE IF c.timeout THEN expecting ELSE sent,
                   "EVENT_SENT", c.app)

(* The gate is the application's from now on, whoever had it; when there   *)
(* is no room for the pipe the gate is freed, whatever pipes it has.       *)
OpenOrRelease(t, pid, gate) == IF FindPipe(t, pid) = 0 THEN ReleaseGate(t, gate) ELSE OpenPipe(t, pid, TRUE)
AddStaticPipe(t, c, g) ==
    OpenOrRelease(AddPipeToGate([t EXCEPT !.gates[g].owner = c.app], c.pipe, t.gates[g].id, env.host, c.gate),
                  c.pipe, t.gates[g].id)
ApiAddStaticPipe(x, c) ==
    LET g == AllocGateSlot(x.h.cfg.t, c.gate, c.app, x.h.cback)
    IN Answer(IF g = 0 THEN x
              ELSE SetTables(x, AddStaticPipe(AllocGate(x.h.cfg.t, c.gate, c.app, x.h.cback), c, g)), "STATIC", c.app)

(* nfa_hci_check_pending_api_requests: one of the requests put aside.      *)
CheckPending(x) ==
    IF x.h.hci_state # "IDLE" \/ x.h.hci_host_reset_api_q = <<>> THEN x
    ELSE LET c == Head(x.h.hci_host_reset_api_q)
             y == [x EXCEPT !.h.hci_host_reset_api_q = Tail(@), !.h.app_in_use = c.app]
         IN CASE c.op \in {"GET", "SET"} -> ApiRegistry(y, c)
              [] c.op = "CMD" -> ApiSendCmd(y, c)
              [] c.op = "EVENT" -> ApiSendEvent(y, c)
              [] OTHER -> y
ServePending(x) == IF x.h.reset_host = {} THEN CheckPending(x) ELSE x

-----------------------------------------------------------------------------
(* The configuration of the NFCEEs: once the network is up, and again when *)
(* a host has cleared its pipes (nfa_hci_handle_nfcee_config_evt, an       *)
(* operator for each event; the events that another raises come first).    *)

HostResetPending(x) == x.h.ee_active /\ ~x.h.polled
Configure == Msg("api")        \* NFA_HCI_API_CONFIGURE_EVT
ConfigComplete(x) ==
    LET y == [x EXCEPT !.h.session_id_retry = 0, !.h.config_nfcee_state = "COMPLETE", !.h.hci_state = "IDLE"]
        z == IF ~x.h.nfc_init_state THEN y
             ELSE IF HostResetPending(x) THEN Post(y, Configure)
             ELSE [y EXCEPT !.h.nfc_init_state = FALSE, !.app.started = TRUE]
    IN ServePending(z)

(* NFA_HCI_INIT_NFCEE_CONFIG, and the answers to it by                     *)
(* nfa_hci_nfcee_config_rsp_handler.                                       *)
HostTypeListRead(x, ok) ==
    IF ~ok \/ x.h.nfc_init_state \/ x.h.host_count = 0 \/ x.h.configured THEN ConfigComplete(x)
    ELSE [x EXCEPT !.h.config_nfcee_state = "INIT", !.h.hci_state = "NFCEE_ENABLE", !.net.mode = TRUE]
ConfigDone(x) == HostTypeListRead(x, TRUE)
GetHostTypeList(x) ==
    LET y == [x EXCEPT !.h.config_nfcee_state = "HOST_TYPE_LIST", !.h.hci_state = "NFCEE_ENABLE",
                       !.app.overtaken = @ \/ x.h.hci_state \notin {"IDLE", "NFCEE_ENABLE"}]
    IN IF y.h.version12 THEN SendGet(y, NFA_HCI_ADMIN_PIPE, "HOST_TYPE_LIST") ELSE HostTypeListRead(y, FALSE)

(* nfa_hci_poll_all_nfcee_session_id: until the session identity of the    *)
(* NFCEE is no longer the default one.                                     *)
(* Faulty: the polls are not counted.                                      *)
PollAll_NoCount(x) ==
    IF HostResetPending(x) /\ x.h.session_id_retry <= NFA_HCI_MAX_SESSION_ID_RETRY_CNT
    THEN [StartTimer(x) EXCEPT !.net.raw = TRUE]
    ELSE GetHostTypeList(IF HostResetPending(x) THEN [x EXCEPT !.h.session_id_retry = 0, !.h.polled = TRUE] ELSE x)
PollAll(x) ==
    IF HostResetPending(x) /\ x.h.session_id_retry <= NFA_HCI_MAX_SESSION_ID_RETRY_CNT
    THEN [StartTimer(x) EXCEPT !.h.session_id_retry = @ + 1, !.net.raw = TRUE]
    ELSE GetHostTypeList(IF HostResetPending(x) THEN [x EXCEPT !.h.session_id_retry = 0, !.h.polled = TRUE] ELSE x)
ReadSessionId(x) == PollAll([x EXCEPT !.h.config_nfcee_state = "READ_SESSIONID"])
GetNum(x) ==
    LET y == [StopTimer(x) EXCEPT !.h.nfc_init_state = TRUE, !.h.hci_state = "NFCEE_ENABLE",
                                  !.h.config_nfcee_state = "GET_NUM", !.h.ee_active = x.net.enabled,
                                  !.h.polled = FALSE, !.h.configured = FALSE]
    IN IF env.few THEN [y EXCEPT !.h.timer = "poll"] ELSE ReadSessionId(y)
(* It takes the state, the timer and cmd_sent from a request in progress.  *)
AllPipeCleared(x) ==
    IF x.h.hci_state \in {"DISABLED", "STARTUP", "WAIT_NETWK_ENABLE"} THEN x
    ELSE ReadSessionId([x EXCEPT !.app.overtaken = @ \/ x.h.hci_state # "IDLE"])

(* nfa_hci_poll_session_id_cb: what the NFCC reports of the NFCEE.         *)
PollSessionIdCb(x, session) ==
    LET y == StopTimer(x)
        known == [y EXCEPT !.h.session_id_retry = NFA_HCI_MAX_SESSION_ID_RETRY_CNT + 1]
    IN IF session = "default" /\ x.h.session_id_retry <= NFA_HCI_MAX_SESSION_ID_RETRY_CNT
       THEN [y EXCEPT !.h.timer = "poll"]
       ELSE ReadSessionId(IF session = "session" THEN known ELSE y)

(* nfa_hci_api_config_nfcee: a pipe to the APDU gate of the host, which    *)
(* belongs to the application with the first handle.                       *)
ConfigNfcee(x) ==
    LET y == [x EXCEPT !.h.configured = x.h.ee_active]
    IN IF x.h.version12 /\ x.h.hci_state = "NFCEE_ENABLE" /\ ~PipePresent(x.h.cfg.t, env.host, APDU)
       THEN SendCreate(SetTables(y, AllocGate(x.h.cfg.t, APDU, 1, x.h.cback)), APDU, APDU)
       ELSE ConfigDone(y)


-----------------------------------------------------------------------------
(* Requests in turn (nfa_hci_check_api_requests), while none is under way. *)

Serve(x, c) ==
    CASE c.op = "REGISTER" -> ApiRegister(x, c)
      [] c.op = "DEREGISTER" -> ApiDeregister(x, c)
      [] c.op = "ALLOC" -> ApiAllocGate(x, c)
      [] c.op = "DEALLOC" -> DeallocGate(x, c.gate, c.app)
      [] c.op = "LIST" -> Answer(x, "LIST", c.app)
      [] c.op = "HOSTS" -> ApiGetHostList(x, c)
      [] c.op = "CREATE" -> ApiCreatePipe(x, c)
      [] c.op = "OPEN" -> ApiOpenPipe(x, c)
      [] c.op = "CLOSE" -> ApiClosePipe(x, c)
      [] c.op = "DELETE" -> ApiDeletePipe(x, c)
      [] c.op \in {"GET", "SET"} -> ApiRegistry(x, c)
      [] c.op = "CMD" -> ApiSendCmd(x, c)
      [] c.op = "RSP" -> ApiSendRsp(x, c)
      [] c.op = "EVENT" -> ApiSendEvent(x, c)
      [] c.op = "STATIC" -> ApiAddStaticPipe(x, c)
      [] c.op = "CONFIGURE" -> ReadSessionId(x)

Served(x, c) ==
    IF x.h.hci_state # "IDLE" THEN x ELSE Serve([x EXCEPT !.h.hci_api_q = Tail(@), !.h.app_in_use = c.app], c)
CheckApi(x) == FoldLeft(Served, x, x.h.hci_api_q)

-----------------------------------------------------------------------------
(* The start of the network.                                               *)

StartupComplete(x, ok) ==
    LET y == StopTimer(x)
    IN IF x.h.hci_state = "NFCEE_ENABLE"
       THEN IF x.h.cmd_sent = "GET" /\ x.h.param_in_use = "HOST_LIST" THEN [y EXCEPT !.h.hci_state = "IDLE"]
            ELSE ConfigDone([y EXCEPT !.h.hci_state = "IDLE"])
       ELSE IF ok THEN GetNum(y)
       ELSE [ConfigComplete(y) EXCEPT !.h.hci_state = "DISABLED"]

SendHostList(x) == SendGet(x, NFA_HCI_ADMIN_PIPE, "HOST_LIST")

(* nfa_hci_enable_one_nfcee: one NFCEE after the other is switched on, then *)
(* the hosts are asked for.                                                *)
EnableOneNfcee(x) ==
    IF ~x.net.enabled THEN [x EXCEPT !.net.mode = TRUE]
    ELSE IF x.h.hci_state = "WAIT_NETWK_ENABLE" THEN SendHostList([x EXCEPT !.h.w4_nfcee_enable = FALSE])
    ELSE x
(* nfa_hci_network_enable, and what follows it.                            *)
NetworkEnable(x) ==
    LET y == IF env.hci_nfcee THEN [x EXCEPT !.h.w4_hci_netwk_init = FALSE] ELSE x
    IN IF x.h.hci_state # "STARTUP" THEN y
       ELSE EnableOneNfcee([y EXCEPT !.h.hci_state = "WAIT_NETWK_ENABLE", !.h.w4_nfcee_enable = TRUE])

(* nfa_hci_handle_nv_read: what was read is used, or the network is reset. *)
NvRead(x) ==
    LET y == [StopTimer(x) EXCEPT !.h.nv_read_cmplt = TRUE]
    IN IF x.h.cfg.session # DefaultSession /\ IsValidCfg(x.h.cfg.t) THEN y
       ELSE [y EXCEPT !.h.b_hci_netwk_reset = TRUE, !.h.cfg = DefaultConfig(Fresh(x))]
(* nfa_hci_startup and the creation of the connection.                     *)
ConnCreate(x) ==
    LET y == [x EXCEPT !.h.ee_disc_cmplt = TRUE, !.h.conn_id = TRUE, !.h.w4_hci_netwk_init = TRUE,
                       !.h.cfg.t = AllocGate(@, Connectivity, NoOwner, x.h.cback)]
    IN IF ~x.h.cfg.admin THEN SendOpen(y, NFA_HCI_ADMIN_PIPE)
       ELSE SendSet(y, NFA_HCI_ADMIN_PIPE, "WHITELIST", 0)

(* A host list makes the hosts that are not in it inactive.                *)
UpdateHosts(x, p) ==
    [x EXCEPT !.h.inactive_host = IF p.host THEN {UICC} \ {env.host} ELSE {UICC},
              !.h.reset_host = IF p.host THEN @ \ {env.host} ELSE @]
(* Every pipe is gone with CLEAR_ALL: begin again with the admin pipe.     *)
AllCleared(x) ==
    SendOpen(NeedWrite([x EXCEPT !.h.cfg.t = RemoveAllPipes(@, 0), !.h.cfg.admin = FALSE, !.h.cfg.link = FALSE]),
             NFA_HCI_ADMIN_PIPE)

(* nfa_hci_handle_admin_gate_rsp while the network starts.                 *)
StartupRsp(x, p) ==
    LET cmd == x.h.cmd_sent
        par == x.h.param_in_use
        typed == IF p.inst = "OK" THEN [x EXCEPT !.h.version12 = TRUE] ELSE x
        failed == p.inst # "OK" /\ par # "HOST_TYPE"
        hosts == cmd = "GET" /\ par = "HOST_LIST"
    IN CASE p.inst = "E_PIPE_NOT_OPENED" -> SendOpen(x, NFA_HCI_ADMIN_PIPE)
         [] failed \/ hosts -> StartupComplete(IF failed THEN x ELSE UpdateHosts(x, p), ~failed)
         [] OTHER ->
              CASE cmd = "SET" /\ par = "WHITELIST" -> SendSet(x, NFA_HCI_ADMIN_PIPE, "HOST_TYPE", 0)
                [] cmd = "SET" /\ par = "HOST_TYPE" /\ x.h.b_hci_netwk_reset ->
                     SetNewSession([typed EXCEPT !.h.b_hci_netwk_reset = FALSE])
                [] cmd = "SET" /\ par = "HOST_TYPE" /\ ~x.h.b_hci_netwk_reset ->
                     SendGet(typed, NFA_HCI_ADMIN_PIPE, "SESSION")
                [] cmd = "SET" /\ par = "SESSION" -> NetworkEnable(x)
                [] cmd = "GET" /\ par = "SESSION" ->
                     IF p.val = x.h.cfg.session THEN NetworkEnable(x) ELSE SetNewSession(x)
                [] cmd = "OPEN" -> SendSet([x EXCEPT !.h.cfg.admin = TRUE], NFA_HCI_ADMIN_PIPE, "WHITELIST", 0)
                [] cmd = "CLEAR_ALL" -> AllCleared(x)
                [] OTHER -> x

(* nfa_hci_handle_Nfcee_admpipe_rsp: the administration pipe while the     *)
(* NFCEEs are configured.  The new pipe goes to no gate's mask.            *)
NfceeAdmRsp(x, p) ==
    LET typelist == x.h.cmd_sent = "GET" /\ x.h.param_in_use = "HOST_TYPE_LIST"
        failed == [x EXCEPT !.h.hci_state = "IDLE"]
        listed == [StopTimer(x) EXCEPT !.h.host_count = IF p.host THEN 1 ELSE 0]
    IN CASE p.inst = "OK" /\ ~typelist /\ x.h.cmd_sent = "GET" -> x
         [] p.inst = "OK" /\ x.h.cmd_sent = "CREATE" ->
              SendOpen(SetTables(x, AddPipeToStaticGate(x.h.cfg.t, p.new, p.gate, env.host, p.dgate)), p.new)
         [] OTHER -> HostTypeListRead(CASE p.inst # "OK" -> StopTimer(failed)
                                        [] p.inst = "OK" /\ typelist -> listed
                                        [] OTHER -> failed, p.inst = "OK" \/ ~typelist)

-----------------------------------------------------------------------------
(* The administration pipe.                                                *)

(* A deregistration or a deallocation goes on after each of its commands.  *)
Continue(x) ==
    CASE x.h.hci_state = "APP_DEREGISTER" -> ContinueDeregister(x)
      [] x.h.hci_state = "REMOVE_GATE" -> ContinueDealloc(x)
      [] OTHER -> x

(* The responses, by the command sent last; only a creation looks whether  *)
(* it is the one that was asked for.                                       *)
CreateRsp(x, p) ==
    IF p.inst # "OK" THEN AnswerUser(x, "CREATE")
    ELSE IF p.gate # x.h.local_gate_in_use THEN x
    ELSE AnswerUser(SetTables(x, AddPipeToGate(x.h.cfg.t, p.new, p.gate, env.host, p.dgate)), "CREATE")
DeleteRsp(x, p) ==
    LET released == SetTables(x, ReleasePipe(x.h.cfg.t, x.h.pipe_in_use))
    IN IF x.h.hci_state = "IDLE" THEN AnswerUser(IF p.inst = "OK" THEN released ELSE x, "DELETE")
       ELSE IF p.inst = "OK" \/ x.h.hci_state \in {"APP_DEREGISTER", "REMOVE_GATE"} THEN Continue(released)
       ELSE x
HostListRsp(x, p) ==
    LET Overtaken(y) == [y EXCEPT !.app.overtaken = @ \/ y.h.hci_host_reset_api_q # x.h.hci_host_reset_api_q]
    IN AnswerUser(Overtaken(ServePending(UpdateHosts(x, p))), "HOSTS")
OpenAdminRsp(x, p) ==
    LET y == NeedWrite([x EXCEPT !.h.cfg.admin = p.inst = "OK"])
    IN IF p.inst = "OK" THEN SendGet(y, NFA_HCI_ADMIN_PIPE, "SESSION") ELSE y
AdminRsp(x, p) ==
    CASE x.h.hci_state \in {"STARTUP", "WAIT_NETWK_ENABLE"} -> StartupRsp(x, p)
      [] x.h.hci_state = "NFCEE_ENABLE" -> NfceeAdmRsp(x, p)
      [] OTHER ->
           CASE x.h.cmd_sent = "SET" -> Continue(x)
             [] x.h.cmd_sent = "GET" /\ x.h.param_in_use = "SESSION" ->
                  IF p.val = DefaultSession THEN SetNewSession(NeedWrite(x)) ELSE Continue(x)
             [] x.h.cmd_sent = "GET" /\ x.h.param_in_use = "HOST_LIST" -> HostListRsp(x, p)
             [] x.h.cmd_sent = "CREATE" -> CreateRsp(x, p)
             [] x.h.cmd_sent = "DELETE" -> DeleteRsp(x, p)
             [] x.h.cmd_sent = "OPEN" -> OpenAdminRsp(x, p)
             [] x.h.cmd_sent = "CLEAR_ALL" -> AllCleared(x)
             [] OTHER -> x

(* The commands of the host controller.  Those that close the admin pipe   *)
(* make the device host open it, whatever it is waiting for.               *)
Reopen(x) ==
    SendOpen([x EXCEPT !.h.app_in_use = InvalidHandle, !.app.overtaken = @ \/ x.h.hci_state # "IDLE"], NFA_HCI_ADMIN_PIPE)
(* The response to a new pipe, with the tables.                            *)
NotifyCreated(x, p) ==
    LET t == x.h.cfg.t
        u == IF FindGate(t, p.gate) = 0 THEN AllocGate(t, p.gate, NoOwner, x.h.cback) ELSE t
        given == SetTables(x, AddPipeToGate(u, p.new, p.gate, env.host, p.dgate))
        rsp(y, ok) == Respond(y, NFA_HCI_ADMIN_PIPE, IF ok THEN "OK" ELSE "E_NOK")
    IN IF p.gate \in {Identity, Loopback}
       THEN rsp(SetTables(x, AddPipeToStaticGate(t, p.new, p.gate, env.host, p.dgate)), RoomFor(t, p.new))
       ELSE IF FindGate(t, p.gate) # 0 /\ PipeBetweenGates(t, p.gate, env.host, p.dgate) THEN rsp(x, FALSE)
       ELSE IF FindGate(t, p.gate) = 0 /\ p.gate \notin PropGate THEN rsp(x, FALSE)
       ELSE rsp(given, AddedToGate(u, p.new, p.gate))
NotifyCleared(x) ==
    LET y == [x EXCEPT !.h.cfg.t = RemoveAllPipes(@, env.host), !.h.reset_host = @ \cup ({env.host} \cap {UICC})]
        z == [Respond(y, NFA_HCI_ADMIN_PIPE, "OK") EXCEPT !.h.configured = FALSE, !.h.polled = FALSE]
    IN IF x.h.nfc_init_state THEN z ELSE AllPipeCleared(z)
AdminCmd(x, p) ==
    CASE p.inst = "OPEN" -> Respond([x EXCEPT !.h.cfg.admin = TRUE], NFA_HCI_ADMIN_PIPE, "OK")
      [] p.inst = "CLOSE" -> Reopen(Respond([x EXCEPT !.h.cfg.admin = FALSE], NFA_HCI_ADMIN_PIPE, "OK"))
      [] p.inst = "CREATED" -> NotifyCreated(x, p)
      [] p.inst = "DELETED" ->
           Respond(SetTables(x, ReleasePipe(x.h.cfg.t, p.new)), NFA_HCI_ADMIN_PIPE,
                   IF Releasable(x.h.cfg.t, p.new) THEN "OK" ELSE "E_NOK")
      [] p.inst = "CLEARED" -> NotifyCleared(x)
      [] p.inst = "CLEARED_HC" ->
           Reopen([x EXCEPT !.h.cfg.t = RemoveAllPipes(@, 0), !.h.cfg.link = FALSE, !.h.cfg.admin = FALSE])

(* A host that appears: the list of hosts is asked for, for nobody.        *)
HostListCall == [NoCall EXCEPT !.op = "HOSTS"]
AdminEvt(x, p) ==
    IF p.inst # "HOT_PLUG" \/ x.h.hci_state \in {"STARTUP", "WAIT_NETWK_ENABLE"} THEN x
    ELSE Post(x, [Msg("api") EXCEPT !.call = HostListCall])

LinkCmd(x, p) ==
    IF ~x.h.cfg.link /\ p.inst # "OPEN" THEN Respond(x, NFA_HCI_LINK_MANAGEMENT_PIPE, "E_PIPE_NOT_OPENED")
    ELSE Respond([x EXCEPT !.h.cfg.link = IF p.inst \in {"OPEN", "CLOSE"} THEN p.inst = "OPEN" ELSE @],
                 NFA_HCI_LINK_MANAGEMENT_PIPE,
                 IF p.inst \in {"OPEN", "CLOSE", "GET", "SET"} THEN "OK" ELSE "E_UNSUPPORTED")

-----------------------------------------------------------------------------
(* The dynamic pipes: a packet p for the pipe of number p.pipe.            *)

SetOpen(x, p, open) == SetTables(x, OpenPipe(x.h.cfg.t, p.pipe, open))
(* nfa_hci_handle_pipe_open_close_cmd.                                     *)
OpenCloseCmd(x, p) == Respond(NeedWrite(SetOpen(x, p, p.inst = "OPEN")), p.pipe, "OK")

(* The identity gate answers commands; opening or closing its pipe is not  *)
(* written to flash by itself.                                             *)
IdentityPkt(x, p) ==
    CASE p.type # "cmd" -> x
      [] p.type = "cmd" /\ p.inst = "GET" ->
           Respond(x, p.pipe, IF PipeOf(x, p.pipe).open THEN "OK" ELSE "E_PIPE_NOT_OPENED")
      [] p.type = "cmd" /\ p.inst \in {"OPEN", "CLOSE"} -> Respond(SetOpen(x, p, p.inst = "OPEN"), p.pipe, "OK")
      [] OTHER -> Respond(x, p.pipe, "E_UNSUPPORTED")

(* A response on a pipe of the loopback or the connectivity gate.          *)
StaticGateRsp(x, p) ==
    AnswerUser(CASE x.h.cmd_sent = "OPEN" /\ p.inst = "OK" -> SetOpen(x, p, TRUE)
                 [] x.h.cmd_sent = "CLOSE" -> SetOpen(x, p, FALSE)
                 [] OTHER -> x, "RSP_RCVD")
(* Posted data goes back where it came from, as an event of the device     *)
(* host's own.                                                             *)
LoopbackPkt(x, p) ==
    CASE p.type = "cmd" /\ p.inst \in {"OPEN", "CLOSE"} -> Respond(SetOpen(x, p, p.inst = "OPEN"), p.pipe, "OK")
      [] p.type = "cmd" /\ p.inst \notin {"OPEN", "CLOSE"} -> Respond(x, p.pipe, "E_UNSUPPORTED")
      [] p.type = "rsp" -> StaticGateRsp(x, p)
      [] p.type = "evt" /\ ~x.h.w4_rsp_evt /\ p.inst = "POST_DATA" ->
           SendMsg([x EXCEPT !.app.overtaken = @ \/ Waiting(x)], Pkt(p.pipe, "evt", "POST_DATA"))
      [] OTHER -> x
ConnectivityPkt(x, p) ==
    CASE p.type = "cmd" /\ p.inst \in {"OPEN", "CLOSE"} -> OpenCloseCmd(x, p)
      [] p.type = "cmd" /\ p.inst \notin {"OPEN", "CLOSE"} -> Respond(x, p.pipe, "E_UNSUPPORTED")
      [] p.type = "rsp" -> StaticGateRsp(x, p)
      [] OTHER -> x

(* The gates of applications: only the state of the pipe is kept here.     *)
GenericCmd(x, p) == IF p.inst \in {"OPEN", "CLOSE"} THEN OpenCloseCmd(x, p) ELSE x
GenericRsp(x, p) ==
    CASE x.h.cmd_sent = "OPEN" ->
           AnswerUser(NeedWrite(IF p.inst = "OK" THEN SetOpen(x, p, TRUE) ELSE x), "OPEN")
      [] x.h.cmd_sent = "CLOSE" -> AnswerUser(NeedWrite(SetOpen(x, p, FALSE)), "CLOSE")
      [] x.h.cmd_sent \in {"GET", "SET"} -> AnswerUser(x, x.h.cmd_sent)
      [] OTHER ->
           AnswerUser(IF p.inst = "E_PIPE_NOT_OPENED" THEN NeedWrite(SetOpen(x, p, FALSE)) ELSE x, "RSP_RCVD")
GenericPkt(x, p) ==
    CASE FindGate(x.h.cfg.t, PipeOf(x, p.pipe).gate) = 0 ->
           IF p.type = "cmd" THEN Respond(x, p.pipe, "E_NOK") ELSE x
      [] OTHER ->
           CASE p.type = "cmd" -> GenericCmd(x, p)
             [] p.type = "rsp" -> GenericRsp(x, p)
             [] p.type = "evt" -> [x EXCEPT !.h.IsEventAbortSent = FALSE]

(* nfa_hci_handle_Nfcee_dynpipe_rsp: the pipe to the APDU gate is ready    *)
(* with the answer to reset that follows its opening.                      *)
NfceeDynRsp(x, p) ==
    LET y == IF p.type = "rsp" THEN StopTimer(x) ELSE x
        failed == p.type = "rsp" /\ p.inst # "OK"
        reset == p.type = "evt" /\ p.inst = "ABORT"
    IN IF failed \/ reset THEN ConfigDone([y EXCEPT !.h.hci_state = "IDLE"]) ELSE y

GatePkt(x, p, gate) ==
    CASE gate = Identity -> IdentityPkt(x, p)
      [] gate = Loopback -> LoopbackPkt(x, p)
      [] gate = Connectivity -> ConnectivityPkt(x, p)
      [] OTHER -> GenericPkt(x, p)
DynPipePkt(x, p) ==
    LET unknown == IF p.type = "cmd" THEN Respond(x, p.pipe, "E_NOK") ELSE x
        configuring == x.h.hci_state = "NFCEE_ENABLE"
    IN IF FindPipe(x.h.cfg.t, p.pipe) = 0
       THEN IF configuring THEN ConfigDone([unknown EXCEPT !.h.hci_state = "IDLE"]) ELSE unknown
       ELSE GatePkt(IF configuring THEN NfceeDynRsp(x, p) ELSE x, p, PipeOf(x, p.pipe).gate)

-----------------------------------------------------------------------------
(* What wakes the component: a packet, its mailbox, a timer.               *)

(* A response, or the event a sent event is to be answered with, ends the  *)
(* wait for it, of whatever pipe it is.                                    *)
AnswersEvent(x, p) == x.h.w4_rsp_evt /\ p.type = "evt"
Expected(x, p) ==
    LET done == [StopTimer(x) EXCEPT !.h.hci_state = "IDLE"]
    IN CASE x.h.hci_state # "WAIT_RSP" \/ (p.type # "rsp" /\ ~AnswersEvent(x, p)) -> x
         [] p.pipe = NFA_HCI_APDU_PIPE ->
              IF p.inst = "WTX" THEN (IF x.h.w4_rsp_evt THEN StartTimer(x) ELSE StopTimer(x)) ELSE done
         [] OTHER -> IF p.pipe = NFA_HCI_CONN_PIPE /\ p.inst = "TRANSACTION" THEN x ELSE done

(* nfa_hci_conn_cback with a packet.  While an abort is unanswered what    *)
(* comes on the APDU pipe is dropped.                                      *)
Gated(x, p) ==
    CASE p.pipe = NFA_HCI_ADMIN_PIPE ->
           (CASE p.type = "cmd" -> AdminCmd(x, p)
              [] p.type = "rsp" -> AdminRsp(x, p)
              [] p.type = "evt" -> AdminEvt(x, p))
      [] p.pipe = NFA_HCI_LINK_MANAGEMENT_PIPE -> IF p.type = "cmd" THEN LinkCmd(x, p) ELSE x
      [] OTHER -> DynPipePkt(x, p)
Accept(x, p) ==
    LET aborted == p.pipe = NFA_HCI_APDU_PIPE /\ x.h.IsLastEvtAbortFailed
        y == IF aborted /\ p.inst = "ABORT" THEN [x EXCEPT !.h.IsLastEvtAbortFailed = FALSE] ELSE x
        over(z) == /\ p.pipe = NFA_HCI_APDU_PIPE
                   /\ p.type = "rsp" \/ (AnswersEvent(z, p) /\ p.inst # "WTX")
        Done(z) == [z EXCEPT !.h.w4_rsp_evt = IF over(z) THEN FALSE ELSE @]
    IN IF aborted /\ x.h.evt_sent # "ABORT" THEN y ELSE Post(Done(Gated(Expected(y, p), p)), Msg("check"))
Receive(x, p) ==
    Accept(IF x.h.hci_state # "WAIT_NETWK_ENABLE" THEN x
           ELSE IF x.h.w4_hci_netwk_init THEN StartTimer(x) ELSE StopTimer(x), p)

(* nfa_hci_rsp_timeout.  The command of a request in progress is taken for *)
(* unanswered, of a deletion for done; an event the secure element does    *)
(* not answer is followed by an abort, and the wait goes on once.          *)
(* Faulty: an application does not hear that its creation timed out.       *)
GiveUp_CreateSilent(x) ==
    CASE x.h.cmd_sent \in {"SET", "GET", "OPEN", "CLOSE"} -> AnswerUser(x, x.h.cmd_sent)
      [] x.h.cmd_sent = "DELETE" -> AnswerUser(SetTables(x, ReleasePipe(x.h.cfg.t, x.h.pipe_in_use)), "DELETE")
      [] OTHER -> x
GiveUp(x) ==
    CASE x.h.cmd_sent \in {"SET", "GET", "OPEN", "CLOSE", "CREATE"} -> AnswerUser(x, x.h.cmd_sent)
      [] x.h.cmd_sent = "DELETE" -> AnswerUser(SetTables(x, ReleasePipe(x.h.cfg.t, x.h.pipe_in_use)), "DELETE")
      [] OTHER -> x
RspTimeout(x) ==
    LET idle == [x EXCEPT !.h.hci_state = "IDLE"]
        abort == [StartTimer(Send(x, Pkt(x.h.pipe_in_use, "evt", "ABORT"))) EXCEPT !.h.IsEventAbortSent = TRUE]
        gaveUp == [idle EXCEPT !.h.w4_rsp_evt = FALSE, !.h.IsEventAbortSent = FALSE,
                               !.h.IsLastEvtAbortFailed = @ \/ x.h.IsEventAbortSent]
        waiting == x.h.hci_state = "WAIT_NETWK_ENABLE"
    IN CASE x.h.hci_state \in {"STARTUP", "NFCEE_ENABLE"} \/ (waiting /\ ~x.h.w4_hci_netwk_init) -> StartupComplete(x, FALSE)
         [] waiting /\ x.h.w4_hci_netwk_init -> SendHostList([x EXCEPT !.h.w4_hci_netwk_init = FALSE])
         [] x.h.hci_state \in {"REMOVE_GATE", "APP_DEREGISTER"} ->
              IF x.h.cmd_sent = "DELETE" THEN SendClearAll(x) ELSE Continue(SetTables(x, RemoveAllPipes(x.h.cfg.t, 0)))
         [] x.h.hci_state = "WAIT_RSP" /\ x.h.w4_rsp_evt ->
              IF env.host = ESE /\ x.net.enabled /\ ~x.h.IsEventAbortSent THEN abort ELSE gaveUp
         [] x.h.hci_state = "WAIT_RSP" /\ ~x.h.w4_rsp_evt -> GiveUp(idle)
         [] OTHER -> x

(* nfa_hci_evt_hdlr: the message, then the requests that wait, those put   *)
(* aside, and flash.                                                       *)
Handled(x, m) ==
    CASE m.t = "api" -> [x EXCEPT !.h.hci_api_q = Append(@, m.call)]
      [] m.t = "nv_read" -> NvRead(x)
      [] m.t = "timeout" -> RspTimeout(x)
      [] m.t = "poll" -> ReadSessionId(x)
      [] m.t = "check" -> x
(* Faulty: the mark is cleared whether or not there is time to write.      *)
WriteFlash_ForgetsMark(x) ==
    LET cfg == [x.h.cfg EXCEPT !.t.nv = FALSE]
    IN IF x.h.hci_state # "IDLE" \/ ~x.h.cfg.t.nv THEN [x EXCEPT !.h.cfg = cfg]
       ELSE [x EXCEPT !.h.cfg = cfg, !.h.nv = <<cfg>>]
WriteFlash(x) ==
    LET cfg == [x.h.cfg EXCEPT !.t.nv = FALSE]
    IN IF x.h.hci_state # "IDLE" \/ ~x.h.cfg.t.nv THEN x ELSE [x EXCEPT !.h.cfg = cfg, !.h.nv = <<cfg>>]
EvtHdlr(x, m) == WriteFlash(ServePending(CheckApi(Handled(x, m))))

-----------------------------------------------------------------------------
(* The other side: the host controller and the terminal host behind it.    *)

Reply(n, p, inst) == [n EXCEPT !.in = Append(@, Pkt(p.pipe, "rsp", inst))]
ReplyWith(n, p, val, host) ==
    [n EXCEPT !.in = Append(@, [Pkt(p.pipe, "rsp", "OK") EXCEPT !.val = val, !.host = host])]
TellEvent(n, p, inst) == [n EXCEPT !.in = Append(@, Pkt(p.pipe, "evt", inst))]
Connect(n, pid, gate, dgate) ==
    [n EXCEPT !.used = @ \cup {pid}, !.open = @ \ {pid}, !.gate[pid] = gate, !.dgate[pid] = dgate]
Disconnect(n, pids) == [n EXCEPT !.used = @ \ pids, !.open = @ \ pids]

(* The number of a new pipe: the gates of APDUs and of connectivity have   *)
(* theirs, the others take what is free.                                   *)
NewPipe(n, gate) ==
    LET own == CASE gate = APDU -> {NFA_HCI_APDU_PIPE}
                 [] gate = Connectivity -> {NFA_HCI_CONN_PIPE}
                 [] OTHER -> {2, 3}
        promised == {n.asked[i].new : i \in DOMAIN n.asked}
    IN First(own \ (n.used \cup promised))

(* What the host controller answers to a command on the admin pipe.        *)
HcAdmin(n, p) ==
    LET pid == NewPipe(n, p.gate)
    IN CASE p.inst = "OPEN" -> Reply([n EXCEPT !.admin = TRUE], p, "OK")
         [] p.inst # "OPEN" /\ ~n.admin -> Reply(n, p, "E_PIPE_NOT_OPENED")
         [] p.inst = "SET" /\ n.admin ->
              (CASE p.par = "SESSION" -> Reply([n EXCEPT !.session = p.val], p, "OK")
                 [] p.par = "HOST_TYPE" /\ ~env.version12 -> Reply(n, p, "E_UNSUPPORTED")
                 [] OTHER -> Reply(n, p, "OK"))
         [] p.inst = "GET" /\ n.admin -> ReplyWith(n, p, n.session, n.listed)
         [] p.inst = "CREATE" /\ n.admin ->
              IF pid = 0 THEN Reply(n, p, "E_NO_PIPES")
              ELSE [Connect(n, pid, p.gate, p.dgate)
                       EXCEPT !.in = Append(@, [Pkt(p.pipe, "rsp", "OK")
                                                   EXCEPT !.gate = p.gate, !.dgate = p.dgate, !.new = pid])]
         [] p.inst = "DELETE" /\ n.admin ->
              Reply(Disconnect(n, {p.new}), p, IF p.new \in n.used THEN "OK" ELSE "E_NOK")
         [] p.inst = "CLEAR_ALL" /\ n.admin ->
              Reply([Disconnect(n, n.used) EXCEPT !.admin = FALSE, !.session = DefaultSession], p, "OK")

(* What comes of a packet from the device host: a command is answered; an  *)
(* event on the APDU pipe too, perhaps after a request for time; a         *)
(* response completes what the host controller had asked.                  *)
HostAnswers(n, p) ==
    CASE p.pipe \notin n.used -> {Reply(n, p, "E_NOK")}
      [] p.pipe \in n.used /\ p.inst = "OPEN" ->
           LET opened == Reply([n EXCEPT !.open = @ \cup {p.pipe}], p, "OK")
           IN {IF n.dgate[p.pipe] = APDU THEN TellEvent(opened, p, "ABORT") ELSE opened}
      [] p.pipe \in n.used /\ p.inst = "CLOSE" -> {Reply([n EXCEPT !.open = @ \ {p.pipe}], p, "OK")}
      [] OTHER -> {Reply(n, p, IF p.pipe \in n.open THEN "OK" ELSE "E_PIPE_NOT_OPENED")}
HostEvents(n, p) ==
    CASE p.pipe \notin n.open -> {n}
      [] p.pipe \in n.open /\ p.inst = "ABORT" -> {TellEvent(n, p, "ABORT")}
      [] p.pipe \in n.open /\ p.inst = "EVT" ->
           {TellEvent(n, p, "EVT")} \cup
           (IF n.dgate[p.pipe] = APDU THEN {TellEvent(TellEvent(n, p, "WTX"), p, "EVT")} ELSE {})
      [] OTHER -> {n}
Completed(n, p) ==
    LET q == Head(n.asked)
        done == [n EXCEPT !.asked = Tail(@)]
    IN IF n.asked = <<>> \/ q.pipe # p.pipe THEN n
       ELSE IF p.inst # "OK" THEN done
       ELSE CASE q.inst = "CREATED" -> Connect(done, q.new, q.gate, q.dgate)
              [] q.inst \in {"OPEN", "CLOSE"} /\ q.pipe = NFA_HCI_ADMIN_PIPE -> [done EXCEPT !.admin = q.inst = "OPEN"]
              [] q.inst = "OPEN" /\ q.pipe \in n.used -> [done EXCEPT !.open = @ \cup {q.pipe}]
              [] q.inst = "CLOSE" /\ q.pipe \in n.used -> [done EXCEPT !.open = @ \ {q.pipe}]
              [] OTHER -> done
HcReplies(n, p) ==
    CASE p.type = "cmd" -> IF p.pipe = NFA_HCI_ADMIN_PIPE THEN {HcAdmin(n, p)} ELSE HostAnswers(n, p)
      [] p.type = "evt" -> HostEvents(n, p)
      [] p.type = "rsp" -> {Completed(n, p)}

(* An initiative of the other hosts, as a packet; what it changes there is *)
(* changed when it is sent, or when the device host has agreed.            *)
Ask(n, p) == [n EXCEPT !.in = Append(@, p), !.asked = Append(@, p)]
Tell(n, p) == [n EXCEPT !.in = Append(@, p)]
Initiate(n, i) ==
    LET admin(inst) == [Pkt(NFA_HCI_ADMIN_PIPE, "cmd", inst) EXCEPT !.gate = i.gate, !.dgate = i.dgate]
        cmd == Pkt(i.pipe, "cmd", i.inst)
        pid == NewPipe(n, i.gate)
    IN CASE i.op = "create" -> IF pid = 0 THEN n ELSE Ask(n, [admin("CREATED") EXCEPT !.new = pid])
         [] i.op = "delete" ->
              IF i.pipe \notin n.used THEN n
              ELSE Ask(Disconnect(n, {i.pipe}), [admin("DELETED") EXCEPT !.new = i.pipe])
         [] i.op = "clear" -> Ask(Disconnect(n, n.used), admin("CLEARED"))
         [] i.op = "clear_hc" ->
              Tell([Disconnect(n, n.used) EXCEPT !.admin = FALSE, !.session = DefaultSession], admin("CLEARED_HC"))
         [] i.op = "close_admin" -> Ask(n, admin("CLOSE"))
         [] i.op = "cmd" ->
              IF i.pipe \notin n.used THEN n
              ELSE IF i.inst \in {"OPEN", "CLOSE"} THEN Ask(n, cmd) ELSE Tell(n, cmd)
         [] i.op = "event" -> IF i.pipe \notin n.open THEN n ELSE Tell(n, Pkt(i.pipe, "evt", i.inst))
         [] i.op = "link" -> Ask(n, Pkt(NFA_HCI_LINK_MANAGEMENT_PIPE, "cmd", i.inst))
         [] i.op = "hot_plug" ->
              Tell([n EXCEPT !.listed = ~@], Pkt(NFA_HCI_ADMIN_PIPE, "evt", "HOT_PLUG"))

-----------------------------------------------------------------------------
(* Actions.                                                                *)

X == [h |-> h, net |-> net, app |-> app]
Becomes(x) == h' = x.h /\ net' = x.net /\ app' = x.app /\ UNCHANGED env
InFlight == net.in # <<>> \/ net.out # <<>> \/ net.raw \/ net.mode

(* An application calls (nfa_hci_api.cc): the call goes to the mailbox.    *)
(* A creation for a host that is not there is refused.                     *)
ApiCall ==
    LET n == app.made + 1
        c == env.calls[n]
        refused == c.op = "CREATE" /\ env.host \in h.inactive_host
    IN /\ app.made < Len(env.calls) /\ h.hci_state # "DISABLED" /\ (env.eager \/ app.started)
       /\ app' = [app EXCEPT !.made = n, !.asked = IF refused \/ c.op \notin DOMAIN Answers THEN @ ELSE @ \cup {n}]
       /\ h' = IF refused THEN h ELSE [h EXCEPT !.mbox = Append(@, [Msg("api") EXCEPT !.call = c])]
       /\ UNCHANGED <<env, net>>
HandleMessage ==
    /\ h.mbox # <<>>
    /\ Becomes(EvtHdlr([X EXCEPT !.h.mbox = Tail(@)], Head(h.mbox)))
(* A packet reaches the device host; the timers do not run out before the  *)
(* mailbox is empty.                                                       *)
DhReceives ==
    /\ net.in # <<>> /\ h.conn_id
    /\ Becomes(Receive([X EXCEPT !.net.in = Tail(@)], Head(net.in)))

(* The NFCEEs are discovered, some time after flash is read.               *)
EeDiscovered == h.nv_read_cmplt /\ ~h.ee_disc_cmplt /\ h.hci_state = "STARTUP" /\ Becomes(ConnCreate(X))
(* The answer to an NFCEE_MODE_SET command: the NFCEE is active.           *)
ModeSetDone ==
    /\ net.mode
    /\ LET x == [X EXCEPT !.net.mode = FALSE, !.net.enabled = TRUE]
       IN CASE h.hci_state = "WAIT_NETWK_ENABLE" -> Becomes(EnableOneNfcee(x))
            [] h.hci_state = "NFCEE_ENABLE" /\ h.config_nfcee_state = "INIT" -> Becomes(ConfigNfcee(x))
            [] OTHER -> Becomes(x)
(* The answer to CORE_GET_CONFIG for the session identity of the NFCEE; an *)
(* NFCEE with more polls than are retried reports the default for ever.    *)
RawRsp ==
    /\ net.raw
    /\ \E session \in {IF net.polls > 0 THEN "default" ELSE "session"} \cup {"error" : n \in 1..net.refusals} :
         Becomes(PollSessionIdCb([X EXCEPT !.net.raw = FALSE,
                                           !.net.polls =
                                               IF session = "default" /\ @ <= NFA_HCI_MAX_SESSION_ID_RETRY_CNT
                                               THEN @ - 1 ELSE @,
                                           !.net.refusals = IF session = "error" THEN @ - 1 ELSE @], session))

(* The timer of a request is set to a multiple of what an answer takes,    *)
(* unless the environment is late.                                         *)
Expire(m) == Post(StopTimer(X), Msg(m))
PollTimerExpires == h.timer = "poll" /\ Becomes(Expire("poll"))
RspTimerExpires ==
    /\ h.timer = "rsp" /\ ~InFlight /\ h.mbox = <<>> /\ (h.hci_state = "STARTUP" => h.ee_disc_cmplt)
    /\ Becomes(Expire("timeout"))
RspTimerExpiresEarly ==
    /\ h.timer = "rsp" /\ InFlight /\ env.late /\ ~app.late
    /\ Becomes([Expire("timeout") EXCEPT !.app.late = TRUE])

HcAnswers ==
    /\ net.out # <<>>
    /\ \E n \in HcReplies([net EXCEPT !.out = Tail(@)], Head(net.out)) : Becomes([X EXCEPT !.net = n])
HcRefuses ==
    /\ net.out # <<>> /\ net.refusals > 0
    /\ Head(net.out).type = "cmd" /\ Head(net.out).inst \notin {"GET", "OPEN"}
    /\ Becomes([X EXCEPT !.net = Reply([@ EXCEPT !.out = Tail(@), !.refusals = @ - 1], Head(net.out), "E_NOK")])
(* A packet is lost on its way, or not answered.                           *)
HcLoses ==
    /\ net.losses > 0
    /\ \/ net.out # <<>> /\ Becomes([X EXCEPT !.net.out = Tail(@), !.net.losses = @ - 1])
       \/ net.in # <<>> /\ Becomes([X EXCEPT !.net.in = Tail(@), !.net.losses = @ - 1])
HostInitiative ==
    /\ net.hosts # <<>> /\ net.enabled /\ net.asked = <<>>
    /\ Becomes([X EXCEPT !.net = Initiate([@ EXCEPT !.hosts = Tail(@)], Head(net.hosts))])

(* Power is cut and comes back: flash and the network keep what they know, *)
(* though the admin pipe may have been closed.                             *)
Restart ==
    /\ net.restarts > 0
    /\ \E admin \in {FALSE, net.admin} :
         net' = [net EXCEPT !.restarts = @ - 1, !.admin = admin, !.enabled = FALSE, !.raw = FALSE, !.mode = FALSE,
                            !.asked = <<>>, !.out = <<>>, !.in = <<>>]
    /\ h' = InitHci(h.nv)
    /\ app' = [app EXCEPT !.asked = {}, !.started = FALSE,
                          !.lost = @ \/ h.nv # <<h.cfg>> \/ ~IsValidCfg(h.cfg.t) \/ InFlight \/ Waiting(X)]
    /\ UNCHANGED env

Next ==
    \/ ApiCall \/ HandleMessage \/ DhReceives \/ EeDiscovered \/ ModeSetDone \/ RawRsp
    \/ PollTimerExpires \/ RspTimerExpires \/ RspTimerExpiresEarly
    \/ HcAnswers \/ HcRefuses \/ HcLoses \/ HostInitiative \/ Restart

Spec == Init /\ [][Next]_vars

(* Messages are handled, timers run out, and the hosts and the NFCC        *)
(* answer what reaches them: weak fairness, which spells the condition out  *)
(* under which a handler that is costly to evaluate is enabled.            *)
EeDue == h.nv_read_cmplt /\ ~h.ee_disc_cmplt /\ h.hci_state = "STARTUP"
RspTimerDue == h.timer = "rsp" /\ ~InFlight /\ h.mbox = <<>> /\ (h.hci_state = "STARTUP" => h.ee_disc_cmplt)
FairSpec ==
    /\ Spec
    /\ []<>~(h.mbox # <<>>) \/ []<><<HandleMessage>>_vars
    /\ []<>~(net.in # <<>> /\ h.conn_id) \/ []<><<DhReceives>>_vars
    /\ []<>~EeDue \/ []<><<EeDiscovered>>_vars
    /\ WF_vars(ModeSetDone) /\ WF_vars(RawRsp)
    /\ []<>~(h.timer = "poll") \/ []<><<PollTimerExpires>>_vars
    /\ []<>~RspTimerDue \/ []<><<RspTimerExpires>>_vars
    /\ []<>~(net.out # <<>>) \/ []<><<HcAnswers>>_vars

-----------------------------------------------------------------------------
(* Properties.                                                             *)

(* The two tables point at each other: the numbers of the pipes differ, a  *)
(* pipe is in the mask of the gate it names and in no other, and no mask   *)
(* has an entry that is no pipe.  The pipes of the loopback gate and the   *)
(* APDU pipe made by the configuration are in no mask.                     *)
GatesAndPipes ==
    LET t == h.cfg.t
        inuse == {s \in PipeSlot : t.pipes[s].id # 0}
    IN /\ \A s1, s2 \in inuse : s1 # s2 => t.pipes[s1].id # t.pipes[s2].id
       /\ \A g \in GateSlot : \A s \in t.gates[g].mask : s \in inuse /\ t.pipes[s].gate = t.gates[g].id
       /\ \A s \in t.id_mask : s \in inuse /\ t.pipes[s].gate = Identity
       /\ \A s \in inuse : t.pipes[s].gate \notin {Loopback, APDU} =>
             (\/ s \in t.id_mask
              \/ \E g \in GateSlot : s \in t.gates[g].mask)

(* The device host's own commands are one at a time: one is not sent while *)
(* the answer to another is due, unless a timeout came early, a packet was *)
(* lost, or the host controller closed the admin pipe meanwhile.           *)
OneCommand ==
    LET cmds == SelectSeq(net.out, LAMBDA p : p.type = "cmd") \o SelectSeq(net.in, LAMBDA p : p.type = "rsp")
    IN (~app.late /\ ~app.overtaken) => Len(cmds) <= 1

(* Requests and commands stay within what the code knows, one at a time.   *)
OneAtATime == TypeOK /\ OneCommand

(* When nothing is under way the device host and the host controller agree *)
(* on the pipes between them and on which of them are open, after any      *)
(* sequence of requests, initiatives of the hosts and power cycles, unless *)
(* a packet was lost, a command refused or a response overtaken.  (The     *)
(* configuration opens the APDU pipe and then fails to allocate its gate   *)
(* when no application is registered: that pipe stays closed here.)        *)
Quiet == h.hci_state = "IDLE" /\ h.mbox = <<>> /\ ~InFlight /\ net.asked = <<>>
Undisturbed ==
    /\ ~app.late /\ ~app.overtaken /\ ~app.lost
    /\ net.losses = env.losses /\ net.refusals = env.refusals
KnownGate(gate) == gate # APDU /\ (gate \in {Identity, Loopback} \/ FindGate(h.cfg.t, gate) # 0)
DhPipes ==
    {[id |-> h.cfg.t.pipes[s].id, gate |-> h.cfg.t.pipes[s].gate,
      open |-> h.cfg.t.pipes[s].open /\ KnownGate(h.cfg.t.pipes[s].gate)] :
        s \in {s \in PipeSlot : Dynamic(h.cfg.t.pipes[s])}}
HcPipes ==
    {[id |-> p, gate |-> net.gate[p], open |-> p \in net.open /\ KnownGate(net.gate[p])] : p \in net.used}
TablesAgree == (Quiet /\ Undisturbed) => DhPipes = HcPipes

(* When nothing is under way flash has the tables, the session and the     *)
(* applications: a power cycle forgets nothing.  A host controller that    *)
(* knows no host types is excepted: there the start ends in a callback of  *)
(* the NFCC, which wakes nobody to write, or to serve what waits, before   *)
(* the next message; and so is the session set by a start that follows     *)
(* another power cycle, which nothing marks for flash.                     *)
Kept(cfg) == [gates |-> cfg.t.gates, names |-> cfg.names, pipes |-> [s \in PipeSlot |-> cfg.t.pipes[s].id]]
Asleep == ~h.version12 /\ Quiet
ConfigSaved ==
    (Quiet /\ ~app.lost /\ ~Asleep) =>
        /\ h.nv # <<>>
        /\ Kept(h.nv[1]) = Kept(h.cfg)
        /\ net.restarts = env.restarts => h.nv[1].session = h.cfg.session

(* Once the host is quiet, the network and flash know what it knows.       *)
RestingAgrees == TablesAgree /\ ConfigSaved

(* Every call of a registered application is answered by an event, as      *)
(* nfa_hci_api.cc promises ("or if an error occurs, the app will be        *)
(* notified"), whatever is lost or refused; but for a command of the       *)
(* application that nobody answers, for an answer that is overtaken, and   *)
(* for a request set aside because the host of its pipe has cleared its    *)
(* pipes: it waits until that host is plugged in again or the hosts are    *)
(* listed.  And nothing times the answer to reset of a secure element      *)
(* whose pipe the configuration has opened.                                *)
CallNumber == 1..6           \* no environment has more calls
Excused(n) ==
    \/ h.hci_state = "DISABLED" \/ env.calls[n].app \notin h.cback
    \/ env.calls[n].op = "CMD" /\ net.losses # env.losses
    \/ h.hci_host_reset_api_q # <<>>
    \/ h.hci_state = "NFCEE_ENABLE" /\ NFA_HCI_APDU_PIPE \in net.open /\ net.losses # env.losses
    \/ Asleep
Unanswered(n) == n \in app.asked /\ ~Excused(n)
CallsAnswered == \A n \in CallNumber : Unanswered(n) ~> (~Unanswered(n) \/ app.late \/ app.overtaken)

(* The same with no excuse for what other hosts do: no initiative of       *)
(* theirs makes the device host forget what it was asked.                  *)
AnsweredWhateverComes == \A n \in CallNumber : (n \in app.asked) ~> (n \notin app.asked)

(* The start of the network ends: the stack is told that HCI is ready, or  *)
(* the component is disabled.  (Any packet stops the timer of the first    *)
(* HOST_LIST command once the wait for the network is over: when a packet  *)
(* of a host comes and the answer is lost, the start never ends.)          *)
TimerStopped == env.hosts # <<>> /\ net.losses # env.losses
StartupEnds == <>(app.started \/ h.hci_state = "DISABLED" \/ net.restarts # env.restarts \/ TimerStopped)
=============================================================================
