------------------------------ MODULE NfcConn ------------------------------
(***************************************************************************)
(* The logical connections of NFC_TASK: the connection control blocks of   *)
(* nfc_utils.cc, the data path of nfc_ncif.cc (segmentation under the      *)
(* credits of the NFCC, reassembly, delivery) and the calls of nfc_main.cc *)
(* on them, with the activation, the deactivation and the creation of a    *)
(* connection.                                                             *)
(*                                                                         *)
(* Everything the host does runs on NFC_TASK, one call or one packet at a  *)
(* time: nfc is what nfc_cb says of the connections.  nfcc is the          *)
(* controller, modelled from the packets this code exchanges with it, and  *)
(* app is the layer above (NFA): what its callbacks told it and the calls  *)
(* it has left.  A handler maps the record x of the three to the next one. *)
(*                                                                         *)
(* Message lengths count units of the segment size; a message is its       *)
(* number and a fragment its place in the message.                         *)
(***************************************************************************)
EXTENDS Integers, Sequences, FiniteSets, SequencesExt

CONSTANTS
    SmallBuf, BigBuf,   \* fragments that fit a receive buffer, a buffer of the largest pool
    Environments        \* what may surround the stack: see Environment

NCI_MAX_CONN_CBS == 4
NFC_RF_CONN_ID == 0
NFC_HCI_CONN_ID == 3
NFC_MAX_CONN_ID == 4         \* scaled down; the code has 15
NFC_PEND_CONN_ID == 254
NFC_ILLEGAL_CONN_ID == 255
NFC_CONN_NO_FC == 255        \* as a number of credits: no flow control

Slot == 0..NCI_MAX_CONN_CBS - 1
ConnId == 0..NFC_MAX_CONN_ID - 1
Ee == 1..4                   \* NFCEEs

(* The API functions the layer above uses, with its call of nfc_gen_cleanup *)
(* through a power cycle.                                                   *)
Call == {"deactivate", "flush", "raw", "power_cycle"}

(* What surrounds the stack: whether NFC-DEP is the RF protocol, the       *)
(* number of connections, the segment size, the credits and how many of    *)
(* them the NFCC may give back at once, the lengths of the messages the    *)
(* host sends and of those the NFCC sends, by connection, the NFCEEs a     *)
(* connection is created to and how many creations may be under way, the   *)
(* calls made, the type of deactivation, and how many calls, activations,  *)
(* deactivations by the peer, refused creations and missing buffers there  *)
(* are at most (the bounds of the model).                                  *)
Environment ==
    [nfc_dep : BOOLEAN, max_conn : Nat, buff_size : Nat \ {0}, credits : Nat \ {0}, grant : Nat \ {0},
     send : [ConnId -> Seq(Nat)], up : [ConnId -> Seq(Nat \ {0})],
     ees : SUBSET Ee, creations : Nat, calls : SUBSET Call, type : {0, 3},
     max_calls : Nat, max_activations : Nat, max_remote : Nat, max_refused : Nat, max_faults : Nat]

ASSUME BufferAssumption == SmallBuf \in Nat \ {0} /\ BigBuf \in Nat /\ SmallBuf <= BigBuf
ASSUME EnvironmentAssumption == Environments \subseteq Environment

VARIABLES env, nfc, nfcc, app
vars == <<env, nfc, nfcc, app>>

-----------------------------------------------------------------------------
(* State.                                                                  *)

NfcState == {"IDLE", "OPEN", "CLOSING"}
Ras == {"WHOLE", "FRAGMENTED", "TOO_BIG"}       \* layer_specific of a received packet

ConnCb ==
    [conn_id : ConnId \cup {NFC_PEND_CONN_ID, NFC_ILLEGAL_CONN_ID}, cback : BOOLEAN, id : Nat,
     tx_q : Seq([n : Nat, off : Nat, len : Nat]),
     rx_q : Seq([frs : Seq([n : Nat, k : Nat]), ras : Ras, big : BOOLEAN]),
     num_buff : 0..255, init_credits : 0..255, buff_size : Nat]
NoConn ==
    [conn_id |-> NFC_ILLEGAL_CONN_ID, cback |-> FALSE, id |-> 0, tx_q |-> <<>>, rx_q |-> <<>>,
     num_buff |-> 0, init_credits |-> 0, buff_size |-> 0]

(* A command with its parameter: the NFCEE, the connection or the type of  *)
(* the deactivation.                                                       *)
TYPE_IDLE == 0
TYPE_DISCOVERY == 3
Cmd == [op : {"CREATE", "CLOSE", "DISCOVER", "DEACTIVATE"}, arg : Nat]

(* nfc_cb: the state, NFC_FL_DEACTIVATING, the deactivation timer and its  *)
(* parameter, the control blocks, the map from the NFCC's connection ids   *)
(* to them (0: none), the commands queued and the one outstanding.         *)
HostBlock ==
    [nfc_state : NfcState, deactivating : BOOLEAN, deactivate_timer : BOOLEAN,
     param : {TYPE_IDLE, TYPE_DISCOVERY}, reassembly : BOOLEAN, conn_cb : [Slot -> ConnCb],
     conn_id : [ConnId -> 0..NCI_MAX_CONN_CBS],
     cmd_q : Seq(Cmd), last_cmd : Seq(Cmd)]

(* The NFCC: rf; by connection whether it is open and to which NFCEE, the  *)
(* credits it granted, the segments in its buffers, and, for the           *)
(* properties, every segment received and every message accepted on the    *)
(* connection since it was opened, and whether a message was cut by a      *)
(* flush; the number of messages and of fragments of the next one sent;    *)
(* to_host, the mailbox of NFC_TASK.                                       *)
NfccConn ==
    [open : BOOLEAN, id : Nat, credits : Nat, held : Nat, rcvd : Seq([n : Nat, off : Nat, len : Nat, last : BOOLEAN]),
     accepted : Seq([n : Nat, len : Nat]), cut : BOOLEAN, n : Nat, k : Nat]
ClosedConn == [open |-> FALSE, id |-> 0, credits |-> 0, held |-> 0, rcvd |-> <<>>, accepted |-> <<>>,
               cut |-> FALSE, n |-> 0, k |-> 0]
NfccBlock == [rf : {"IDLE", "DISCOVERY", "ACTIVE"}, conn : [ConnId -> NfccConn], cmds : Seq(Cmd)]

(* The layer above: active, the RF interface is activated as far as it     *)
(* knows, idle, the RF interface is idle, asked, it called NFC_Deactivate  *)
(* since; raw, it asked for fragments instead of messages; conns, the connection of each NFCEE (0:  *)
(* none) and those it is creating or closing; got, what each connection    *)
(* delivered since it was opened; then counters.                           *)
AppBlock ==
    [active : BOOLEAN, idle : BOOLEAN, asked : BOOLEAN, raw : BOOLEAN, conns : [env.ees -> ConnId],
     creating : SUBSET env.ees, closing : SUBSET env.ees,
     got : [ConnId -> Seq([frs : Seq([n : Nat, k : Nat]), whole : BOOLEAN])],
     sent : [ConnId -> Nat], calls : Nat, activations : Nat, remote : Nat, refused : Nat,
     faults : Nat]

(* Every variable has its type; no field of a control block leaves its     *)
(* range, the number of buffers (a byte) included.                         *)
TypeOK ==
    /\ env \in Environments
    /\ nfc \in HostBlock
    /\ [f \in DOMAIN nfcc \ {"to_host"} |-> nfcc[f]] \in NfccBlock
    /\ app \in AppBlock
    /\ \A s \in Slot : nfc.conn_cb[s].num_buff <= nfc.conn_cb[s].init_credits

(* NFC_Init and nfc_enabled: the static connections exist; that of the HCI *)
(* network has its buffers.                                                *)
StaticConns ==
    [s \in Slot |->
        CASE s = NFC_RF_CONN_ID -> [NoConn EXCEPT !.conn_id = NFC_RF_CONN_ID]
          [] s = NFC_HCI_CONN_ID ->
                [NoConn EXCEPT !.conn_id = NFC_HCI_CONN_ID, !.id = NFC_HCI_CONN_ID,
                               !.num_buff = env.credits, !.init_credits = env.credits,
                               !.buff_size = env.buff_size]
          [] OTHER -> NoConn]
InitNfc ==
    [nfc_state |-> "IDLE", deactivating |-> FALSE, deactivate_timer |-> FALSE, param |-> env.type,
     reassembly |-> TRUE, conn_cb |-> StaticConns,
     conn_id |-> [c \in ConnId |-> CASE c = NFC_RF_CONN_ID -> 1 [] c = NFC_HCI_CONN_ID -> 4 [] OTHER -> 0],
     cmd_q |-> <<>>, last_cmd |-> <<>>]
InitNfcc ==
    [rf |-> "IDLE", to_host |-> <<>>, cmds |-> <<>>,
     conn |-> [c \in ConnId |-> IF c = NFC_HCI_CONN_ID
                                THEN [ClosedConn EXCEPT !.open = TRUE, !.credits = env.credits]
                                ELSE ClosedConn]]
InitApp ==
    [active |-> FALSE, idle |-> TRUE, asked |-> FALSE, raw |-> FALSE, conns |-> [e \in env.ees |-> 0],
     creating |-> {}, closing |-> {},
     got |-> [c \in ConnId |-> <<>>], sent |-> [c \in ConnId |-> 0],
     calls |-> 0, activations |-> 0, remote |-> 0, refused |-> 0, faults |-> 0]

Init ==
    /\ env \in Environments
    /\ nfc = InitNfc /\ nfcc = InitNfcc /\ app = InitApp

-----------------------------------------------------------------------------
(* nfc_utils.cc: the control blocks.                                       *)

Handle(x, c) == IF c \in ConnId THEN x.nfc.conn_id[c] ELSE 0
IsConn(x, c) == Handle(x, c) > 0
ConnSlot(x, c) == Handle(x, c) - 1                 \* nfc_find_conn_cb_by_conn_id
InState(x, conn_id) == {s \in Slot : x.nfc.conn_cb[s].conn_id = conn_id}
First(S) == CHOOSE s \in S : \A t \in S : s <= t

FreeConnCb(x, s) ==
    LET c == x.nfc.conn_cb[s].conn_id IN
    [x EXCEPT !.nfc.conn_cb[s] = [@ EXCEPT !.rx_q = <<>>, !.tx_q = <<>>, !.cback = FALSE,
                                           !.conn_id = NFC_ILLEGAL_CONN_ID],
              !.nfc.conn_id = [d \in ConnId |-> IF d = c THEN 0 ELSE @[d]]]

SetConnId(x, s, c) ==
    [x EXCEPT !.nfc.conn_cb[s].conn_id = c, !.nfc.conn_id[c] = s + 1]

-----------------------------------------------------------------------------
(* Commands, one outstanding at a time (see NfcNcif).                      *)

WriteCmd(x) ==
    IF x.nfc.last_cmd # <<>> \/ x.nfc.cmd_q = <<>> THEN x
    ELSE [x EXCEPT !.nfc.last_cmd = <<Head(x.nfc.cmd_q)>>, !.nfc.cmd_q = Tail(@),
                   !.nfcc.cmds = Append(@, Head(x.nfc.cmd_q))]
SendCmd(x, op, arg) == WriteCmd([x EXCEPT !.nfc.cmd_q = Append(@, [op |-> op, arg |-> arg])])

SndDeactivateCmd(x, type) ==
    SendCmd([x EXCEPT !.nfc.reassembly = TRUE, !.app.raw = FALSE], "DEACTIVATE", type)

-----------------------------------------------------------------------------
(* nfc_ncif_send_data.                                                     *)

(* A segment written to a connection the NFCC has closed is discarded.     *)
HalWrite(x, c, seg) ==
    IF ~x.nfcc.conn[c].open THEN x
    ELSE [x EXCEPT !.nfcc.conn[c].held = @ + 1, !.nfcc.conn[c].rcvd = Append(@, seg)]

Segment(m, len, pbf) == [n |-> m.n, off |-> m.off, len |-> len, last |-> ~pbf]

(* Segments of the head of tx_q are sent while there are credits.  The     *)
(* last one goes in the buffer of the message; for the others bufs buffers *)
(* are left.  pbf, "more to come", is set when the call begins; the first  *)
(* message that ends in the call clears it for every segment after that.   *)
RECURSIVE Transmit(_, _, _, _)
Transmit(x, s, bufs, pbf) ==
    LET cb == x.nfc.conn_cb[s]  m == Head(cb.tx_q)
        paid == [x EXCEPT !.nfc.conn_cb[s].num_buff = IF @ = NFC_CONN_NO_FC THEN @ ELSE @ - 1] IN
    CASE cb.tx_q = <<>> \/ cb.num_buff = 0 -> [x |-> x, ok |-> TRUE]
      [] OTHER ->
         IF m.len <= cb.buff_size
         THEN Transmit(HalWrite([paid EXCEPT !.nfc.conn_cb[s].tx_q = Tail(@)],
                                cb.conn_id, Segment(m, m.len, FALSE)), s, bufs, FALSE)
         ELSE IF bufs = 0 THEN [x |-> x, ok |-> FALSE]
         ELSE Transmit(HalWrite([paid EXCEPT !.nfc.conn_cb[s].tx_q =
                                    <<[m EXCEPT !.len = @ - cb.buff_size, !.off = @ + cb.buff_size]>> \o Tail(@)],
                                cb.conn_id, Segment(m, cb.buff_size, pbf)), s, bufs - 1, pbf)

(* All credits are back: the deactivation that waited for them is sent.    *)
AllCreditsBack(x, s) ==
    [x EXCEPT !.nfc.deactivating = FALSE, !.nfc.deactivate_timer = FALSE]

(* Faulty variant: any credit will do.                                     *)
DeactivationDue_Early(x, s) == x.nfc.nfc_state = "CLOSING" /\ x.nfc.deactivating

DeactivationDue(x, s) ==
    /\ x.nfc.nfc_state = "CLOSING" /\ x.nfc.deactivating
    /\ x.nfc.conn_cb[s].init_credits = x.nfc.conn_cb[s].num_buff

(* nfc_ncif_send_data with data, or with none after a credit.  What is     *)
(* accepted on the connection is recorded for the properties.              *)
SendData(x, s, data, bufs) ==
    LET cb == x.nfc.conn_cb[s] IN
    IF cb.id = NFC_RF_CONN_ID /\ x.nfc.nfc_state # "OPEN"
    THEN [ok |-> FALSE,
          x |-> IF data = <<>> /\ DeactivationDue(x, s)
                THEN SndDeactivateCmd(AllCreditsBack(x, s), x.nfc.param) ELSE x]
    ELSE Transmit([x EXCEPT !.nfc.conn_cb[s].tx_q = @ \o data,
                            !.nfcc.conn[cb.conn_id].accepted =
                                @ \o [i \in DOMAIN data |-> [n |-> data[i].n, len |-> data[i].len]]],
                  s, bufs, TRUE)

(* Faulty variant: credits only count, and the queue waits for the next    *)
(* message.                                                                *)
Credit_NoSend(x, c, num, bufs) ==
    IF ~IsConn(x, c) THEN x
    ELSE [x EXCEPT !.nfc.conn_cb[ConnSlot(x, c)].num_buff = (@ + num) % 256]

(* nfc_ncif_proc_credits: one entry after the other.                       *)
Credit(x, c, num, bufs) ==
    IF ~IsConn(x, c) \/ x.nfc.conn_cb[ConnSlot(x, c)].num_buff = NFC_CONN_NO_FC THEN x
    ELSE SendData([x EXCEPT !.nfc.conn_cb[ConnSlot(x, c)].num_buff = (@ + num) % 256],
                  ConnSlot(x, c), <<>>, bufs).x

RECURSIVE ProcCredits(_, _, _)
ProcCredits(x, entries, bufs) ==
    IF entries = <<>> THEN x
    ELSE LET e == Head(entries) IN
         ProcCredits(Credit(x, e.c, e.num, bufs), Tail(entries), bufs)

-----------------------------------------------------------------------------
(* nfc_ncif_proc_data and nfc_data_event.                                  *)

(* A message is delivered whole; a fragment only when there is no room for *)
(* more, or when the RF connection does not reassemble.                    *)
Held(x, s, p) ==
    p.ras = "FRAGMENTED" /\ (x.nfc.conn_cb[s].conn_id # NFC_RF_CONN_ID \/ x.nfc.reassembly)

RECURSIVE DataEvent(_, _)
DataEvent(x, s) ==
    LET cb == x.nfc.conn_cb[s]  p == Head(cb.rx_q)  whole == p.ras = "WHOLE" IN
    CASE ~cb.cback \/ cb.rx_q = <<>> -> x
      [] OTHER ->
         IF Held(x, s, p) THEN x
         ELSE DataEvent([x EXCEPT !.nfc.conn_cb[s].rx_q = Tail(@),
                                  !.nfc.reassembly = @ \/ whole,
                                  !.app.raw = @ /\ ~whole,
                                  !.app.got[cb.conn_id] = Append(@, [frs |-> p.frs, whole |-> whole])], s)

SetLast(x, s, p) == [x EXCEPT !.nfc.conn_cb[s].rx_q = Front(@) \o <<p>>]
Enqueue(x, s, p) == [x EXCEPT !.nfc.conn_cb[s].rx_q = Append(@, p)]

(* Faulty variant: the message is moved without what it held.              *)
Room_Empty(p, max) ==
    CASE Len(p.frs) < (IF p.big THEN BigBuf ELSE SmallBuf) -> p
      [] ~p.big /\ max -> [p EXCEPT !.big = TRUE, !.frs = <<>>]
      [] OTHER -> [p EXCEPT !.ras = "TOO_BIG"]

(* Where the fragment goes: into the buffer of the message it belongs to,  *)
(* moved to the largest pool if it is full (max: a buffer of that pool is  *)
(* available).                                                             *)
Room(p, max) ==
    CASE Len(p.frs) < (IF p.big THEN BigBuf ELSE SmallBuf) -> p
      [] ~p.big /\ max -> [p EXCEPT !.big = TRUE]
      [] OTHER -> [p EXCEPT !.ras = "TOO_BIG"]

ProcData(x0, c, fr, pbf, max) ==
    LET s == ConnSlot(x0, c)
        x == [x0 EXCEPT !.nfc.reassembly = @ \/ pbf]
        new == [frs |-> <<fr>>, ras |-> IF pbf THEN "FRAGMENTED" ELSE "WHOLE", big |-> FALSE]
        q == x.nfc.conn_cb[s].rx_q
        p == Room(Last(q), max) IN
    CASE ~IsConn(x0, c) -> x0
      [] OTHER ->
         IF q = <<>> \/ (q # <<>> /\ Last(q).ras = "WHOLE") THEN DataEvent(Enqueue(x, s, new), s)
         ELSE IF p.ras = "TOO_BIG" THEN Enqueue(DataEvent(SetLast(x, s, p), s), s, new)
         ELSE DataEvent(SetLast(x, s, [p EXCEPT !.frs = Append(@, fr), !.ras = new.ras]), s)

-----------------------------------------------------------------------------
(* Activation, deactivation, creation and closing of a connection.         *)

ProcActivate(x, credits) ==
    [x EXCEPT !.nfc.nfc_state = "OPEN",
              !.nfc.conn_cb[0] = [@ EXCEPT !.buff_size = env.buff_size, !.num_buff = credits,
                                           !.init_credits = credits],
              !.app.active = TRUE, !.app.idle = FALSE, !.app.got[NFC_RF_CONN_ID] = <<>>]

(* The response to RF_DEACTIVATE_CMD and the notification are handled      *)
(* alike; the layer above takes its callback back when it is told that the *)
(* RF interface is gone.                                                   *)
ProcDeactivate(x, type, is_ntf) ==
    [x EXCEPT !.nfc.nfc_state = "IDLE",
              !.nfc.conn_cb[0] = [@ EXCEPT !.rx_q = <<>>, !.tx_q = <<>>, !.cback = @ /\ ~is_ntf],
              !.app.active = @ /\ ~is_ntf, !.app.asked = @ /\ ~is_ntf,
              !.app.idle = @ \/ type = TYPE_IDLE]

(* The response goes to the first connection that waits for one.           *)
ProcConnCreateRsp(x, ok, c) ==
    LET pend == InState(x, NFC_PEND_CONN_ID)  s == First(pend)
        cb == x.nfc.conn_cb[s]
        told == [x EXCEPT !.app.creating = @ \ {cb.id}] IN
    CASE pend = {} -> x
      [] pend # {} /\ ok ->
            SetConnId([told EXCEPT !.nfc.conn_cb[s] = [@ EXCEPT !.buff_size = env.buff_size,
                                                                !.num_buff = env.credits,
                                                                !.init_credits = env.credits],
                                   !.app.conns[cb.id] = c, !.app.got[c] = <<>>], s, c)
      [] OTHER -> FreeConnCb(told, s)

ReportConnCloseEvt(x, c) ==
    LET s == ConnSlot(x, c)  e == x.nfc.conn_cb[s].id IN
    IF ~IsConn(x, c) THEN x
    ELSE FreeConnCb([x EXCEPT !.app.conns[e] = 0, !.app.closing = @ \ {e}], s)

-----------------------------------------------------------------------------
(* The mailbox: nfc_ncif_process_event.  ch is what the environment chose: *)
(* bufs, the buffers left for segments; max, whether one of the largest    *)
(* pool is available.                                                      *)

ProcRsp(x, p) ==
    LET cmd == p.cmd IN
    CASE cmd.op = "CREATE" -> ProcConnCreateRsp(x, p.ok, p.c)
      [] cmd.op = "CLOSE" -> ReportConnCloseEvt(x, cmd.arg)
      [] cmd.op = "DEACTIVATE" -> ProcDeactivate(x, cmd.arg, FALSE)
      [] OTHER -> x

ProcessEvent(x, p, ch) ==
    CASE p.mt = "DATA" -> ProcData(x, p.c, p.fr, p.pbf, ch.max)
      [] p.mt = "CREDITS" -> ProcCredits(x, p.entries, ch.bufs)
      [] p.mt = "ACTIVATED" -> ProcActivate(x, p.credits)
      [] p.mt = "DEACTIVATED" -> ProcDeactivate(x, p.type, TRUE)
      [] p.mt = "RSP" -> WriteCmd([ProcRsp(x, p) EXCEPT !.nfc.last_cmd = <<>>])

X == [nfc |-> nfc, nfcc |-> nfcc, app |-> app]
Becomes(x) == nfc' = x.nfc /\ nfcc' = x.nfcc /\ app' = x.app /\ env' = env

Plenty == 9
Choice == [bufs : {Plenty}, max : {TRUE}]
          \cup IF app.faults < env.max_faults THEN [bufs : {0, 1, Plenty}, max : BOOLEAN] ELSE {}
Faulted(x, ch) == IF ch.bufs < Plenty \/ ~ch.max THEN [x EXCEPT !.app.faults = @ + 1] ELSE x

Receive ==
    /\ nfcc.to_host # <<>>
    /\ \E ch \in Choice :
         Becomes(Faulted(ProcessEvent([X EXCEPT !.nfcc.to_host = Tail(@)], Head(nfcc.to_host), ch), ch))

(* nfc_wait_2_deactivate_timeout *)
DeactivateTimeout ==
    /\ nfc.deactivate_timer
    /\ Becomes(SndDeactivateCmd([X EXCEPT !.nfc.deactivating = FALSE, !.nfc.deactivate_timer = FALSE],
                                nfc.param))

-----------------------------------------------------------------------------
(* The calls of the layer above.                                           *)

Called(x) == [x EXCEPT !.app.calls = @ + 1]
MayCall(call) == call \in env.calls /\ app.calls < env.max_calls

(* The connections the layer above knows: the RF connection while it is    *)
(* active, that of the HCI network once it took it, those it created.      *)
Known(c) ==
    \/ c = NFC_RF_CONN_ID /\ app.active
    \/ c = NFC_HCI_CONN_ID /\ nfc.conn_cb[NFC_HCI_CONN_ID].cback
    \/ \E e \in env.ees \ app.closing : app.conns[e] = c /\ c # 0

(* NFC_SendData.  raw: by nfa_dm_act_send_raw_frame, on the RF connection, *)
(* which asks for fragments.                                               *)
Send(c, raw) ==
    /\ Known(c) /\ app.sent[c] < Len(env.send[c])
    /\ raw => MayCall("raw") /\ c = NFC_RF_CONN_ID
    /\ \E ch \in Choice :
         LET n == app.sent[c] + 1
             msg == [n |-> n, off |-> 0, len |-> env.send[c][n]]
             x == [X EXCEPT !.app.sent[c] = n, !.app.raw = @ \/ raw,
                            !.nfc.reassembly = @ /\ ~raw]
             y == SendData(x, ConnSlot(x, c), <<msg>>, ch.bufs)
         IN /\ ch.max
            /\ Becomes(Faulted(IF raw /\ ~y.ok
                               THEN [y.x EXCEPT !.nfc.reassembly = TRUE, !.app.raw = FALSE] ELSE y.x, ch))

(* NFC_FlushData.  For the properties: what is queued is no longer         *)
(* accepted, and of a message under way only what was sent.                *)
FlushData(c) ==
    /\ MayCall("flush") /\ Known(c)
    /\ LET s == ConnSlot(X, c)  q == nfc.conn_cb[s].tx_q
           left(m) == LET in == {i \in DOMAIN q : q[i].n = m.n} IN
                      IF in = {} THEN m ELSE [m EXCEPT !.len = q[First(in)].off]
           acc == nfcc.conn[c].accepted
           kept == SelectSeq([i \in DOMAIN acc |-> left(acc[i])],
                             LAMBDA m : m.len > 0 \/ \A i \in DOMAIN q : q[i].n # m.n) IN
       /\ q # <<>>
       /\ Becomes(Called([X EXCEPT !.nfc.conn_cb[s].tx_q = <<>>, !.nfcc.conn[c].accepted = kept,
                                   !.nfcc.conn[c].cut = @ \/ Head(q).off > 0]))

(* NFC_ConnCreate to an NFCEE, NFC_ConnClose.                              *)
ConnCreate(e) ==
    LET free == {s \in InState(X, NFC_ILLEGAL_CONN_ID) : s < env.max_conn}  s == First(free) IN
    /\ app.conns[e] = 0 /\ e \notin app.creating /\ Cardinality(app.creating) < env.creations
    /\ free # {}
    /\ app.calls < env.max_calls
    /\ Becomes(Called(SendCmd([X EXCEPT !.nfc.conn_cb[s] = [@ EXCEPT !.conn_id = NFC_PEND_CONN_ID,
                                                                     !.id = e, !.cback = TRUE],
                                        !.app.creating = @ \cup {e}], "CREATE", e)))

ConnClose(e) ==
    /\ app.conns[e] # 0 /\ e \notin app.closing
    /\ app.calls < env.max_calls
    /\ Becomes(Called(SendCmd([X EXCEPT !.app.closing = @ \cup {e}], "CLOSE", app.conns[e])))

(* NFC_Deactivate.  An NFC-DEP link first gets its data out: the command   *)
(* waits for the credits, for NFC_DEACTIVATE_TIMEOUT at most.              *)
Deactivate ==
    LET cb == nfc.conn_cb[NFC_RF_CONN_ID]
        x == Called([X EXCEPT !.app.asked = TRUE]) IN
    /\ MayCall("deactivate") /\ app.active /\ ~app.asked
    /\ IF nfc.nfc_state = "OPEN" /\ env.nfc_dep /\ cb.init_credits # cb.num_buff
       THEN Becomes([x EXCEPT !.nfc.nfc_state = "CLOSING", !.nfc.deactivating = TRUE,
                              !.nfc.param = env.type, !.nfc.deactivate_timer = TRUE])
       ELSE Becomes(SndDeactivateCmd([x EXCEPT !.nfc.nfc_state = IF @ = "OPEN" THEN "CLOSING" ELSE @],
                                     env.type))

(* NFC_SetStaticRfCback, NFC_SetStaticHciCback: what came before is        *)
(* delivered at once on the RF connection.                                 *)
SetStaticRfCback ==
    /\ app.active /\ ~nfc.conn_cb[NFC_RF_CONN_ID].cback
    /\ Becomes(DataEvent([X EXCEPT !.nfc.conn_cb[NFC_RF_CONN_ID].cback = TRUE], NFC_RF_CONN_ID))

SetStaticHciCback ==
    /\ IsConn(X, NFC_HCI_CONN_ID) /\ ~nfc.conn_cb[NFC_HCI_CONN_ID].cback
    /\ env.send[NFC_HCI_CONN_ID] # <<>>
    /\ Becomes([X EXCEPT !.nfc.conn_cb[NFC_HCI_CONN_ID].cback = TRUE])

Discover ==
    /\ app.idle /\ ~app.active /\ app.activations < env.max_activations
    /\ Becomes(SendCmd([X EXCEPT !.app.idle = FALSE], "DISCOVER", 0))

(* nfc_task_shutdown_nfcc on the way to a power cycle: the mailbox is      *)
(* emptied, nfc_gen_cleanup forgets the timer and the commands and         *)
(* nfc_reset_all_conn_cbs tells every connection and frees it; the NFCC    *)
(* starts anew and nfc_enabled makes the static connections.               *)
GenCleanup(x) ==
    [x EXCEPT !.nfc.deactivating = FALSE, !.nfc.deactivate_timer = FALSE, !.nfc.cmd_q = <<>>,
              !.nfc.last_cmd = <<>>]
ResetAllConnCbs(x) ==
    LET y == FreeConnCb(FreeConnCb(FreeConnCb(FreeConnCb(x, 0), 1), 2), 3) IN
    [y EXCEPT !.app = [@ EXCEPT !.active = FALSE, !.idle = TRUE, !.asked = FALSE, !.raw = FALSE,
                                !.conns = InitApp.conns, !.creating = {}, !.closing = {},
                                !.got = InitApp.got]]
Enabled(x) ==
    LET y == SetConnId(SetConnId(x, NFC_RF_CONN_ID, NFC_RF_CONN_ID), NFC_HCI_CONN_ID, NFC_HCI_CONN_ID) IN
    [y EXCEPT !.nfc.nfc_state = "IDLE",
              !.nfc.conn_cb[NFC_RF_CONN_ID] = [@ EXCEPT !.num_buff = 0, !.init_credits = 0],
              !.nfc.conn_cb[NFC_HCI_CONN_ID] =
                  [@ EXCEPT !.id = NFC_HCI_CONN_ID, !.buff_size = env.buff_size,
                            !.num_buff = env.credits, !.init_credits = env.credits]]

Closed(conn) == [ClosedConn EXCEPT !.n = conn.n + (IF conn.k > 0 THEN 1 ELSE 0)]
Opened(conn, id) == [Closed(conn) EXCEPT !.open = TRUE, !.id = id, !.credits = env.credits]

PowerCycle ==
    /\ MayCall("power_cycle")
    /\ LET x == Enabled(ResetAllConnCbs(GenCleanup(X))) IN
       Becomes(Called([x EXCEPT !.nfcc = [InitNfcc EXCEPT !.conn =
                  [c \in ConnId |-> IF c = NFC_HCI_CONN_ID THEN Opened(nfcc.conn[c], 0)
                                    ELSE Closed(nfcc.conn[c])]]]))

-----------------------------------------------------------------------------
(* The NFCC.                                                               *)

ToHost(y, p) == [y EXCEPT !.to_host = Append(@, p)]
Nfcc(y) == nfcc' = y /\ UNCHANGED <<env, nfc, app>>

(* Segments go on to their destination and their buffers are free again:   *)
(* one entry for each connection, with one credit or, if the environment   *)
(* has it, several.                                                        *)
Forward(C) ==
    /\ C # {} /\ \A c \in C : nfcc.conn[c].held > 0
    /\ \E num \in [C -> 1..env.grant] :
        /\ \A c \in C : num[c] <= nfcc.conn[c].held
        /\ Nfcc(ToHost([nfcc EXCEPT !.conn = [c \in ConnId |->
                            IF c \in C THEN [@[c] EXCEPT !.held = @ - num[c]] ELSE @[c]]],
                       [mt |-> "CREDITS",
                        entries |-> SetToSeq({[c |-> c, num |-> num[c]] : c \in C})]))

SendUp(c) ==
    LET conn == nfcc.conn[c]  n == conn.n + 1  k == conn.k + 1  pbf == k < env.up[c][n] IN
    /\ conn.open /\ n <= Len(env.up[c])
    /\ Nfcc(ToHost([nfcc EXCEPT !.conn[c] = [@ EXCEPT !.n = IF pbf THEN @ ELSE n,
                                                      !.k = IF pbf THEN k ELSE 0]],
                   [mt |-> "DATA", c |-> c, fr |-> [n |-> n, k |-> k], pbf |-> pbf]))

Rsp(cmd, ok, c) == [mt |-> "RSP", cmd |-> cmd, ok |-> ok, c |-> c]

AnswerCreate(y, cmd) ==
    LET free == {c \in ConnId : ~nfcc.conn[c].open /\ c # NFC_RF_CONN_ID /\ c # NFC_HCI_CONN_ID} IN
    \/ /\ free # {}
       /\ nfcc' = ToHost([y EXCEPT !.conn[First(free)] = Opened(@, cmd.arg)], Rsp(cmd, TRUE, First(free)))
       /\ UNCHANGED app
    \/ /\ app.refused < env.max_refused
       /\ nfcc' = ToHost(y, Rsp(cmd, FALSE, 0))
       /\ app' = [app EXCEPT !.refused = @ + 1]

AnswerCommand ==
    /\ nfcc.cmds # <<>>
    /\ UNCHANGED <<env, nfc>>
    /\ LET cmd == Head(nfcc.cmds)  y == [nfcc EXCEPT !.cmds = <<>>] IN
       CASE cmd.op = "CREATE" -> AnswerCreate(y, cmd)
         [] cmd.op = "CLOSE" ->
               /\ nfcc' = ToHost([y EXCEPT !.conn[cmd.arg] = Closed(@)], Rsp(cmd, TRUE, 0))
               /\ UNCHANGED app
         [] cmd.op = "DISCOVER" ->
               /\ nfcc' = ToHost([y EXCEPT !.rf = IF @ = "IDLE" THEN "DISCOVERY" ELSE @],
                                 Rsp(cmd, nfcc.rf = "IDLE", 0))
               /\ UNCHANGED app
         [] OTHER ->
               /\ nfcc' = IF nfcc.rf = "ACTIVE"
                          THEN ToHost(ToHost([y EXCEPT !.rf = IF cmd.arg = TYPE_IDLE THEN "IDLE" ELSE "DISCOVERY",
                                                    !.conn[NFC_RF_CONN_ID] = Closed(@)],
                                             Rsp(cmd, TRUE, 0)), [mt |-> "DEACTIVATED", type |-> cmd.arg])
                          ELSE ToHost([y EXCEPT !.rf = IF cmd.arg = TYPE_IDLE THEN "IDLE" ELSE @],
                                      Rsp(cmd, nfcc.rf = "DISCOVERY" /\ cmd.arg = TYPE_IDLE, 0))
               /\ UNCHANGED app

(* Polling takes longer than the host needs to read its mailbox: there is  *)
(* no activation before it knows that the last one ended.                  *)
Activate ==
    /\ nfcc.rf = "DISCOVERY" /\ app.activations < env.max_activations
    /\ \A i \in DOMAIN nfcc.to_host : nfcc.to_host[i].mt # "DEACTIVATED"
    /\ nfcc' = ToHost([nfcc EXCEPT !.rf = "ACTIVE", !.conn[NFC_RF_CONN_ID] = Opened(@, 0)],
                      [mt |-> "ACTIVATED", credits |-> env.credits])
    /\ app' = [app EXCEPT !.activations = @ + 1]
    /\ UNCHANGED <<env, nfc>>

(* The peer releases the link or leaves the field. *)
RemoteDeactivate ==
    /\ nfcc.rf = "ACTIVE" /\ app.remote < env.max_remote
    /\ nfcc' = ToHost([nfcc EXCEPT !.rf = "DISCOVERY", !.conn[NFC_RF_CONN_ID] = Closed(@)],
                      [mt |-> "DEACTIVATED", type |-> TYPE_DISCOVERY])
    /\ app' = [app EXCEPT !.remote = @ + 1]
    /\ UNCHANGED <<env, nfc>>

-----------------------------------------------------------------------------
Work == \/ Receive \/ DeactivateTimeout \/ AnswerCommand \/ SetStaticRfCback
        \/ \E C \in SUBSET ConnId : Forward(C)

Next ==
    \/ Work \/ Deactivate \/ SetStaticHciCback \/ Discover \/ PowerCycle
    \/ Activate \/ RemoteDeactivate
    \/ \E c \in ConnId : \E raw \in BOOLEAN : Send(c, raw)
    \/ \E c \in ConnId : FlushData(c) \/ SendUp(c)
    \/ \E e \in env.ees : ConnCreate(e) \/ ConnClose(e)

Spec == Init /\ [][Next]_vars

(* NFC_TASK reads its mailbox and its timers run out; the NFCC answers     *)
(* commands and forwards what it holds; the layer above takes an activated *)
(* connection.  (Each conjunct is WF_vars of the action, spelled out.)     *)
Fairness ==
    /\ []<>(nfcc.to_host = <<>>) \/ []<><<Receive>>_vars
    /\ []<>~nfc.deactivate_timer \/ []<><<DeactivateTimeout>>_vars
    /\ []<>(nfcc.cmds = <<>>) \/ []<><<AnswerCommand>>_vars
    /\ []<>(~app.active \/ nfc.conn_cb[NFC_RF_CONN_ID].cback) \/ []<><<SetStaticRfCback>>_vars
    /\ \A c \in ConnId : []<>(nfcc.conn[c].held = 0) \/ []<><<Forward({c})>>_vars
FairSpec == Spec /\ Fairness

-----------------------------------------------------------------------------
(* Properties.                                                             *)

(* Only the last segment of a message is marked as last.  (False of a long *)
(* message queued behind another when the NFCC gives back two credits at   *)
(* once, and after a missing buffer: nfc_ncif_send_data goes on with it in *)
(* the same call and never sets pbf again.)                                *)
EndsMessage(conn, g) ==
    g.off + g.len = conn.accepted[First({i \in DOMAIN conn.accepted : conn.accepted[i].n = g.n})].len
LastIsLast ==
    \A c \in ConnId : LET conn == nfcc.conn[c] IN
        conn.open /\ ~conn.cut =>
            \A i \in DOMAIN conn.rcvd : conn.rcvd[i].last => EndsMessage(conn, conn.rcvd[i])

(* Segmentation under credits: what the NFCC received on a connection are  *)
(* the messages accepted by NFC_SendData, in order, none twice, each cut   *)
(* into contiguous segments with the last marked as last (unless           *)
(* NFC_FlushData cut one), and never more than it has buffers for.  That   *)
(* holds whatever the credits, missing buffers and reopened connections;   *)
(* that no other segment is marked as last, when no buffer is missing and  *)
(* credits come back one at a time.                                        *)
SentIntact ==
    /\ env.grant = 1 /\ app.faults = 0 => LastIsLast
    /\ \A c \in ConnId :
      LET conn == nfcc.conn[c]  r == conn.rcvd
          starts == SelectSeq(r, LAMBDA g : g.off = 0) IN
      conn.open =>
        /\ conn.held <= conn.credits
        /\ IsPrefix([i \in DOMAIN starts |-> starts[i].n], [i \in DOMAIN conn.accepted |-> conn.accepted[i].n])
        /\ \A i \in DOMAIN r :
             /\ r[i].off > 0 => i > 1 /\ r[i - 1].n = r[i].n /\ r[i].off = r[i - 1].off + r[i - 1].len
             /\ r[i].off = 0 => i = 1 \/ r[i - 1].last \/ conn.cut
             /\ conn.cut \/ (EndsMessage(conn, r[i]) => r[i].last)

(* Reassembly: what a connection delivered, with what it holds, is what    *)
(* the NFCC sent, no fragment missing, repeated or out of place; a chunk   *)
(* is reported as complete exactly when its message ends; and nothing that *)
(* is complete is held back from a layer that has a callback.  (The end of *)
(* a message that no buffer can hold stays in the queue until the next     *)
(* packet; what came on the connection of the HCI network before its       *)
(* callback was set, too.)                                                 *)
Ends(c, fr) == fr.k = env.up[c][fr.n]
ReceivedIntact ==
    \A c \in {d \in ConnId : IsConn(X, d)} :
      LET cb == nfc.conn_cb[ConnSlot(X, c)]
          f == FlattenSeq([i \in DOMAIN app.got[c] |-> app.got[c][i].frs])
               \o FlattenSeq([i \in DOMAIN cb.rx_q |-> cb.rx_q[i].frs]) IN
      /\ \A i \in DOMAIN f : IF i = 1 THEN f[i].k = 1
                             ELSE f[i] = IF Ends(c, f[i - 1]) THEN [n |-> f[i - 1].n + 1, k |-> 1]
                                         ELSE [f[i - 1] EXCEPT !.k = @ + 1]
      /\ \A i \in DOMAIN app.got[c] : app.got[c][i].whole <=> Ends(c, Last(app.got[c][i].frs))
      /\ cb.cback => \A i \in DOMAIN cb.rx_q :
            Ends(c, Last(cb.rx_q[i].frs)) => \/ env.up[c][Last(cb.rx_q[i].frs).n] > BigBuf
                                             \/ c = NFC_HCI_CONN_ID /\ app.got[c] = <<>>
                                             \/ app.faults > 0

(* Data passes a connection whole, in either direction, and the control    *)
(* blocks that count its credits and segments stay well typed.             *)
MessagesIntact == TypeOK /\ SentIntact /\ ReceivedIntact

(* On an NFC-DEP link the deactivation goes out when the NFCC has no data  *)
(* of the host left, or when the time for that has run out.                *)
DataBeforeDeactivation ==
    [][LET deacts(n) == Len(SelectSeq(n.cmd_q \o n.last_cmd, LAMBDA m : m.op = "DEACTIVATE")) IN
       env.nfc_dep /\ deacts(nfc') > deacts(nfc) /\ ~DeactivateTimeout
         => nfcc.conn[NFC_RF_CONN_ID].held = 0]_vars

(* A deactivation that was asked for happens, whatever became of the       *)
(* credits; a connection created or closed is answered; and data accepted  *)
(* leaves the queue (unless a buffer was missing: nothing tries again).    *)
Served ==
    /\ app.asked ~> ~app.asked
    /\ \A e \in Ee : e \in app.creating \cup app.closing ~> e \notin app.creating \cup app.closing
    /\ \A s \in Slot : []<>(nfc.conn_cb[s].tx_q = <<>> \/ app.faults > 0)

(* A connection the layer above was given for an NFCEE is the one the NFCC *)
(* opened to that NFCEE.                                                   *)
ConnIsOwn ==
    \A e \in env.ees : LET c == app.conns[e] IN
        c # 0 /\ nfcc.conn[c].open => nfcc.conn[c].id = e

(* NFC_SetReassemblyFlag(false): fragments are forwarded and not held.     *)
FragmentsForwarded ==
    app.raw /\ nfc.conn_cb[NFC_RF_CONN_ID].cback => nfc.conn_cb[NFC_RF_CONN_ID].rx_q = <<>>
=============================================================================
