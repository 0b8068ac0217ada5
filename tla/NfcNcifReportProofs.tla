------------------------- MODULE NfcNcifReportProofs -------------------------
(***************************************************************************)
(* Proofs about what the NFC task reports to the application, for every     *)
(* command window, every outcome of the pools, every environment that is    *)
(* Timely and every number of commands, calls and faults.                   *)
(*                                                                          *)
(* The invariant is Course: at every moment the stack is in one of ten      *)
(* situations, each of which fixes nfc_state, the last request and report,  *)
(* the flags of a restart or power-off, the transport, and which messages   *)
(* can still come.  While the stack starts there is one thing that comes    *)
(* next, if anything does: the response to CORE_RESET, its notification,    *)
(* or the response to CORE_INIT, whether first sent or resent by a          *)
(* recovery; a CORE_INIT that is refused ends the start or begins it again. *)
(* So no message of an earlier start is left when the stack is idle, and    *)
(* none of them can make it report again.                                   *)
(*                                                                          *)
(* The second part is about the call-backs of vendor commands, with a       *)
(* window of one command and as long as nothing has to be resent.  Its      *)
(* invariant, Matched, stands on the owner of the command channel           *)
(* (NfcNcifProofs): the command outstanding, or its answer in the mailbox,  *)
(* belongs to the call-back that is set, and the flag of a raw vendor       *)
(* command is set only while its answer can come.                           *)
(***************************************************************************)
EXTENDS NfcNcifProofs

(* The flags that say why the stack starts or stops. *)
Reasons == {"RESTARTING", "POWER_CYCLE_NFCC", "POWER_OFF_SLEEP"}
Going(x) == x.nfc.flags \cap Reasons
(* The commands of a start. *)
Core == {"CORE_RESET", "CORE_INIT"}

-----------------------------------------------------------------------------
(* The situations of the stack.                                            *)

(* A start or a restart is under way. *)
Asking(x) ==
    /\ x.nfc.p_resp_cback /\ x.nfc.report = "none"
    /\ \/ x.nfc.asked = "ENABLE" /\ Going(x) = {}
       \/ x.nfc.asked = "RESTART" /\ Going(x) = {"POWER_CYCLE_NFCC"}
       \/ x.nfc.asked = "RESTART" /\ Going(x) = {"RESTARTING"} /\ "sleep" \in env.calls

(* No command waits, discovery is off, and the HAL was promised nothing;   *)
(* the transport brings nothing.                                           *)
Bare(x) == x.nfc.nci_cmd_xmit_q = <<>> /\ ~x.nfc.disc_on /\ "CONTROL_REQUESTED" \notin x.nfc.flags
Silent(h) == h.pending = <<>> /\ h.recovered = <<>> /\ ~h.ntf
Rested(x) ==
    /\ Bare(x) /\ x.nfc.nci_cmd_window = NCI_MAX_CMD_WINDOW /\ ~x.nfc.nci_wait_rsp_timer
    /\ Silent(x.hal) /\ x.hal.job = "none"

IsOff(x) ==
    /\ ~x.nfc.p_resp_cback /\ x.nfc.nfc_state = "NONE"
    /\ x.hal.link = "CLOSED" /\ ~x.hal.ready /\ x.hal.mbox = <<>>
    /\ \/ x.nfc.asked = "none" /\ x.nfc.report = "none"
       \/ x.nfc.asked = "DISABLE" /\ x.nfc.report = "DISABLE"

(* The transport opens, is open, or failed to open. *)
IsOpening(x) ==
    /\ x.nfc.nfc_state = "W4_HAL_OPEN" /\ Asking(x) /\ Rested(x)
    /\ \/ x.hal.link = "OPENING" /\ ~x.hal.ready /\ x.hal.mbox = <<>>
       \/ x.hal.link = "OPEN" /\ x.hal.ready /\ x.hal.mbox = <<>>
       \/ /\ x.hal.link = "CLOSED" /\ ~x.hal.ready /\ x.hal.mbox = <<Evt("OPEN_CPLT", FALSE)>>
          /\ "sleep" \notin env.calls

(* Command op was written, or resent, and not answered; its response is    *)
(* lost.                                                                   *)
InFlight(h, op) ==
    /\ h.mbox = <<>> /\ ~h.ntf
    /\ \/ h.pending = <<Internal(op)>> /\ h.recovered = <<>>
       \/ h.pending = <<>> /\ h.recovered = <<Internal(op)>>
LostRsp(h) == Silent(h) /\ h.mbox = <<>> /\ "sleep" \notin env.calls

(* CORE_RESET was written: its response comes, is read next, or is lost.   *)
ResetSent(x) ==
    /\ x.nfc.last_hdr = "CORE_RESET" /\ x.nfc.nci_cmd_window < NCI_MAX_CMD_WINDOW
    /\ \/ InFlight(x.hal, "CORE_RESET")
       \/ /\ x.hal.pending = <<>> /\ x.hal.recovered = <<>>
          /\ x.hal.mbox = <<Rsp(Internal("CORE_RESET"), TRUE)>>
          /\ x.hal.ntf => NciVersion = "2_0"
       \/ /\ Silent(x.hal) /\ NciVersion = "2_0"
          /\ x.hal.mbox = <<Rsp(Internal("CORE_RESET"), TRUE), Ntf("CORE_RESET", TRUE)>>
       \/ LostRsp(x.hal)

(* An NFCC of NCI 2.0 has answered it, its notification comes. *)
NtfDue(x) ==
    /\ ~x.nfc.nci_wait_rsp_timer /\ x.nfc.nci_cmd_window > 0
    /\ x.hal.pending = <<>> /\ x.hal.recovered = <<>>
    /\ \/ x.hal.ntf /\ x.hal.mbox = <<>>
       \/ ~x.hal.ntf /\ x.hal.mbox = <<Ntf("CORE_RESET", TRUE)>>

(* CORE_INIT was written.  (With a larger window an NFCC of NCI 1.0 leaves *)
(* last_hdr cleared after it, and the response is dropped.)                *)
InitSent(x) ==
    /\ \/ x.nfc.last_hdr = "CORE_INIT" /\ x.nfc.nci_cmd_window < NCI_MAX_CMD_WINDOW
       \/ x.nfc.last_hdr = "NONE" /\ ~x.nfc.nci_wait_rsp_timer
    /\ \/ InFlight(x.hal, "CORE_INIT")
       \/ /\ Silent(x.hal)
          /\ \E ok \in BOOLEAN : /\ x.hal.mbox = <<Rsp(Internal("CORE_INIT"), ok)>>
                                 /\ ok \/ "sleep" \notin env.calls
       \/ LostRsp(x.hal)

(* Nothing comes any more, and no timer runs. *)
Stuck(x) == ~x.nfc.nci_wait_rsp_timer /\ Silent(x.hal) /\ x.hal.mbox = <<>>

AtStart(x) ==
    /\ x.nfc.nfc_state = "CORE_INIT" /\ Asking(x) /\ Bare(x)
    /\ x.hal.link = "OPEN" /\ ~x.hal.ready /\ x.hal.job = "none"
IsStarting(x) == AtStart(x) /\ (ResetSent(x) \/ NtfDue(x) \/ InitSent(x) \/ Stuck(x))

(* CORE_INIT was refused, CORE_RESET is written again next. *)
IsRetrying(x) ==
    /\ x.nfc.nfc_state = "CORE_INIT" /\ Asking(x) /\ Bare(x)
    /\ ~x.nfc.nci_wait_rsp_timer /\ x.nfc.nci_cmd_window > 0
    /\ x.hal.link = "OPEN" /\ x.hal.ready /\ x.hal.job = "none"
    /\ Silent(x.hal) /\ x.hal.mbox = <<>>

(* The start has failed, the transport closes. *)
IsFailing(x) ==
    /\ x.nfc.nfc_state = "CORE_INIT" /\ Asking(x) /\ "sleep" \notin env.calls
    /\ ~x.nfc.nci_wait_rsp_timer /\ ~x.hal.ready
    /\ \/ x.hal.link = "CLOSING" /\ x.hal.mbox = <<>>
       \/ x.hal.link = "CLOSED" /\ x.hal.mbox = <<Evt("CLOSE_CPLT", TRUE)>>

(* The HAL initializes the NFCC. *)
IsPostInit(x) ==
    /\ x.nfc.nfc_state = "W4_POST_INIT_CPLT" /\ Asking(x) /\ Bare(x)
    /\ ~x.nfc.nci_wait_rsp_timer /\ x.nfc.last_hdr = "NONE" /\ x.nfc.p_nci_init_rsp
    /\ x.hal.link = "OPEN" /\ ~x.hal.ready /\ Silent(x.hal)
    /\ \/ x.hal.job = "post_init" /\ x.hal.mbox = <<>>
       \/ x.hal.job = "none" /\ x.hal.mbox = <<Evt("POST_INIT_CPLT", TRUE)>>

(* The stack is up: nothing of the start is left in the queue, in the      *)
(* transport or in the mailbox.                                            *)
Harmless(m) ==
    /\ m.op \notin {"CORE_INIT", "OPEN_CPLT", "CLOSE_CPLT", "POST_INIT_CPLT", "ERROR"}
    /\ m.op = "CORE_RESET" => m.mt = "NTF" /\ ~m.ok
AllHarmless(q) == \A i \in DOMAIN q : Harmless(q[i])
NoCore(q) == \A i \in DOMAIN q : q[i].op \notin Core
Pure(x) ==
    /\ NoCore(x.nfc.nci_cmd_xmit_q) /\ NoCore(x.hal.pending) /\ NoCore(x.hal.recovered)
    /\ x.nfc.last_hdr \notin Core /\ ~x.hal.ntf /\ x.hal.job # "post_init"
IsIdle(x) ==
    /\ x.nfc.nfc_state = "IDLE" /\ x.nfc.p_resp_cback /\ Going(x) = {}
    /\ \/ x.nfc.asked = "ENABLE" /\ x.nfc.report = "ENABLE_OK"
       \/ x.nfc.asked = "RESTART" /\ x.nfc.report = "RESTART_OK"
    /\ x.hal.link = "OPEN" /\ ~x.hal.ready /\ Pure(x) /\ AllHarmless(x.hal.mbox)

(* The stack is shut down for a disable or a power-off. *)
IsClosing(x) ==
    /\ x.nfc.nfc_state = "W4_HAL_CLOSE" /\ x.nfc.p_resp_cback /\ x.nfc.report = "none" /\ Rested(x)
    /\ \/ x.nfc.asked = "DISABLE" /\ Going(x) = {}
       \/ x.nfc.asked = "POWER_OFF" /\ Going(x) = {"POWER_OFF_SLEEP"}
    /\ ~x.hal.ready
    /\ \/ x.hal.link = "CLOSING" /\ x.hal.mbox = <<>>
       \/ x.hal.link = "CLOSED" /\ x.hal.mbox = <<Evt("CLOSE_CPLT", TRUE)>>
IsAsleep(x) ==
    /\ x.nfc.nfc_state = "NFCC_POWER_OFF_SLEEP" /\ x.nfc.p_resp_cback /\ Going(x) = {} /\ Rested(x)
    /\ x.nfc.asked = "POWER_OFF" /\ x.nfc.report = "POWER_OFF"
    /\ x.hal.link = "CLOSED" /\ ~x.hal.ready /\ x.hal.mbox = <<>>

(* A start has failed and is reported. *)
HasFailed(x) ==
    /\ x.nfc.nfc_state = "NONE" /\ x.nfc.p_resp_cback
    /\ \/ x.nfc.asked = "ENABLE" /\ x.nfc.report = "ENABLE_FAILED"
       \/ x.nfc.asked = "RESTART" /\ x.nfc.report = "RESTART_FAILED"
    /\ x.hal.link = "CLOSED" /\ ~x.hal.ready /\ x.hal.mbox = <<>>

Course(x) ==
    \/ IsOff(x) \/ IsOpening(x) \/ IsStarting(x) \/ IsFailing(x) \/ IsPostInit(x) \/ IsIdle(x)
    \/ IsRetrying(x) \/ IsClosing(x) \/ IsAsleep(x) \/ HasFailed(x)
CourseKept == TypeOK /\ (Timely => Course(Here))

-----------------------------------------------------------------------------
(* What the handlers of a running stack leave alone.                       *)

(* The request and its report, the situation and the mailbox are kept.     *)
SameCourse(x, y) ==
    /\ y.nfc.nfc_state = x.nfc.nfc_state /\ y.nfc.p_resp_cback = x.nfc.p_resp_cback
    /\ y.nfc.asked = x.nfc.asked /\ y.nfc.report = x.nfc.report /\ Going(y) = Going(x)
    /\ y.hal.link = x.hal.link /\ y.hal.mbox = x.hal.mbox /\ y.hal.ready = x.hal.ready
(* And no command of a start is added. *)
Tame(x, y) == y \in Pair /\ SameCourse(x, y) /\ (Pure(x) => Pure(y))

LEMMA TameRefl == ASSUME NEW x \in Pair PROVE Tame(x, x)
  BY DEF Tame, SameCourse

LEMMA TameTrans == ASSUME NEW x, NEW y, NEW z, Tame(x, y), Tame(y, z) PROVE Tame(x, z)
  BY DEF Tame, SameCourse

LEMMA TameIdle == ASSUME NEW x, NEW y, IsIdle(x), Tame(x, y) PROVE IsIdle(y)
  BY DEF Tame, SameCourse, IsIdle

(* A sequence without commands of a start keeps none. *)
LEMMA NoCoreSeq ==
  ASSUME NEW T, NEW q \in Seq(T), NoCore(q)
  PROVE  /\ \A c \in T : c.op \notin Core => NoCore(Append(q, c))
         /\ q # <<>> => NoCore(Tail(q)) /\ Head(q).op \notin Core
         /\ NoCore(<<>>)
<1>1. ASSUME NEW c \in T, c.op \notin Core PROVE NoCore(Append(q, c))
  <2>1. /\ DOMAIN Append(q, c) = 1..(Len(q) + 1) /\ DOMAIN q = 1..Len(q) /\ Len(q) \in Nat
        /\ \A i \in 1..Len(q) : Append(q, c)[i] = q[i]
        /\ Append(q, c)[Len(q) + 1] = c
    OBVIOUS
  <2> QED
    BY <1>1, <2>1 DEF NoCore
<1>2. ASSUME q # <<>> PROVE NoCore(Tail(q)) /\ Head(q).op \notin Core
  BY <1>2, TailIndex DEF NoCore
<1>3. NoCore(<<>>)
  BY DEF NoCore
<1> QED
  BY <1>1, <1>2, <1>3

LEMMA NoCoreConcat ==
  ASSUME NEW T, NEW q \in Seq(T), NEW r \in Seq(T), NoCore(q), NoCore(r)
  PROVE  NoCore(q \o r)
<1>1. /\ DOMAIN (q \o r) = 1..(Len(q) + Len(r)) /\ Len(q) \in Nat /\ Len(r) \in Nat
      /\ DOMAIN q = 1..Len(q) /\ DOMAIN r = 1..Len(r)
      /\ \A i \in 1..(Len(q) + Len(r)) :
           (q \o r)[i] = IF i <= Len(q) THEN q[i] ELSE r[i - Len(q)]
  OBVIOUS
<1>2. ASSUME NEW i \in 1..(Len(q) + Len(r)) PROVE (q \o r)[i].op \notin Core
  <2>1. CASE i <= Len(q)
    <3>1. i \in DOMAIN q /\ (q \o r)[i] = q[i]
      BY <1>1, <2>1
    <3> QED
      BY <3>1 DEF NoCore
  <2>2. CASE ~(i <= Len(q))
    <3>1. i - Len(q) \in DOMAIN r /\ (q \o r)[i] = r[i - Len(q)]
      BY <1>1, <2>2
    <3> QED
      BY <3>1 DEF NoCore
  <2> QED
    BY <2>1, <2>2
<1> QED
  BY <1>1, <1>2 DEF NoCore

(* The same of the messages of the mailbox. *)
LEMMA HarmlessSeq ==
  ASSUME NEW q \in Seq(Message), AllHarmless(q)
  PROVE  /\ \A m \in Message : Harmless(m) => AllHarmless(Append(q, m))
         /\ q # <<>> => AllHarmless(Tail(q)) /\ Harmless(Head(q))
<1>1. ASSUME NEW m \in Message, Harmless(m) PROVE AllHarmless(Append(q, m))
  <2>1. /\ DOMAIN Append(q, m) = 1..(Len(q) + 1) /\ DOMAIN q = 1..Len(q) /\ Len(q) \in Nat
        /\ \A i \in 1..Len(q) : Append(q, m)[i] = q[i]
        /\ Append(q, m)[Len(q) + 1] = m
    OBVIOUS
  <2> QED
    BY <1>1, <2>1 DEF AllHarmless
<1>2. ASSUME q # <<>> PROVE AllHarmless(Tail(q)) /\ Harmless(Head(q))
  BY <1>2, TailIndex DEF AllHarmless
<1> QED
  BY <1>1, <1>2

(* A change of the control block that adds no command and leaves the       *)
(* situation alone.                                                        *)
LEMMA TameNfc ==
  ASSUME NEW x \in Pair, NEW n \in ControlBlock,
         n.nfc_state = x.nfc.nfc_state, n.p_resp_cback = x.nfc.p_resp_cback,
         n.asked = x.nfc.asked, n.report = x.nfc.report,
         n.flags \cap Reasons = x.nfc.flags \cap Reasons,
         n.nci_cmd_xmit_q = x.nfc.nci_cmd_xmit_q, n.last_hdr \in {x.nfc.last_hdr, "NONE"}
  PROVE  Tame(x, Nfc(x, n)) /\ Nfc(x, n).nfc = n /\ Nfc(x, n).hal = x.hal
<1> DEFINE y == Nfc(x, n)
<1>1. y \in Pair /\ y.nfc = n /\ y.hal = x.hal
  BY NfcType
<1> HIDE DEF y
<1>2. SameCourse(x, y)
  BY <1>1 DEF SameCourse, Going
<1>3. Pure(x) => Pure(y)
  BY <1>1 DEF Pure, Core
<1> QED
  BY <1>1, <1>2, <1>3 DEF Tame, y

LEMMA TameEnqueue ==
  ASSUME NEW x \in Pair, NEW c \in Cmd, c.op \notin Core
  PROVE  Tame(x, Enqueue(x, c))
<1> DEFINE n == [x.nfc EXCEPT !.nci_cmd_xmit_q = Append(@, c)]
           y == Enqueue(x, c)
<1>1. /\ n.nfc_state = x.nfc.nfc_state /\ n.p_resp_cback = x.nfc.p_resp_cback
      /\ n.asked = x.nfc.asked /\ n.report = x.nfc.report /\ n.flags = x.nfc.flags
      /\ n.nci_cmd_xmit_q = Append(x.nfc.nci_cmd_xmit_q, c) /\ n.last_hdr = x.nfc.last_hdr
  BY PairFields DEF ControlBlock
<1>2. y.nfc = n /\ y.hal = x.hal
  BY DEF Enqueue, Nfc
<1>3. y \in Pair /\ x.nfc.nci_cmd_xmit_q \in Seq(Cmd)
  BY EnqueueType, PairFields, BlockTypes
<1> HIDE DEF n, y
<1>4. SameCourse(x, y)
  BY <1>1, <1>2 DEF SameCourse, Going
<1>5. Pure(x) => Pure(y)
  BY <1>1, <1>2, <1>3, NoCoreSeq DEF Pure
<1> QED
  BY <1>3, <1>4, <1>5 DEF Tame, y

(* What writing the head of the queue changes. *)
LEMMA WriteFacts ==
  ASSUME Typed, NEW x \in Pair, x.nfc.nci_cmd_window # 0, x.nfc.nci_cmd_xmit_q # <<>>
  PROVE  LET y == WriteHead(x)  c == Head(x.nfc.nci_cmd_xmit_q) IN
         /\ y \in Pair /\ c \in Cmd /\ SameCourse(x, y)
         /\ y.nfc.flags = x.nfc.flags /\ y.nfc.disc_on = x.nfc.disc_on
         /\ y.nfc.nci_cmd_xmit_q = Tail(x.nfc.nci_cmd_xmit_q) /\ y.nfc.last_hdr = c.op
         /\ y.nfc.nci_cmd_window = x.nfc.nci_cmd_window - 1
         /\ y.hal.ntf = x.hal.ntf /\ y.hal.job = x.hal.job /\ y.hal.recovered = x.hal.recovered
         /\ x.hal.link = "OPEN" => y.hal.pending = Append(x.hal.pending, c)
         /\ x.hal.link # "OPEN" => y.hal = x.hal
<1> DEFINE n == x.nfc
           c == Head(n.nci_cmd_xmit_q)
           m == [n EXCEPT !.nci_cmd_xmit_q = Tail(@), !.last_hdr = c.op,
                            !.p_vsc_cback = IF c.id # 0 THEN c.id ELSE @,
                            !.rawVsCbflag = @ \/ c.op = "RAW",
                            !.nci_cmd_window = @ - 1, !.nci_wait_rsp_timer = TRUE]
           h == HalWrite(x.hal, c)
           y == WriteHead(x)
<1>1. y = [nfc |-> m, hal |-> h]
  BY DEF WriteHead
<1>2. n \in ControlBlock /\ x.hal \in HalBlock /\ y \in Pair
  BY PairFields, WriteHeadType
<1>3. c \in Cmd
  BY <1>2, BlockTypes
<1> HIDE DEF c
<1>5. /\ m.last_hdr = c.op /\ m.nci_cmd_xmit_q = Tail(n.nci_cmd_xmit_q)
      /\ m.nci_cmd_window = n.nci_cmd_window - 1 /\ m.flags = n.flags /\ m.nfc_state = n.nfc_state
      /\ m.p_resp_cback = n.p_resp_cback /\ m.asked = n.asked /\ m.report = n.report
      /\ m.disc_on = n.disc_on
  BY <1>2 DEF ControlBlock
<1>6. /\ h.mbox = x.hal.mbox /\ h.link = x.hal.link /\ h.ready = x.hal.ready /\ h.job = x.hal.job
      /\ h.recovered = x.hal.recovered /\ h.ntf = x.hal.ntf /\ (x.hal.link # "OPEN" => h = x.hal)
      /\ (x.hal.link = "OPEN" => h.pending = Append(x.hal.pending, c))
  BY <1>2 DEF HalWrite, HalBlock
<1> HIDE DEF m, h
<1>7. y.nfc = m /\ y.hal = h
  BY <1>1
<1> HIDE DEF y
<1>8. SameCourse(x, y)
  BY <1>5, <1>6, <1>7 DEF SameCourse, Going
<1> QED
  BY <1>2, <1>3, <1>5, <1>6, <1>7, <1>8 DEF y, c

LEMMA TameWriteHead ==
  ASSUME Typed, NEW x \in Pair
  PROVE  Tame(x, WriteHead(x))
<1>1. CASE x.nfc.nci_cmd_window = 0 \/ x.nfc.nci_cmd_xmit_q = <<>>
  BY <1>1, TameRefl DEF WriteHead
<1>2. ASSUME x.nfc.nci_cmd_window # 0, x.nfc.nci_cmd_xmit_q # <<>>
      PROVE  Tame(x, WriteHead(x))
  <2> DEFINE y == WriteHead(x)
             c == Head(x.nfc.nci_cmd_xmit_q)
  <2>1. /\ y \in Pair /\ c \in Cmd /\ SameCourse(x, y)
        /\ y.nfc.nci_cmd_xmit_q = Tail(x.nfc.nci_cmd_xmit_q) /\ y.nfc.last_hdr = c.op
        /\ y.hal.ntf = x.hal.ntf /\ y.hal.job = x.hal.job /\ y.hal.recovered = x.hal.recovered
        /\ x.hal.link = "OPEN" => y.hal.pending = Append(x.hal.pending, c)
        /\ x.hal.link # "OPEN" => y.hal = x.hal
    BY <1>2, WriteFacts
  <2>2. x.nfc.nci_cmd_xmit_q \in Seq(Cmd) /\ x.hal.pending \in Seq(Cmd)
    BY PairFields, BlockTypes, HalTypes
  <2> HIDE DEF y
  <2>3. ASSUME Pure(x) PROVE Pure(y)
    <3>1. c.op \notin Core /\ NoCore(Tail(x.nfc.nci_cmd_xmit_q))
      BY <1>2, <2>2, <2>3, NoCoreSeq DEF Pure
    <3>2. NoCore(y.hal.pending)
      BY <2>1, <2>2, <2>3, <3>1, NoCoreSeq, Zenon DEF Pure
    <3> QED
      BY <2>1, <2>3, <3>1, <3>2 DEF Pure
  <2> QED
    BY <2>1, <2>3 DEF Tame, y
<1> QED
  BY <1>1, <1>2

LEMMA TameSendDiscover ==
  ASSUME Typed, NEW x \in Pair, NEW ch \in Choice
  PROVE  Tame(x, SendDiscover(x, ch))
<1> DEFINE n == [x.nfc EXCEPT !.flags = @ \ {"DISCOVER_PENDING"}, !.p_disc_pending = FALSE]
           y == Nfc(x, n)
           c == Internal("DISCOVER")
<1>1. n \in ControlBlock
  BY PairFields, BlockTypes, FieldTypes, ZenonT(40)
<1>2. /\ n.nfc_state = x.nfc.nfc_state /\ n.p_resp_cback = x.nfc.p_resp_cback
      /\ n.asked = x.nfc.asked /\ n.report = x.nfc.report
      /\ n.flags = x.nfc.flags \ {"DISCOVER_PENDING"}
      /\ n.nci_cmd_xmit_q = x.nfc.nci_cmd_xmit_q /\ n.last_hdr = x.nfc.last_hdr
  BY PairFields DEF ControlBlock
<1>3. SendDiscover(x, ch) = IF ch.buf THEN WriteHead(Enqueue(y, c)) ELSE y
  BY DEF SendDiscover
<1> HIDE DEF n
<1>4. Tame(x, y) /\ y \in Pair
  <2>1. n.flags \cap Reasons = x.nfc.flags \cap Reasons
    BY <1>2 DEF Reasons
  <2> QED
    BY <1>1, <1>2, <2>1, TameNfc DEF Tame
<1> HIDE DEF y
<1>5. c \in Cmd /\ c.op \notin Core
  BY InternalType DEF StackCmd, Internal, Core
<1>6. Tame(y, Enqueue(y, c)) /\ Enqueue(y, c) \in Pair
  BY <1>4, <1>5, TameEnqueue DEF Tame
<1>7. Tame(Enqueue(y, c), WriteHead(Enqueue(y, c)))
  BY <1>6, TameWriteHead
<1> QED
  BY <1>3, <1>4, <1>6, <1>7, TameTrans

LEMMA TameHandOver ==
  ASSUME Typed, NEW x \in Pair, NEW ch \in Choice
  PROVE  Tame(x, HandOver(x, ch))
<1> DEFINE n == [x.nfc EXCEPT !.flags = @ \ {"CONTROL_REQUESTED"}]
           g(f) == [n EXCEPT !.flags = f \cup {"CONTROL_GRANTED"}, !.nci_cmd_window = 0]
           r(f, j) == [nfc |-> g(f), hal |-> HalStart(x.hal, j)]
<1>1. n \in ControlBlock
  BY PairFields, BlockTypes, FieldTypes, Zenon
<1>2. /\ n.nfc_state = x.nfc.nfc_state /\ n.p_resp_cback = x.nfc.p_resp_cback
      /\ n.asked = x.nfc.asked /\ n.report = x.nfc.report
      /\ n.flags = x.nfc.flags \ {"CONTROL_REQUESTED"}
      /\ n.nci_cmd_xmit_q = x.nfc.nci_cmd_xmit_q /\ n.last_hdr = x.nfc.last_hdr
  BY PairFields DEF ControlBlock
<1>3. HandOver(x, ch) \in {x, r(n.flags, "prediscover"), SendDiscover(Nfc(x, n), ch),
                           r(n.flags \ {"HAL_REQUESTED"}, "granted"), Nfc(x, n)}
  BY DEF HandOver
<1> HIDE DEF n
<1>3f. n.flags \in SUBSET NFC_FL
  BY <1>1, BlockTypes
<1>4. ASSUME NEW f \in {n.flags, n.flags \ {"HAL_REQUESTED"}}, NEW j \in {"prediscover", "granted"}
      PROVE  Tame(x, r(f, j))
  <2> DEFINE m == g(f)
             h == HalStart(x.hal, j)
             y == [nfc |-> m, hal |-> h]
  <2>1. f \cup {"CONTROL_GRANTED"} \in SUBSET NFC_FL /\ 0 \in 0..NCI_MAX_CMD_WINDOW
    BY <1>3f, WindowAssumption DEF NFC_FL
  <2>2. m \in ControlBlock /\ h \in HalBlock
    BY <1>1, <2>1, FieldTypes, StartType, PairFields, Zenon
  <2>3. /\ m.nfc_state = x.nfc.nfc_state /\ m.p_resp_cback = x.nfc.p_resp_cback
        /\ m.asked = x.nfc.asked /\ m.report = x.nfc.report
        /\ m.flags = f \cup {"CONTROL_GRANTED"}
        /\ m.nci_cmd_xmit_q = x.nfc.nci_cmd_xmit_q /\ m.last_hdr = x.nfc.last_hdr
    BY <1>1, <1>2 DEF ControlBlock
  <2>4. /\ h.mbox = x.hal.mbox /\ h.link = x.hal.link /\ h.ready = x.hal.ready
        /\ h.recovered = x.hal.recovered /\ h.ntf = x.hal.ntf /\ h.pending = x.hal.pending
        /\ h.job \in {x.hal.job, j}
    BY PairFields DEF HalStart, HalBlock
  <2>5. m.flags \cap Reasons = x.nfc.flags \cap Reasons
    BY <1>2, <2>3 DEF Reasons
  <2>6. y \in Pair /\ y.nfc = m /\ y.hal = h
    BY <2>2 DEF Pair
  <2> HIDE DEF m, h, y
  <2>7. SameCourse(x, y)
    BY <2>3, <2>4, <2>5, <2>6 DEF SameCourse, Going
  <2>8. Pure(x) => Pure(y)
    BY <2>3, <2>4, <2>6 DEF Pure
  <2> QED
    BY <2>6, <2>7, <2>8 DEF Tame, y, m, h
<1>5. Tame(x, Nfc(x, n)) /\ Nfc(x, n) \in Pair
  <2>1. n.flags \cap Reasons = x.nfc.flags \cap Reasons
    BY <1>2 DEF Reasons
  <2> QED
    BY <1>1, <1>2, <2>1, TameNfc DEF Tame
<1>6. Tame(x, SendDiscover(Nfc(x, n), ch))
  BY <1>5, TameSendDiscover, TameTrans
<1> HIDE DEF r
<1> QED
  BY <1>3, <1>4, <1>5, <1>6, TameRefl

LEMMA TameCheck ==
  ASSUME Typed, NEW x \in Pair, NEW ch \in Choice
  PROVE  Tame(x, CheckCmdQueue(x, ch))
<1>1. Tame(x, WriteHead(x)) /\ WriteHead(x) \in Pair
  BY TameWriteHead DEF Tame
<1> QED
  BY <1>1, TameHandOver, TameTrans DEF CheckCmdQueue

LEMMA TameSendCmd ==
  ASSUME Typed, NEW x \in Pair, NEW ch \in Choice, NEW c \in Cmd, c.op \notin Core
  PROVE  Tame(x, SendCmd(x, c, ch))
<1>1. Tame(x, Enqueue(x, c)) /\ Enqueue(x, c) \in Pair
  BY TameEnqueue DEF Tame
<1> QED
  BY <1>1, TameCheck, TameTrans DEF SendCmd

LEMMA TameSend ==
  ASSUME Typed, NEW x \in Pair, NEW ch \in Choice, NEW op \in StackCmd, op \notin Core
  PROVE  Tame(x, Send(x, op, ch))
<1>1. Internal(op) \in Cmd /\ Internal(op).op \notin Core
  BY InternalType DEF Internal
<1> QED
  BY <1>1, TameSendCmd, TameRefl DEF Send

LEMMA TameUpdateWindow ==
  ASSUME Typed, NEW x \in Pair, NEW ch \in Choice
  PROVE  Tame(x, UpdateWindow(x, ch))
<1> DEFINE n == [x.nfc EXCEPT !.nci_wait_rsp_timer = FALSE, !.p_vsc_cback = 0,
                              !.nci_cmd_window = @ + 1]
<1>1. CASE x.nfc.nci_cmd_window = NCI_MAX_CMD_WINDOW
  BY <1>1, TameRefl DEF UpdateWindow
<1>2. CASE x.nfc.nci_cmd_window # NCI_MAX_CMD_WINDOW
  <2>0. x.nfc \in ControlBlock
    BY PairFields
  <2>1. x.nfc.nci_cmd_window + 1 \in 0..NCI_MAX_CMD_WINDOW /\ 0 \in 0..MaxCmds
    BY <1>2, <2>0, BlockTypes, WindowAssumption, EnvTypes
  <2>2. n \in ControlBlock
    BY <2>0, <2>1, FieldTypes, Zenon
  <2>3. /\ n.nfc_state = x.nfc.nfc_state /\ n.p_resp_cback = x.nfc.p_resp_cback
        /\ n.asked = x.nfc.asked /\ n.report = x.nfc.report /\ n.flags = x.nfc.flags
        /\ n.nci_cmd_xmit_q = x.nfc.nci_cmd_xmit_q /\ n.last_hdr = x.nfc.last_hdr
    BY <2>0 DEF ControlBlock
  <2>4. UpdateWindow(x, ch) = CheckCmdQueue(Nfc(x, n), ch)
    BY <1>2 DEF UpdateWindow
  <2> HIDE DEF n
  <2>5. Tame(x, Nfc(x, n)) /\ Nfc(x, n) \in Pair
    BY <2>2, <2>3, TameNfc DEF Tame
  <2> QED
    BY <2>4, <2>5, TameCheck, TameTrans
<1> QED
  BY <1>1, <1>2

LEMMA TameVendor ==
  ASSUME Typed, NEW x \in Pair, NEW m \in Message
  PROVE  Tame(x, VendorCallback(x, m))
<1> DEFINE k == [to |-> x.nfc.p_vsc_cback, answers |-> m.id]
           n == [x.nfc EXCEPT !.back = k]
<1>1. x.nfc \in ControlBlock /\ k \in [to : 0..MaxCmds, answers : 0..MaxCmds]
  BY PairFields, BlockTypes, MessageTypes
<1> HIDE DEF k
<1>2. n \in ControlBlock
  BY <1>1, FieldTypes, Zenon
<1>3. /\ n.nfc_state = x.nfc.nfc_state /\ n.p_resp_cback = x.nfc.p_resp_cback
      /\ n.asked = x.nfc.asked /\ n.report = x.nfc.report /\ n.flags = x.nfc.flags
      /\ n.nci_cmd_xmit_q = x.nfc.nci_cmd_xmit_q /\ n.last_hdr = x.nfc.last_hdr
  BY <1>1 DEF ControlBlock
<1>4. VendorCallback(x, m) \in {x, Nfc(x, n)}
  BY DEF VendorCallback, k
<1> HIDE DEF n
<1>5. Tame(x, Nfc(x, n))
  BY <1>2, <1>3, TameNfc
<1> QED
  BY <1>4, <1>5, TameRefl

LEMMA TameRaw ==
  ASSUME Typed, NEW x \in Pair, NEW m \in Message, NEW ch \in Choice
  PROVE  Tame(x, RawVsRsp(x, m, ch))
<1> DEFINE y == VendorCallback(x, m)
           n == [y.nfc EXCEPT !.p_vsc_cback = 0, !.rawVsCbflag = FALSE]
           z == UpdateWindow(Nfc(y, n), ch)
           l == [z.nfc EXCEPT !.rawVsCbflag = FALSE]
<1>1. Tame(x, y) /\ y \in Pair
  BY TameVendor DEF Tame
<1>2. RawVsRsp(x, m, ch) = Nfc(z, l)
  BY DEF RawVsRsp
<1> HIDE DEF y
<1>3. y.nfc \in ControlBlock /\ 0 \in 0..MaxCmds
  BY <1>1, PairFields, EnvTypes
<1>4. n \in ControlBlock
  BY <1>3, FieldTypes, Zenon
<1>5. /\ n.nfc_state = y.nfc.nfc_state /\ n.p_resp_cback = y.nfc.p_resp_cback
      /\ n.asked = y.nfc.asked /\ n.report = y.nfc.report /\ n.flags = y.nfc.flags
      /\ n.nci_cmd_xmit_q = y.nfc.nci_cmd_xmit_q /\ n.last_hdr = y.nfc.last_hdr
  BY <1>3 DEF ControlBlock
<1> HIDE DEF n
<1>6. Tame(y, Nfc(y, n)) /\ Nfc(y, n) \in Pair
  BY <1>1, <1>4, <1>5, TameNfc DEF Tame
<1>7. Tame(Nfc(y, n), z) /\ z \in Pair
  BY <1>6, TameUpdateWindow DEF Tame
<1> HIDE DEF z
<1>8. z.nfc \in ControlBlock
  BY <1>7, PairFields
<1>9. l \in ControlBlock
  BY <1>8, FieldTypes, Zenon
<1>10. /\ l.nfc_state = z.nfc.nfc_state /\ l.p_resp_cback = z.nfc.p_resp_cback
       /\ l.asked = z.nfc.asked /\ l.report = z.nfc.report /\ l.flags = z.nfc.flags
       /\ l.nci_cmd_xmit_q = z.nfc.nci_cmd_xmit_q /\ l.last_hdr = z.nfc.last_hdr
  BY <1>8 DEF ControlBlock
<1> HIDE DEF l
<1>11. Tame(z, Nfc(z, l))
  BY <1>7, <1>9, <1>10, TameNfc
<1> QED
  BY <1>1, <1>2, <1>6, <1>7, <1>11, TameTrans

LEMMA TameFlagged ==
  ASSUME NEW x \in Pair, NEW f \in SUBSET NFC_FL, f \cap Reasons = {}
  PROVE  Tame(x, Flagged(x, f))
<1> DEFINE n == [x.nfc EXCEPT !.flags = @ \cup f]
<1>1. n \in ControlBlock
  BY PairFields, BlockTypes, FieldTypes, Zenon
<1>2. /\ n.nfc_state = x.nfc.nfc_state /\ n.p_resp_cback = x.nfc.p_resp_cback
      /\ n.asked = x.nfc.asked /\ n.report = x.nfc.report /\ n.flags = x.nfc.flags \cup f
      /\ n.nci_cmd_xmit_q = x.nfc.nci_cmd_xmit_q /\ n.last_hdr = x.nfc.last_hdr
  BY PairFields DEF ControlBlock
<1> HIDE DEF n
<1>3. n.flags \cap Reasons = x.nfc.flags \cap Reasons
  BY <1>2
<1> QED
  BY <1>1, <1>2, <1>3, TameNfc, Zenon DEF Flagged, n

LEMMA TameGivenBack ==
  ASSUME NEW x \in Pair
  PROVE  Tame(x, GivenBack(x))
<1> DEFINE n == [x.nfc EXCEPT !.nci_cmd_window = NCI_MAX_CMD_WINDOW, !.flags = @ \ {"CONTROL_GRANTED"}]
<1>1. NCI_MAX_CMD_WINDOW \in 0..NCI_MAX_CMD_WINDOW /\ x.nfc.flags \ {"CONTROL_GRANTED"} \in SUBSET NFC_FL
  BY WindowAssumption, PairFields, BlockTypes
<1>2. n \in ControlBlock
  BY <1>1, PairFields, FieldTypes, Zenon
<1>3. /\ n.nfc_state = x.nfc.nfc_state /\ n.p_resp_cback = x.nfc.p_resp_cback
      /\ n.asked = x.nfc.asked /\ n.report = x.nfc.report
      /\ n.flags = x.nfc.flags \ {"CONTROL_GRANTED"}
      /\ n.nci_cmd_xmit_q = x.nfc.nci_cmd_xmit_q /\ n.last_hdr = x.nfc.last_hdr
  BY PairFields DEF ControlBlock
<1> HIDE DEF n
<1>4. n.flags \cap Reasons = x.nfc.flags \cap Reasons
  BY <1>3 DEF Reasons
<1> QED
  BY <1>2, <1>3, <1>4, TameNfc, Zenon DEF GivenBack, n

-----------------------------------------------------------------------------
(* The messages that reach a stack that is up.                             *)

LEMMA TameRsp ==
  ASSUME Typed, NEW x \in Pair, NEW m \in Message, m.mt = "RSP", Harmless(m), NEW ch \in Choice
  PROVE  Tame(x, ProcRsp(x, m, ch))
<1> DEFINE expected == m.op = IF x.nfc.last_hdr = "NONE" THEN "CORE_RESET" ELSE x.nfc.last_hdr
           stray == m.op = "DISCOVER" /\ x.nfc.nci_cmd_window = 0
           k == [x.nfc EXCEPT !.nci_cmd_window = @ + 1]
           y == IF expected THEN x ELSE Nfc(x, k)
           o == y.nfc.disc_on /\ ~ch.idle
           d(b) == [y.nfc EXCEPT !.disc_on = b]
           z == CASE m.op = "CORE_RESET" -> ProcResetRsp(y, m, ch)
                  [] m.op = "CORE_INIT"  -> ProcInitRsp(y, m, ch)
                  [] m.op \in UserCmds   -> VendorCallback(y, m)
                  [] m.op = "DISCOVER"   -> Nfc(y, d(TRUE))
                  [] m.op = "DEACTIVATE" -> Nfc(y, d(o))
                  [] m.op = "DISCOVER_MAP" -> y
           l == [z.nfc EXCEPT !.last_hdr = "NONE"]
<1>1. ProcRsp(x, m, ch) = IF ~expected /\ ~stray THEN x ELSE UpdateWindow(Nfc(z, l), ch)
  BY DEF ProcRsp
<1> HIDE DEF o
<1> SUFFICES ASSUME expected \/ stray PROVE Tame(x, UpdateWindow(Nfc(z, l), ch))
  BY <1>1, TameRefl, Zenon
<1>2. Tame(x, y) /\ y \in Pair
  <2>1. CASE expected
    BY <2>1, TameRefl
  <2>2. CASE ~expected
    <3>1. x.nfc \in ControlBlock /\ x.nfc.nci_cmd_window + 1 \in 0..NCI_MAX_CMD_WINDOW
      BY <2>2, PairFields, WindowAssumption
    <3>2. k \in ControlBlock
      BY <3>1, FieldTypes, Zenon
    <3>3. /\ k.nfc_state = x.nfc.nfc_state /\ k.p_resp_cback = x.nfc.p_resp_cback
          /\ k.asked = x.nfc.asked /\ k.report = x.nfc.report /\ k.flags = x.nfc.flags
          /\ k.nci_cmd_xmit_q = x.nfc.nci_cmd_xmit_q /\ k.last_hdr = x.nfc.last_hdr
      BY <3>1 DEF ControlBlock
    <3> HIDE DEF k
    <3>4. Tame(x, Nfc(x, k))
      BY <3>2, <3>3, TameNfc
    <3> QED
      BY <2>2, <3>4 DEF Tame
  <2> QED
    BY <2>1, <2>2
<1> HIDE DEF y
<1>3. m.op \in {"DISCOVER", "DEACTIVATE", "DISCOVER_MAP"} \cup UserCmds
      /\ UserCmds \subseteq {"VSC", "RAW"}
  BY MessageTypes, EnvTypes DEF Harmless, StackCmd
<1>4. Tame(y, z) /\ z \in Pair
  <2>1. ASSUME NEW b \in BOOLEAN PROVE Tame(y, Nfc(y, d(b)))
    <3>1. y.nfc \in ControlBlock
      BY <1>2, PairFields
    <3>2. d(b) \in ControlBlock
      BY <3>1, FieldTypes, Zenon
    <3>3. /\ d(b).nfc_state = y.nfc.nfc_state /\ d(b).p_resp_cback = y.nfc.p_resp_cback
          /\ d(b).asked = y.nfc.asked /\ d(b).report = y.nfc.report /\ d(b).flags = y.nfc.flags
          /\ d(b).nci_cmd_xmit_q = y.nfc.nci_cmd_xmit_q /\ d(b).last_hdr = y.nfc.last_hdr
      BY <3>1 DEF ControlBlock
    <3> HIDE DEF d
    <3> QED
      BY <1>2, <3>2, <3>3, TameNfc
  <2>2. z \in {VendorCallback(y, m), Nfc(y, d(TRUE)), Nfc(y, d(o)), y} /\ o \in BOOLEAN
    <3>1. o \in BOOLEAN
      BY DEF o
    <3> HIDE DEF d
    <3> QED
      BY <1>3, <3>1
  <2> HIDE DEF z, d
  <2>3. Tame(y, z)
    BY <1>2, <2>1, <2>2, TameVendor, TameRefl, ZenonT(40)
  <2> QED
    BY <2>3 DEF Tame
<1> HIDE DEF z
<1>5. Tame(z, Nfc(z, l)) /\ Nfc(z, l) \in Pair
  <2>1. z.nfc \in ControlBlock
    BY <1>4, PairFields
  <2>2. l \in ControlBlock
    BY <2>1, FieldTypes, Zenon
  <2>3. /\ l.nfc_state = z.nfc.nfc_state /\ l.p_resp_cback = z.nfc.p_resp_cback
        /\ l.asked = z.nfc.asked /\ l.report = z.nfc.report /\ l.flags = z.nfc.flags
        /\ l.nci_cmd_xmit_q = z.nfc.nci_cmd_xmit_q /\ l.last_hdr = "NONE"
    BY <2>1 DEF ControlBlock
  <2> HIDE DEF l
  <2> QED
    BY <1>4, <2>2, <2>3, TameNfc DEF Tame
<1>6. Tame(Nfc(z, l), UpdateWindow(Nfc(z, l), ch))
  BY <1>5, TameUpdateWindow
<1> QED
  BY <1>2, <1>4, <1>5, <1>6, TameTrans

(* A time-out while the stack is up has the HAL send the last command, and *)
(* the one that started discovery, again.                                  *)
LEMMA TameTimeout ==
  ASSUME Typed, NEW x \in Pair, x.nfc.nfc_state # "CORE_INIT", NEW ch \in Choice
  PROVE  Tame(x, CmdTimeout(x, ch))
<1> DEFINE n == [x.nfc EXCEPT !.nci_wait_rsp_timer = FALSE]
           y == Nfc(x, n)
           disc == IF x.nfc.disc_on THEN <<Internal("DISCOVER")>> ELSE <<>>
           c == [op |-> x.nfc.last_hdr,
                 id |-> IF x.nfc.last_hdr \in UserCmds THEN x.nfc.p_vsc_cback ELSE 0]
           again == \/ x.nfc.last_hdr = "DEACTIVATE" /\ (ch.idle \/ ~x.nfc.disc_on)
                    \/ x.nfc.last_hdr \notin {"NONE", "DEACTIVATE"}
           last == IF again THEN <<c>> ELSE <<>>
           h == [x.hal EXCEPT !.pending = <<>>, !.ntf = FALSE, !.recovered = disc \o last]
           r == CmdTimeout(x, ch)
<1>1. x.nfc \in ControlBlock /\ x.hal \in HalBlock /\ n \in ControlBlock
  BY PairFields, FieldTypes, Zenon
<1>2. /\ n.nfc_state = x.nfc.nfc_state /\ n.p_resp_cback = x.nfc.p_resp_cback
      /\ n.asked = x.nfc.asked /\ n.report = x.nfc.report /\ n.flags = x.nfc.flags
      /\ n.nci_cmd_xmit_q = x.nfc.nci_cmd_xmit_q /\ n.last_hdr = x.nfc.last_hdr
  BY <1>1 DEF ControlBlock
<1>3. y = [nfc |-> n, hal |-> x.hal] /\ Tame(x, y) /\ y \in Pair
  <2>1. y = [nfc |-> n, hal |-> x.hal]
    BY DEF Nfc
  <2> HIDE DEF n
  <2> QED
    BY <1>1, <1>2, <2>1, TameNfc DEF Tame
<1>4. r = IF x.hal.link # "OPEN" THEN y ELSE Hal(y, h)
  <2>1. r = Resend(Expired(x), disc \o last) /\ Expired(x) = y
    BY DEF CmdTimeout, Expired
  <2>2. y.hal = x.hal
    BY <1>3
  <2> HIDE DEF r, y, disc, last
  <2> QED
    BY <2>1, <2>2 DEF Resend
<1>5. r \in Pair
  BY TimeoutType
<1>6. /\ h.link = x.hal.link /\ h.mbox = x.hal.mbox /\ h.ready = x.hal.ready /\ h.job = x.hal.job
      /\ h.pending = <<>> /\ ~h.ntf /\ h.recovered = disc \o last
  BY <1>1 DEF HalBlock
<1>7. ASSUME x.nfc.last_hdr \notin Core PROVE NoCore(disc \o last)
  <2>1. Internal("DISCOVER").op \notin Core /\ c.op \notin Core
    BY <1>7 DEF Internal, Core
  <2> DEFINE i == Internal("DISCOVER")
  <2> HIDE DEF c, i
  <2>2. disc \in Seq({i, c}) /\ last \in Seq({i, c})
    <3>1. <<>> \in Seq({i, c}) /\ <<i>> \in Seq({i, c}) /\ <<c>> \in Seq({i, c})
      OBVIOUS
    <3>2. (disc = <<>> \/ disc = <<i>>) /\ (last = <<>> \/ last = <<c>>)
      BY DEF i
    <3> QED
      BY <3>1, <3>2
  <2>3. NoCore(disc) /\ NoCore(last)
    BY <2>1 DEF NoCore, i
  <2> HIDE DEF disc, last
  <2> QED
    BY <2>2, <2>3, NoCoreConcat
<1> HIDE DEF n, y, h, disc, last
<1>8. CASE x.hal.link = "OPEN"
  <2>1. r.nfc = n /\ r.hal = h
    BY <1>3, <1>4, <1>8 DEF Hal
  <2> HIDE DEF r
  <2>2. SameCourse(x, r)
    BY <1>2, <1>6, <2>1 DEF SameCourse, Going
  <2>3. NoCore(<<>>)
    BY DEF NoCore
  <2>4. Pure(x) => Pure(r)
    BY <1>2, <1>6, <1>7, <2>1, <2>3 DEF Pure
  <2> QED
    BY <1>5, <2>2, <2>4 DEF Tame, r
<1> QED
  BY <1>3, <1>4, <1>8

LEMMA TameProcess ==
  ASSUME Typed, NEW x \in Pair, NEW m \in Message, m.mt # "EVT", Harmless(m),
         x.nfc.nfc_state = "IDLE", NEW ch \in Choice
  PROVE  Tame(x, ProcessEvent(x, m, ch))
<1>1. m.mt = "RSP" => Tame(x, ProcRsp(x, m, ch))
  BY TameRsp
<1>2. Tame(x, RawVsRsp(x, m, ch)) /\ Tame(x, x)
  BY TameRaw, TameRefl
<1>3. m.mt # "RSP" /\ m.op = "CORE_RESET" => Tame(x, ProcResetNtf(x, m, ch))
  BY TameTimeout DEF ProcResetNtf, Harmless
<1> QED
  BY <1>1, <1>2, <1>3 DEF ProcessEvent

LEMMA TameHalEvt ==
  ASSUME Typed, NEW x \in Pair, NEW m \in Message, m.mt = "EVT", Harmless(m), NEW ch \in Choice
  PROVE  Tame(x, HandleHalEvt(x, m, ch))
<1> DEFINE y == GivenBack(x)
           f == {"CONTROL_REQUESTED", "HAL_REQUESTED"}
<1>1. m.op \in {"PRE_DISCOVER_CPLT", "REQUEST_CONTROL", "RELEASE_CONTROL"}
  BY MessageTypes DEF Harmless, HalEvent
<1>2. Tame(x, y) /\ y \in Pair
  BY TameGivenBack DEF Tame
<1>3. Tame(x, Flagged(x, f)) /\ Flagged(x, f) \in Pair
  <2>1. f \in SUBSET NFC_FL /\ f \cap Reasons = {}
    BY DEF NFC_FL, Reasons
  <2> QED
    BY <2>1, TameFlagged DEF Tame
<1>4. HandleHalEvt(x, m, ch) \in {SendDiscover(y, ch), CheckCmdQueue(y, ch),
                                  CheckCmdQueue(Flagged(x, f), ch), x}
  BY <1>1 DEF HandleHalEvt, HandlePreDiscover, HandleRelease
<1> HIDE DEF y, f
<1>5. Tame(x, SendDiscover(y, ch)) /\ Tame(x, CheckCmdQueue(y, ch))
  BY <1>2, TameSendDiscover, TameCheck, TameTrans
<1>6. Tame(x, CheckCmdQueue(Flagged(x, f), ch))
  BY <1>3, TameCheck, TameTrans
<1> QED
  BY <1>4, <1>5, <1>6, TameRefl

-----------------------------------------------------------------------------
(* The commands of a start and their answers.                              *)

(* Without a request for control nothing is handed over. *)
LEMMA NotHandedOver ==
  ASSUME NEW x, "CONTROL_REQUESTED" \notin x.nfc.flags, NEW ch
  PROVE  HandOver(x, ch) = x
  BY DEF HandOver

(* A command of the start is written, or waits when the window is closed.  *)
LEMMA SentFacts ==
  ASSUME Typed, NEW x \in Pair, AtStart(x), NEW op \in StackCmd, NEW ch \in Choice
  PROVE  LET y == Send(x, op, ch)  c == Internal(op) IN
         /\ y \in Pair /\ SameCourse(x, y) /\ y.nfc.disc_on = x.nfc.disc_on
         /\ y.nfc.flags = x.nfc.flags
         /\ y.hal.ntf = x.hal.ntf /\ y.hal.job = x.hal.job /\ y.hal.recovered = x.hal.recovered
         /\ ~ch.buf => y = x
         /\ (ch.buf /\ x.nfc.nci_cmd_window # 0) =>
              /\ y.nfc.nci_cmd_xmit_q = <<>> /\ y.nfc.last_hdr = op
              /\ y.nfc.nci_cmd_window = x.nfc.nci_cmd_window - 1
              /\ y.hal.pending = Append(x.hal.pending, c)
         /\ (ch.buf /\ x.nfc.nci_cmd_window = 0) =>
              /\ y.nfc.nci_cmd_xmit_q = <<c>> /\ y.nfc.last_hdr = x.nfc.last_hdr
              /\ y.nfc.nci_cmd_window = 0 /\ y.hal = x.hal
<1> DEFINE c == Internal(op)
           n == [x.nfc EXCEPT !.nci_cmd_xmit_q = Append(@, c)]
           z == Enqueue(x, c)
           v == WriteHead(z)
           y == Send(x, op, ch)
<1>1. CASE ~ch.buf
  BY <1>1 DEF Send, SameCourse
<1>2. CASE ch.buf
  <2>1. c \in Cmd /\ c.op = op /\ x.nfc \in ControlBlock
    BY InternalType, PairFields DEF Internal
  <2>2. y = HandOver(v, ch)
    BY <1>2 DEF Send, SendCmd, CheckCmdQueue
  <2> HIDE DEF c
  <2>3. /\ n.nfc_state = x.nfc.nfc_state /\ n.p_resp_cback = x.nfc.p_resp_cback
        /\ n.asked = x.nfc.asked /\ n.report = x.nfc.report /\ n.flags = x.nfc.flags
        /\ n.nci_cmd_xmit_q = Append(x.nfc.nci_cmd_xmit_q, c) /\ n.last_hdr = x.nfc.last_hdr
        /\ n.disc_on = x.nfc.disc_on /\ n.nci_cmd_window = x.nfc.nci_cmd_window
    BY <2>1 DEF ControlBlock
  <2>4. z \in Pair /\ z.nfc = n /\ z.hal = x.hal
    BY <2>1, EnqueueType DEF Enqueue, Nfc
  <2> HIDE DEF n, z
  <2>5. z.nfc.nci_cmd_xmit_q = Append(<<>>, c)
    BY <2>3, <2>4 DEF AtStart, Bare
  <2>6. /\ z.nfc.nci_cmd_xmit_q = <<c>> /\ z.nfc.nci_cmd_xmit_q # <<>>
        /\ Head(z.nfc.nci_cmd_xmit_q) = c /\ Tail(z.nfc.nci_cmd_xmit_q) = <<>>
    BY <2>5
  <2>7. SameCourse(x, z)
    BY <2>3, <2>4 DEF SameCourse, Going
  <2>8. CASE x.nfc.nci_cmd_window = 0
    <3>1. v = z
      BY <2>3, <2>4, <2>8 DEF WriteHead
    <3>2. y = z
      BY <2>2, <2>3, <2>4, <3>1, NotHandedOver DEF AtStart, Bare
    <3> HIDE DEF y
    <3> QED
      BY <1>2, <2>3, <2>4, <2>6, <2>7, <2>8, <3>2 DEF y, c
  <2>9. CASE x.nfc.nci_cmd_window # 0
    <3>1. /\ v \in Pair /\ SameCourse(z, v)
          /\ v.nfc.flags = z.nfc.flags /\ v.nfc.disc_on = z.nfc.disc_on
          /\ v.nfc.nci_cmd_xmit_q = <<>> /\ v.nfc.last_hdr = c.op
          /\ v.nfc.nci_cmd_window = z.nfc.nci_cmd_window - 1
          /\ v.hal.ntf = z.hal.ntf /\ v.hal.job = z.hal.job /\ v.hal.recovered = z.hal.recovered
          /\ z.hal.link = "OPEN" => v.hal.pending = Append(z.hal.pending, c)
      BY <2>3, <2>4, <2>6, <2>9, WriteFacts
    <3> HIDE DEF v
    <3>2. y = v
      BY <2>2, <2>3, <2>4, <3>1, NotHandedOver DEF AtStart, Bare
    <3>3. SameCourse(x, v)
      BY <2>7, <3>1 DEF SameCourse
    <3> HIDE DEF y
    <3> QED
      BY <1>2, <2>1, <2>3, <2>4, <2>9, <3>1, <3>2, <3>3 DEF AtStart, y, c
  <2> QED
    BY <2>8, <2>9
<1> QED
  BY <1>1, <1>2

(* What the handlers of a start do not look at is left out.                *)
Still(m, n) ==
    /\ n.nfc_state = m.nfc_state /\ n.flags = m.flags /\ n.nci_cmd_window = m.nci_cmd_window
    /\ n.nci_cmd_xmit_q = m.nci_cmd_xmit_q /\ n.last_hdr = m.last_hdr
    /\ n.nci_wait_rsp_timer = m.nci_wait_rsp_timer /\ n.disc_on = m.disc_on
    /\ n.p_resp_cback = m.p_resp_cback /\ n.asked = m.asked /\ n.report = m.report
    /\ n.p_nci_init_rsp = m.p_nci_init_rsp

(* The window opens: the timer stops, and the command that waited, if any, *)
(* is written.                                                             *)
LEMMA ReopenFacts ==
  ASSUME Typed, NEW x \in Pair, "CONTROL_REQUESTED" \notin x.nfc.flags, NEW ch \in Choice,
         x.nfc.nci_cmd_window # NCI_MAX_CMD_WINDOW
  PROVE  LET y == UpdateWindow(x, ch) IN
         /\ y \in Pair /\ SameCourse(x, y) /\ y.nfc.disc_on = x.nfc.disc_on
         /\ y.nfc.flags = x.nfc.flags
         /\ y.hal.ntf = x.hal.ntf /\ y.hal.job = x.hal.job /\ y.hal.recovered = x.hal.recovered
         /\ x.nfc.nci_cmd_xmit_q = <<>> =>
              /\ y.nfc.nci_cmd_xmit_q = <<>> /\ y.nfc.last_hdr = x.nfc.last_hdr
              /\ y.nfc.nci_cmd_window = x.nfc.nci_cmd_window + 1 /\ ~y.nfc.nci_wait_rsp_timer
              /\ y.nfc.p_nci_init_rsp = x.nfc.p_nci_init_rsp
              /\ y.hal = x.hal
         /\ \A c \in Cmd : x.nfc.nci_cmd_xmit_q = <<c>> =>
              /\ y.nfc.nci_cmd_xmit_q = <<>> /\ y.nfc.last_hdr = c.op
              /\ y.nfc.nci_cmd_window = x.nfc.nci_cmd_window
              /\ x.hal.link = "OPEN" => y.hal.pending = Append(x.hal.pending, c)
<1> DEFINE n == [x.nfc EXCEPT !.nci_wait_rsp_timer = FALSE, !.p_vsc_cback = 0,
                              !.nci_cmd_window = @ + 1]
           z == Nfc(x, n)
           v == WriteHead(z)
           y == UpdateWindow(x, ch)
<1>0. x.nfc \in ControlBlock
  BY PairFields
<1>1. x.nfc.nci_cmd_window + 1 \in 0..NCI_MAX_CMD_WINDOW /\ 0 \in 0..MaxCmds
      /\ x.nfc.nci_cmd_window \in Nat
  BY <1>0, BlockTypes, WindowAssumption, EnvTypes
<1>2. n \in ControlBlock
  BY <1>0, <1>1, FieldTypes, Zenon
<1>3. /\ n.nfc_state = x.nfc.nfc_state /\ n.p_resp_cback = x.nfc.p_resp_cback
      /\ n.asked = x.nfc.asked /\ n.report = x.nfc.report /\ n.flags = x.nfc.flags
      /\ n.nci_cmd_xmit_q = x.nfc.nci_cmd_xmit_q /\ n.last_hdr = x.nfc.last_hdr
      /\ n.disc_on = x.nfc.disc_on /\ n.nci_cmd_window = x.nfc.nci_cmd_window + 1
      /\ ~n.nci_wait_rsp_timer /\ n.p_nci_init_rsp = x.nfc.p_nci_init_rsp
  BY <1>0 DEF ControlBlock
<1>4. y = HandOver(v, ch)
  BY DEF UpdateWindow, CheckCmdQueue
<1> HIDE DEF n
<1>5. z \in Pair /\ z.nfc = n /\ z.hal = x.hal
  BY <1>2, NfcType
<1> HIDE DEF z
<1>6. SameCourse(x, z)
  BY <1>3, <1>5 DEF SameCourse, Going
<1>7. CASE x.nfc.nci_cmd_xmit_q = <<>>
  <2>1. v = z
    BY <1>3, <1>5, <1>7 DEF WriteHead
  <2>2. y = z
    BY <1>3, <1>4, <1>5, <2>1, NotHandedOver
  <2>3. \A c \in Cmd : <<c>> # <<>>
    OBVIOUS
  <2> HIDE DEF y
  <2> QED
    BY <1>3, <1>5, <1>6, <1>7, <2>2, <2>3 DEF y
<1>8. CASE x.nfc.nci_cmd_xmit_q # <<>>
  <2> DEFINE d == Head(x.nfc.nci_cmd_xmit_q)
  <2>0. n.nci_cmd_window # 0 /\ n.nci_cmd_window - 1 = x.nfc.nci_cmd_window
    BY <1>1, <1>3
  <2>a. z.nfc.nci_cmd_window # 0 /\ z.nfc.nci_cmd_xmit_q # <<>> /\ d = Head(z.nfc.nci_cmd_xmit_q)
    BY <1>3, <1>5, <1>8, <2>0
  <2>1. /\ v \in Pair /\ SameCourse(z, v)
        /\ v.nfc.flags = z.nfc.flags /\ v.nfc.disc_on = z.nfc.disc_on
        /\ v.nfc.nci_cmd_xmit_q = Tail(z.nfc.nci_cmd_xmit_q) /\ v.nfc.last_hdr = d.op
        /\ v.nfc.nci_cmd_window = z.nfc.nci_cmd_window - 1
        /\ v.hal.ntf = z.hal.ntf /\ v.hal.job = z.hal.job /\ v.hal.recovered = z.hal.recovered
        /\ z.hal.link = "OPEN" => v.hal.pending = Append(z.hal.pending, d)
    <3> HIDE DEF d
    <3> QED
      BY <1>5, <2>a, WriteFacts
  <2>2. \A c \in Cmd : x.nfc.nci_cmd_xmit_q = <<c>> => d = c /\ Tail(x.nfc.nci_cmd_xmit_q) = <<>>
    OBVIOUS
  <2> HIDE DEF v, d
  <2>3. y = v
    BY <1>3, <1>4, <1>5, <2>1, NotHandedOver
  <2>4. SameCourse(x, v)
    BY <1>6, <2>1 DEF SameCourse
  <2> HIDE DEF y
  <2> QED
    BY <1>3, <1>5, <1>8, <2>0, <2>1, <2>2, <2>3, <2>4 DEF y
<1> QED
  BY <1>7, <1>8

(* What the HAL does is the same, its counters and the mailbox aside.      *)
SameHal(g, h) ==
    /\ h.link = g.link /\ h.ready = g.ready /\ h.pending = g.pending
    /\ h.recovered = g.recovered /\ h.ntf = g.ntf /\ h.job = g.job
SamePair(x, y) == Still(x.nfc, y.nfc) /\ SameHal(x.hal, y.hal)

(* The situations depend on nothing else. *)
LEMMA SameSituation ==
  ASSUME NEW x, NEW y, SamePair(x, y), y.hal.mbox = x.hal.mbox
  PROVE  /\ IsOff(x) => IsOff(y)
         /\ IsOpening(x) => IsOpening(y)
         /\ IsStarting(x) => IsStarting(y)
         /\ IsRetrying(x) => IsRetrying(y)
         /\ IsFailing(x) => IsFailing(y)
         /\ IsPostInit(x) => IsPostInit(y)
         /\ IsIdle(x) => IsIdle(y)
         /\ IsClosing(x) => IsClosing(y)
         /\ IsAsleep(x) => IsAsleep(y)
         /\ HasFailed(x) => HasFailed(y)
<1>1. Asking(x) => Asking(y)
  BY DEF SamePair, Still, Asking, Going
<1>2. (Bare(x) => Bare(y)) /\ (Rested(x) => Rested(y)) /\ (Silent(x.hal) => Silent(y.hal))
  BY DEF SamePair, SameHal, Still, Bare, Rested, Silent
<1>3. IsOff(x) => IsOff(y)
  BY DEF SamePair, SameHal, Still, IsOff
<1>4. IsOpening(x) => IsOpening(y)
  BY <1>1, <1>2 DEF SamePair, SameHal, Still, IsOpening
<1>5. IsStarting(x) => IsStarting(y)
  <2>1. AtStart(x) => AtStart(y)
    BY <1>1, <1>2 DEF SamePair, SameHal, Still, AtStart
  <2>2. /\ \A op \in Core : InFlight(x.hal, op) => InFlight(y.hal, op)
        /\ LostRsp(x.hal) => LostRsp(y.hal)
    BY <1>2 DEF SamePair, SameHal, InFlight, LostRsp
  <2>3. ResetSent(x) => ResetSent(y)
    BY <1>2, <2>2 DEF SamePair, SameHal, Still, ResetSent, Core
  <2>4. NtfDue(x) => NtfDue(y)
    BY DEF SamePair, SameHal, Still, NtfDue
  <2>5. InitSent(x) => InitSent(y)
    BY <1>2, <2>2 DEF SamePair, Still, InitSent, Core
  <2>6. Stuck(x) => Stuck(y)
    BY <1>2 DEF SamePair, Still, Stuck
  <2> QED
    BY <2>1, <2>3, <2>4, <2>5, <2>6 DEF IsStarting
<1>6. IsFailing(x) => IsFailing(y)
  BY <1>1 DEF SamePair, SameHal, Still, IsFailing
<1>7. IsPostInit(x) => IsPostInit(y)
  BY <1>1, <1>2 DEF SamePair, SameHal, Still, IsPostInit
<1>8. IsIdle(x) => IsIdle(y)
  BY DEF SamePair, SameHal, Still, IsIdle, Pure, Going
<1>9. IsClosing(x) => IsClosing(y)
  BY <1>2 DEF SamePair, SameHal, Still, IsClosing, Going
<1>10. IsAsleep(x) => IsAsleep(y)
  BY <1>2 DEF SamePair, SameHal, Still, IsAsleep, Going
<1>11. HasFailed(x) => HasFailed(y)
  BY DEF SamePair, SameHal, Still, HasFailed
<1>12. IsRetrying(x) => IsRetrying(y)
  BY <1>1, <1>2 DEF SamePair, SameHal, Still, IsRetrying
<1> QED
  BY <1>3, <1>4, <1>5, <1>6, <1>7, <1>8, <1>9, <1>10, <1>11, <1>12

(* The request of a pair is reported once. *)
Says(x, y) == \/ y.nfc.report \in {x.nfc.report, "none"}
              \/ x.nfc.report = "none" \/ y.nfc.asked # x.nfc.asked
Told == Course(There) /\ Says(Here, There)

(* A pair that a handler returns is the next state. *)
LEMMA Reached ==
  ASSUME NEW x \in Pair, Become(x), Course(x), Says(Here, x)
  PROVE  Told
<1>1. There = x
  BY PairFields DEF There, Become
<1> QED
  BY <1>1 DEF Told

(* A step of the HAL leaves the control block alone. *)
LEMMA HalReached ==
  ASSUME NEW h, HalIs(h), Course([nfc |-> nfc_cb, hal |-> h])
  PROVE  Told
<1>1. There = [nfc |-> nfc_cb, hal |-> h]
  BY DEF There, HalIs
<1> QED
  BY <1>1 DEF Told, Says, Here

-----------------------------------------------------------------------------
(* Reading the mailbox.                                                    *)
Read(w, x) == /\ x \in Pair /\ SamePair(w, x)
              /\ w.hal.mbox # <<>> /\ x.hal.mbox = Tail(w.hal.mbox)

(* A stack that is up stays up. *)
LEMMA ReadIdle ==
  ASSUME Typed, NEW w \in Pair, IsIdle(w), NEW x, Read(w, x), NEW ch \in Choice
  PROVE  LET m == Head(w.hal.mbox)
             y == IF m.mt = "EVT" THEN HandleHalEvt(x, m, ch) ELSE ProcessEvent(x, m, ch)
         IN  y \in Pair /\ IsIdle(y) /\ y.nfc.report = w.nfc.report
<1> DEFINE m == Head(w.hal.mbox)
           y == IF m.mt = "EVT" THEN HandleHalEvt(x, m, ch) ELSE ProcessEvent(x, m, ch)
<1>1. x \in Pair /\ w.hal.mbox # <<>> /\ w.hal.mbox \in Seq(Message)
  BY PairFields, HalTypes DEF Read
<1>2. m \in Message /\ Harmless(m) /\ AllHarmless(x.hal.mbox)
  BY <1>1, HarmlessSeq DEF IsIdle, Read
<1>3. IsIdle(x) /\ x.nfc.nfc_state = "IDLE" /\ x.nfc.report = w.nfc.report
  <2>1. (Pure(w) => Pure(x)) /\ Going(x) = Going(w)
    BY DEF Read, SamePair, SameHal, Still, Pure, Going
  <2> QED
    BY <1>2, <2>1 DEF Read, SamePair, SameHal, Still, IsIdle
<1> HIDE DEF m
<1>4. Tame(x, y)
  BY <1>1, <1>2, <1>3, TameHalEvt, TameProcess
<1> HIDE DEF y
<1>5. y \in Pair /\ IsIdle(y) /\ y.nfc.report = x.nfc.report
  BY <1>3, <1>4, TameIdle DEF Tame, SameCourse
<1> QED
  BY <1>3, <1>5 DEF y, m

(* The stack still starts. *)
LEMMA StartKept ==
  ASSUME NEW x, AtStart(x), NEW y, SameCourse(x, y), y.nfc.disc_on = x.nfc.disc_on,
         y.nfc.flags = x.nfc.flags, y.nfc.nci_cmd_xmit_q = <<>>, y.hal.job = x.hal.job
  PROVE  AtStart(y)
<1>1. Asking(y)
  BY DEF AtStart, SameCourse, Asking
<1> QED
  BY <1>1 DEF AtStart, SameCourse, Bare

LEMMA StartNfc ==
  ASSUME NEW x \in Pair, AtStart(x), NEW n \in ControlBlock,
         n.nfc_state = x.nfc.nfc_state, n.flags = x.nfc.flags, n.asked = x.nfc.asked,
         n.report = x.nfc.report, n.p_resp_cback = x.nfc.p_resp_cback,
         n.disc_on = x.nfc.disc_on, n.nci_cmd_xmit_q = x.nfc.nci_cmd_xmit_q
  PROVE  LET y == Nfc(x, n) IN y \in Pair /\ AtStart(y) /\ y.hal = x.hal /\ y.nfc = n
<1> DEFINE y == Nfc(x, n)
<1>1. y \in Pair /\ y.hal = x.hal /\ y.nfc = n
  BY NfcType
<1> HIDE DEF y
<1>2. SameCourse(x, y) /\ y.nfc.nci_cmd_xmit_q = <<>>
  BY <1>1 DEF SameCourse, Going, AtStart, Bare
<1>3. AtStart(y)
  BY <1>1, <1>2, StartKept
<1> QED
  BY <1>1, <1>3 DEF y

(* The answer was taken and nothing was sent: the window is open.          *)
Cleared(x, y) ==
    /\ y \in Pair /\ AtStart(y) /\ y.hal = x.hal
    /\ ~y.nfc.nci_wait_rsp_timer /\ y.nfc.nci_cmd_window > 0

LEMMA ClearedStuck ==
  ASSUME NEW x, NEW y, Cleared(x, y), Silent(x.hal), x.hal.mbox = <<>>
  PROVE  IsStarting(y)
BY DEF Cleared, IsStarting, Stuck

LEMMA OpenedUp ==
  ASSUME Typed, NEW x \in Pair, AtStart(x), NEW ch \in Choice,
         x.nfc.nci_cmd_window # NCI_MAX_CMD_WINDOW \/ ~x.nfc.nci_wait_rsp_timer
  PROVE  LET y == UpdateWindow(x, ch) IN Cleared(x, y) /\ y.nfc.last_hdr = x.nfc.last_hdr
<1> DEFINE y == UpdateWindow(x, ch)
<1>0. x.nfc.nci_cmd_window \in 0..NCI_MAX_CMD_WINDOW /\ NCI_MAX_CMD_WINDOW > 0
  BY PairFields, BlockTypes, WindowAssumption
<1>1. CASE x.nfc.nci_cmd_window = NCI_MAX_CMD_WINDOW
  <2>1. y = x
    BY <1>1 DEF UpdateWindow
  <2> QED
    BY <1>0, <1>1, <2>1 DEF Cleared
<1>2. CASE x.nfc.nci_cmd_window # NCI_MAX_CMD_WINDOW
  <2>0. "CONTROL_REQUESTED" \notin x.nfc.flags /\ x.hal.link = "OPEN" /\ x.nfc.nci_cmd_xmit_q = <<>>
    BY DEF AtStart, Bare
  <2>1. /\ y \in Pair /\ SameCourse(x, y) /\ y.nfc.disc_on = x.nfc.disc_on
        /\ y.nfc.flags = x.nfc.flags /\ y.nfc.nci_cmd_xmit_q = <<>>
        /\ y.nfc.nci_cmd_window = x.nfc.nci_cmd_window + 1 /\ ~y.nfc.nci_wait_rsp_timer
        /\ y.hal = x.hal /\ y.nfc.last_hdr = x.nfc.last_hdr
    BY <1>2, <2>0, ReopenFacts
  <2> HIDE DEF y
  <2>2. AtStart(y)
    BY <2>1, StartKept
  <2>3. y.nfc.nci_cmd_window > 0
    BY <1>0, <2>1
  <2> QED
    BY <2>1, <2>2, <2>3 DEF Cleared, y
<1> QED
  BY <1>1, <1>2

(* A raw vendor command that an earlier start left unanswered takes the    *)
(* response.                                                               *)
LEMMA RawAtStart ==
  ASSUME Typed, NEW x \in Pair, AtStart(x), NEW m \in Message, NEW ch \in Choice,
         x.nfc.nci_cmd_window # NCI_MAX_CMD_WINDOW \/ ~x.nfc.nci_wait_rsp_timer
  PROVE  Cleared(x, RawVsRsp(x, m, ch))
<1> DEFINE k == [to |-> x.nfc.p_vsc_cback, answers |-> m.id]
           l == [x.nfc EXCEPT !.back = k]
           v == VendorCallback(x, m)
           n == [v.nfc EXCEPT !.p_vsc_cback = 0, !.rawVsCbflag = FALSE]
           z == UpdateWindow(Nfc(v, n), ch)
           o == [z.nfc EXCEPT !.rawVsCbflag = FALSE]
<1>1. RawVsRsp(x, m, ch) = Nfc(z, o)
  BY DEF RawVsRsp
<1>2. /\ v \in Pair /\ AtStart(v) /\ v.hal = x.hal
      /\ v.nfc.nci_cmd_window = x.nfc.nci_cmd_window
      /\ v.nfc.nci_wait_rsp_timer = x.nfc.nci_wait_rsp_timer
  <2>0. x.nfc \in ControlBlock
    BY PairFields
  <2>1. k \in [to : 0..MaxCmds, answers : 0..MaxCmds]
    BY <2>0, BlockTypes, MessageTypes
  <2> HIDE DEF k
  <2>2. l \in ControlBlock
    BY <2>0, <2>1, FieldTypes, Zenon
  <2>3. /\ l.nfc_state = x.nfc.nfc_state /\ l.flags = x.nfc.flags /\ l.asked = x.nfc.asked
        /\ l.report = x.nfc.report /\ l.p_resp_cback = x.nfc.p_resp_cback
        /\ l.disc_on = x.nfc.disc_on /\ l.nci_cmd_xmit_q = x.nfc.nci_cmd_xmit_q
        /\ l.nci_cmd_window = x.nfc.nci_cmd_window
        /\ l.nci_wait_rsp_timer = x.nfc.nci_wait_rsp_timer
    BY <2>0 DEF ControlBlock
  <2>4. v = x \/ v = Nfc(x, l)
    BY DEF VendorCallback, k
  <2> HIDE DEF l, v
  <2>5. LET y == Nfc(x, l) IN y \in Pair /\ AtStart(y) /\ y.hal = x.hal /\ y.nfc = l
    BY <2>2, <2>3, StartNfc
  <2> QED
    BY <2>3, <2>4, <2>5
<1> HIDE DEF v
<1>3. v.nfc \in ControlBlock /\ 0 \in 0..MaxCmds
  BY <1>2, PairFields, EnvTypes
<1>4. n \in ControlBlock
  BY <1>3, FieldTypes, Zenon
<1>5. /\ n.nfc_state = v.nfc.nfc_state /\ n.flags = v.nfc.flags /\ n.asked = v.nfc.asked
      /\ n.report = v.nfc.report /\ n.p_resp_cback = v.nfc.p_resp_cback
      /\ n.disc_on = v.nfc.disc_on /\ n.nci_cmd_xmit_q = v.nfc.nci_cmd_xmit_q
      /\ n.nci_cmd_window = v.nfc.nci_cmd_window
      /\ n.nci_wait_rsp_timer = v.nfc.nci_wait_rsp_timer
  BY <1>3 DEF ControlBlock
<1> HIDE DEF n
<1>6. LET y == Nfc(v, n) IN y \in Pair /\ AtStart(y) /\ y.hal = v.hal /\ y.nfc = n
  BY <1>2, <1>4, <1>5, StartNfc
<1>7. Cleared(Nfc(v, n), z)
  BY <1>2, <1>5, <1>6, OpenedUp
<1> HIDE DEF z
<1>8. z.nfc \in ControlBlock
  BY <1>7, PairFields DEF Cleared
<1>9. o \in ControlBlock
  BY <1>8, FieldTypes, Zenon
<1>10. /\ o.nfc_state = z.nfc.nfc_state /\ o.flags = z.nfc.flags /\ o.asked = z.nfc.asked
       /\ o.report = z.nfc.report /\ o.p_resp_cback = z.nfc.p_resp_cback
       /\ o.disc_on = z.nfc.disc_on /\ o.nci_cmd_xmit_q = z.nfc.nci_cmd_xmit_q
       /\ o.nci_cmd_window = z.nfc.nci_cmd_window
       /\ o.nci_wait_rsp_timer = z.nfc.nci_wait_rsp_timer
  BY <1>8 DEF ControlBlock
<1> HIDE DEF o
<1>11. LET y == Nfc(z, o) IN y \in Pair /\ AtStart(y) /\ y.hal = z.hal /\ y.nfc = o
  BY <1>7, <1>9, <1>10, StartNfc DEF Cleared
<1> QED
  BY <1>1, <1>2, <1>6, <1>7, <1>10, <1>11 DEF Cleared

(* A field of no interest at a start is set. *)
LEMMA LastCleared ==
  ASSUME NEW x \in Pair
  PROVE  LET y == Nfc(x, [x.nfc EXCEPT !.last_hdr = "NONE"]) IN
         /\ y \in Pair /\ y.hal = x.hal /\ SameCourse(x, y) /\ y.nfc.last_hdr = "NONE"
         /\ y.nfc.disc_on = x.nfc.disc_on /\ y.nfc.flags = x.nfc.flags
         /\ y.nfc.nci_cmd_xmit_q = x.nfc.nci_cmd_xmit_q
         /\ y.nfc.nci_cmd_window = x.nfc.nci_cmd_window
         /\ y.nfc.nci_wait_rsp_timer = x.nfc.nci_wait_rsp_timer
         /\ y.nfc.p_nci_init_rsp = x.nfc.p_nci_init_rsp
<1> DEFINE n == [x.nfc EXCEPT !.last_hdr = "NONE"]
           y == Nfc(x, n)
<1>0. x.nfc \in ControlBlock
  BY PairFields
<1>1. n \in ControlBlock
  BY <1>0, FieldTypes, Zenon
<1>2. /\ n.nfc_state = x.nfc.nfc_state /\ n.flags = x.nfc.flags /\ n.asked = x.nfc.asked
      /\ n.report = x.nfc.report /\ n.p_resp_cback = x.nfc.p_resp_cback
      /\ n.disc_on = x.nfc.disc_on /\ n.nci_cmd_xmit_q = x.nfc.nci_cmd_xmit_q
      /\ n.nci_cmd_window = x.nfc.nci_cmd_window /\ n.last_hdr = "NONE"
      /\ n.nci_wait_rsp_timer = x.nfc.nci_wait_rsp_timer
      /\ n.p_nci_init_rsp = x.nfc.p_nci_init_rsp
  BY <1>0 DEF ControlBlock
<1> HIDE DEF n
<1>3. y \in Pair /\ y.hal = x.hal /\ y.nfc = n
  BY <1>1, NfcType
<1> HIDE DEF y
<1>4. SameCourse(x, y)
  BY <1>2, <1>3 DEF SameCourse, Going
<1> QED
  BY <1>2, <1>3, <1>4, Zenon DEF y, n

(* CORE_RESET is done: CORE_INIT is written, or the notification is waited *)
(* for, or no buffer was left.                                             *)
LEMMA ResetAnswered ==
  ASSUME Typed, NEW x \in Pair, AtStart(x), NEW m, m = Rsp(Internal("CORE_RESET"), TRUE),
         x.nfc.last_hdr = "CORE_RESET", x.nfc.nci_cmd_window < NCI_MAX_CMD_WINDOW,
         x.hal.pending = <<>>, x.hal.recovered = <<>>,
         NciVersion = "1_0" => ~x.hal.ntf /\ x.hal.mbox = <<>>, NEW ch \in Choice
  PROVE  LET y == ProcRsp(x, m, ch) IN
         Cleared(x, y) \/ (y \in Pair /\ IsStarting(y) /\ y.nfc.report = x.nfc.report)
<1> DEFINE z == ProcResetRsp(x, m, ch)
           u == Nfc(z, [z.nfc EXCEPT !.last_hdr = "NONE"])
           y == ProcRsp(x, m, ch)
<1>0. /\ x.nfc \in ControlBlock /\ x.nfc.nci_cmd_window \in 0..NCI_MAX_CMD_WINDOW
      /\ x.nfc.nci_cmd_window # NCI_MAX_CMD_WINDOW /\ NCI_MAX_CMD_WINDOW \in Nat
      /\ NciVersion \in {"1_0", "2_0"}
  BY PairFields, BlockTypes, WindowAssumption, EnvTypes
<1>1. y = UpdateWindow(u, ch)
  <2>1. m.op = "CORE_RESET"
    BY DEF Rsp, Internal
  <2>2. "CORE_RESET" \notin UserCmds
    BY EnvTypes
  <2> QED
    BY <2>1, <2>2 DEF ProcRsp
<1>m. m.ok
  BY DEF Rsp
<1>2. ASSUME z \in Pair, AtStart(z), z.hal = x.hal, z.nfc.nci_cmd_window = x.nfc.nci_cmd_window
      PROVE  Cleared(x, y)
  <2> HIDE DEF z
  <2>1. /\ u \in Pair /\ SameCourse(z, u) /\ u.hal = z.hal
        /\ u.nfc.disc_on = z.nfc.disc_on /\ u.nfc.flags = z.nfc.flags
        /\ u.nfc.nci_cmd_xmit_q = z.nfc.nci_cmd_xmit_q
        /\ u.nfc.nci_cmd_window = z.nfc.nci_cmd_window
    BY <1>2, LastCleared
  <2> HIDE DEF u
  <2>2. AtStart(u)
    BY <1>2, <2>1, StartKept DEF AtStart, Bare
  <2>3. Cleared(u, y)
    BY <1>0, <1>1, <1>2, <2>1, <2>2, OpenedUp
  <2> QED
    BY <1>2, <2>1, <2>3 DEF Cleared
<1>3. CASE NciVersion = "2_0"
  <2> DEFINE n == [x.nfc EXCEPT !.nci_wait_rsp_timer = TRUE]
  <2>1. n \in ControlBlock
    BY <1>0, FieldTypes, Zenon
  <2>2. /\ n.nfc_state = x.nfc.nfc_state /\ n.flags = x.nfc.flags /\ n.asked = x.nfc.asked
        /\ n.report = x.nfc.report /\ n.p_resp_cback = x.nfc.p_resp_cback
        /\ n.disc_on = x.nfc.disc_on /\ n.nci_cmd_xmit_q = x.nfc.nci_cmd_xmit_q
        /\ n.nci_cmd_window = x.nfc.nci_cmd_window
    BY <1>0 DEF ControlBlock
  <2>3. z = Nfc(x, n)
    BY <1>3, <1>m DEF ProcResetRsp
  <2> HIDE DEF n, z
  <2>4. z \in Pair /\ AtStart(z) /\ z.hal = x.hal /\ z.nfc = n
    BY <2>1, <2>2, <2>3, StartNfc
  <2> QED
    BY <1>2, <2>2, <2>4
<1>4. CASE NciVersion = "1_0"
  <2> DEFINE n == [x.nfc EXCEPT !.nci_version = "1_0"]
             v == Nfc(x, n)
             c == Internal("CORE_INIT")
  <2>1. n \in ControlBlock
    BY <1>0, FieldTypes, Zenon
  <2>2. /\ n.nfc_state = x.nfc.nfc_state /\ n.flags = x.nfc.flags /\ n.asked = x.nfc.asked
        /\ n.report = x.nfc.report /\ n.p_resp_cback = x.nfc.p_resp_cback
        /\ n.disc_on = x.nfc.disc_on /\ n.nci_cmd_xmit_q = x.nfc.nci_cmd_xmit_q
        /\ n.nci_cmd_window = x.nfc.nci_cmd_window
    BY <1>0 DEF ControlBlock
  <2>3. z = Send(v, "CORE_INIT", ch)
    BY <1>4, <1>m DEF ProcResetRsp
  <2>4. /\ c \in Cmd /\ c.op = "CORE_INIT" /\ c = Internal("CORE_INIT")
        /\ "CORE_INIT" \in StackCmd
    BY InternalType DEF StackCmd, Internal
  <2> HIDE DEF n, c, z
  <2>5. v \in Pair /\ AtStart(v) /\ v.hal = x.hal /\ v.nfc = n
    BY <2>1, <2>2, StartNfc
  <2> HIDE DEF v
  <2>6. /\ z \in Pair /\ SameCourse(v, z) /\ z.nfc.disc_on = v.nfc.disc_on
        /\ z.nfc.flags = v.nfc.flags
        /\ z.hal.ntf = v.hal.ntf /\ z.hal.job = v.hal.job /\ z.hal.recovered = v.hal.recovered
        /\ ~ch.buf => z = v
        /\ (ch.buf /\ v.nfc.nci_cmd_window # 0) =>
             /\ z.nfc.nci_cmd_xmit_q = <<>> /\ z.nfc.last_hdr = "CORE_INIT"
             /\ z.nfc.nci_cmd_window = v.nfc.nci_cmd_window - 1
             /\ z.hal.pending = Append(v.hal.pending, c)
        /\ (ch.buf /\ v.nfc.nci_cmd_window = 0) =>
             /\ z.nfc.nci_cmd_xmit_q = <<c>> /\ z.nfc.last_hdr = v.nfc.last_hdr
             /\ z.nfc.nci_cmd_window = 0 /\ z.hal = v.hal
    BY <2>3, <2>4, <2>5, SentFacts
  <2>7. CASE ~ch.buf
    BY <1>2, <2>2, <2>5, <2>6, <2>7
  <2>8. /\ u \in Pair /\ SameCourse(z, u) /\ u.hal = z.hal /\ u.nfc.last_hdr = "NONE"
        /\ u.nfc.disc_on = z.nfc.disc_on /\ u.nfc.flags = z.nfc.flags
        /\ u.nfc.nci_cmd_xmit_q = z.nfc.nci_cmd_xmit_q
        /\ u.nfc.nci_cmd_window = z.nfc.nci_cmd_window
    BY <2>6, LastCleared
  <2> HIDE DEF u
  <2>9. SameCourse(v, u)
    BY <2>6, <2>8 DEF SameCourse
  <2>10. Append(x.hal.pending, c) = <<Internal("CORE_INIT")>>
    BY DEF c
  <2>11. CASE ch.buf /\ v.nfc.nci_cmd_window # 0
    <3>1. AtStart(u)
      BY <2>5, <2>6, <2>8, <2>9, <2>11, StartKept
    <3>2. u.nfc.nci_cmd_window # NCI_MAX_CMD_WINDOW
      BY <1>0, <2>2, <2>5, <2>6, <2>8, <2>11
    <3>3. Cleared(u, y) /\ y.nfc.last_hdr = "NONE"
      BY <1>1, <2>8, <3>1, <3>2, OpenedUp
    <3> HIDE DEF y
    <3>4. /\ y.hal.mbox = <<>> /\ ~y.hal.ntf /\ y.hal.recovered = <<>>
          /\ y.hal.pending = <<Internal("CORE_INIT")>>
      BY <1>4, <2>5, <2>6, <2>8, <2>9, <2>10, <2>11, <3>3 DEF Cleared, SameCourse
    <3>5. IsStarting(y)
      BY <3>3, <3>4 DEF Cleared, IsStarting, InitSent, InFlight
    <3>6. y.nfc.report = x.nfc.report
      BY <3>3 DEF Cleared, AtStart, Asking
    <3> QED
      BY <3>3, <3>5, <3>6 DEF Cleared, y
  <2>12. CASE ch.buf /\ v.nfc.nci_cmd_window = 0
    <3>1. "CONTROL_REQUESTED" \notin u.nfc.flags /\ u.hal.link = "OPEN"
      BY <2>5, <2>6, <2>8 DEF AtStart, Bare, SameCourse
    <3>2. u.nfc.nci_cmd_window # NCI_MAX_CMD_WINDOW /\ u.nfc.nci_cmd_xmit_q = <<c>>
      BY <1>0, <2>2, <2>5, <2>6, <2>8, <2>12
    <3> HIDE DEF y
    <3>3. /\ y \in Pair /\ SameCourse(u, y) /\ y.nfc.disc_on = u.nfc.disc_on
          /\ y.nfc.flags = u.nfc.flags
          /\ y.hal.ntf = u.hal.ntf /\ y.hal.job = u.hal.job /\ y.hal.recovered = u.hal.recovered
          /\ y.nfc.nci_cmd_xmit_q = <<>> /\ y.nfc.last_hdr = "CORE_INIT"
          /\ y.nfc.nci_cmd_window = u.nfc.nci_cmd_window
          /\ y.hal.pending = Append(u.hal.pending, c)
      BY <1>1, <2>4, <2>8, <3>1, <3>2, ReopenFacts
    <3>4. SameCourse(v, y)
      BY <2>9, <3>3 DEF SameCourse
    <3>5. AtStart(y)
      BY <2>5, <2>6, <2>8, <3>3, <3>4, StartKept
    <3>6. /\ y.hal.mbox = <<>> /\ ~y.hal.ntf /\ y.hal.recovered = <<>>
          /\ y.hal.pending = <<Internal("CORE_INIT")>>
      <4>1. y.hal.mbox = v.hal.mbox
        BY <3>4 DEF SameCourse
      <4>2. u.hal = x.hal
        BY <2>5, <2>6, <2>8, <2>12
      <4> QED
        BY <1>4, <2>5, <2>10, <3>3, <4>1, <4>2
    <3>7. y.nfc.nci_cmd_window < NCI_MAX_CMD_WINDOW
      BY <1>0, <2>2, <2>5, <2>6, <2>8, <2>12, <3>3
    <3>8. IsStarting(y) /\ y.nfc.report = x.nfc.report
      BY <3>3, <3>5, <3>6, <3>7 DEF IsStarting, InitSent, InFlight, AtStart, Asking
    <3> QED
      BY <3>3, <3>8 DEF y
  <2> QED
    BY <2>7, <2>11, <2>12
<1> QED
  BY <1>0, <1>3, <1>4

(* The notification of the NFCC's reset: CORE_INIT is written. *)
LEMMA ResetNotified ==
  ASSUME Typed, NEW x \in Pair, AtStart(x), NEW m, m = Ntf("CORE_RESET", TRUE),
         x.nfc.nci_cmd_window > 0, Silent(x.hal), x.hal.mbox = <<>>, NEW ch \in Choice
  PROVE  LET y == ProcResetNtf(x, m, ch) IN
         y \in Pair /\ IsStarting(y) /\ y.nfc.report = x.nfc.report
<1> DEFINE n == [x.nfc EXCEPT !.nci_wait_rsp_timer = FALSE, !.nci_version = "2_0"]
           v == Nfc(x, n)
           c == Internal("CORE_INIT")
           y == ProcResetNtf(x, m, ch)
<1>0. /\ x.nfc \in ControlBlock /\ x.nfc.nci_cmd_window \in 0..NCI_MAX_CMD_WINDOW
      /\ NCI_MAX_CMD_WINDOW \in Nat
  BY PairFields, BlockTypes, WindowAssumption
<1>1. n \in ControlBlock
  BY <1>0, FieldTypes, Zenon
<1>2. /\ n.nfc_state = x.nfc.nfc_state /\ n.flags = x.nfc.flags /\ n.asked = x.nfc.asked
      /\ n.report = x.nfc.report /\ n.p_resp_cback = x.nfc.p_resp_cback
      /\ n.disc_on = x.nfc.disc_on /\ n.nci_cmd_xmit_q = x.nfc.nci_cmd_xmit_q
      /\ n.nci_cmd_window = x.nfc.nci_cmd_window /\ ~n.nci_wait_rsp_timer
  BY <1>0 DEF ControlBlock
<1>3. y = Send(v, "CORE_INIT", ch)
  <2>1. m.ok
    BY DEF Ntf
  <2> QED
    BY <2>1 DEF ProcResetNtf
<1>4. /\ c \in Cmd /\ c.op = "CORE_INIT" /\ c = Internal("CORE_INIT")
      /\ "CORE_INIT" \in StackCmd
  BY InternalType DEF StackCmd, Internal
<1> HIDE DEF n, c, y
<1>5. v \in Pair /\ AtStart(v) /\ v.hal = x.hal /\ v.nfc = n
  BY <1>1, <1>2, StartNfc
<1> HIDE DEF v
<1>6. /\ y \in Pair /\ SameCourse(v, y) /\ y.nfc.disc_on = v.nfc.disc_on
      /\ y.nfc.flags = v.nfc.flags
      /\ y.hal.ntf = v.hal.ntf /\ y.hal.job = v.hal.job /\ y.hal.recovered = v.hal.recovered
      /\ ~ch.buf => y = v
      /\ ch.buf =>
           /\ y.nfc.nci_cmd_xmit_q = <<>> /\ y.nfc.last_hdr = "CORE_INIT"
           /\ y.nfc.nci_cmd_window = v.nfc.nci_cmd_window - 1
           /\ y.hal.pending = Append(v.hal.pending, c)
  <2>1. v.nfc.nci_cmd_window # 0
    BY <1>2, <1>5
  <2>2. LET k == Send(v, "CORE_INIT", ch) IN
        /\ k \in Pair /\ SameCourse(v, k) /\ k.nfc.disc_on = v.nfc.disc_on
        /\ k.nfc.flags = v.nfc.flags
        /\ k.hal.ntf = v.hal.ntf /\ k.hal.job = v.hal.job /\ k.hal.recovered = v.hal.recovered
        /\ ~ch.buf => k = v
        /\ (ch.buf /\ v.nfc.nci_cmd_window # 0) =>
             /\ k.nfc.nci_cmd_xmit_q = <<>> /\ k.nfc.last_hdr = "CORE_INIT"
             /\ k.nfc.nci_cmd_window = v.nfc.nci_cmd_window - 1
             /\ k.hal.pending = Append(v.hal.pending, Internal("CORE_INIT"))
    BY <1>4, <1>5, SentFacts
  <2> QED
    BY <1>3, <1>4, <2>1, <2>2
<1>7. CASE ~ch.buf
  <2>1. IsStarting(v)
    BY <1>2, <1>5 DEF IsStarting, Stuck
  <2> QED
    BY <1>2, <1>5, <1>6, <1>7, <2>1 DEF y
<1>8. CASE ch.buf
  <2>1. AtStart(y)
    BY <1>5, <1>6, <1>8, StartKept
  <2>2. y.nfc.nci_cmd_window < NCI_MAX_CMD_WINDOW
    BY <1>0, <1>2, <1>5, <1>6, <1>8
  <2>3. y.hal.mbox = <<>> /\ y.nfc.report = x.nfc.report
    <3>1. y.hal.mbox = v.hal.mbox /\ y.nfc.report = v.nfc.report
      BY <1>6 DEF SameCourse
    <3> QED
      BY <1>2, <1>5, <3>1
  <2>4. Append(<<>>, c) = <<Internal("CORE_INIT")>>
    BY <1>4
  <2>5. y.hal.pending = <<Internal("CORE_INIT")>> /\ ~y.hal.ntf /\ y.hal.recovered = <<>>
    BY <1>5, <1>6, <1>8, <2>4 DEF Silent
  <2>6. IsStarting(y)
    BY <1>6, <1>8, <2>1, <2>2, <2>3, <2>5 DEF IsStarting, InitSent, InFlight
  <2> QED
    BY <1>6, <2>3, <2>6 DEF y
<1> QED
  BY <1>7, <1>8, Zenon

(* What is left of a refused CORE_INIT that ends the start. *)
LEMMA InitRefused ==
  ASSUME Typed, NEW x \in Pair, AtStart(x), Silent(x.hal), x.hal.mbox = <<>>, NEW ch \in Choice,
         "sleep" \notin env.calls, x.nfc.nci_cmd_window < NCI_MAX_CMD_WINDOW,
         NEW z \in Pair, z.nfc = x.nfc,
         z = Enabled(x, FALSE, ch) \/ z.hal = [x.hal EXCEPT !.ready = TRUE]
  PROVE  LET y == UpdateWindow(Nfc(z, [z.nfc EXCEPT !.last_hdr = "NONE"]), ch) IN
         y \in Pair /\ (IsFailing(y) \/ IsRetrying(y)) /\ y.nfc.report = x.nfc.report
<1> DEFINE u == Nfc(z, [z.nfc EXCEPT !.last_hdr = "NONE"])
           y == UpdateWindow(u, ch)
<1>0. /\ x.nfc.nci_cmd_window \in 0..NCI_MAX_CMD_WINDOW /\ NCI_MAX_CMD_WINDOW \in Nat
      /\ x.hal \in HalBlock /\ x.nfc.nfc_state = "CORE_INIT" /\ Asking(x) /\ Bare(x)
      /\ x.nfc.report = "none"
  BY PairFields, BlockTypes, WindowAssumption DEF AtStart, Asking
<1>1. /\ u \in Pair /\ u.hal = z.hal /\ SameCourse(z, u)
      /\ u.nfc.disc_on = z.nfc.disc_on /\ u.nfc.flags = z.nfc.flags
      /\ u.nfc.nci_cmd_xmit_q = z.nfc.nci_cmd_xmit_q
      /\ u.nfc.nci_cmd_window = z.nfc.nci_cmd_window
  BY LastCleared
<1> HIDE DEF u
<1>2. /\ "CONTROL_REQUESTED" \notin u.nfc.flags /\ u.nfc.nci_cmd_xmit_q = <<>>
      /\ u.nfc.nci_cmd_window # NCI_MAX_CMD_WINDOW
  BY <1>0, <1>1 DEF Bare
<1>3. /\ y \in Pair /\ SameCourse(u, y) /\ y.nfc.disc_on = u.nfc.disc_on
      /\ y.nfc.flags = u.nfc.flags /\ y.nfc.nci_cmd_xmit_q = <<>>
      /\ y.nfc.nci_cmd_window = u.nfc.nci_cmd_window + 1 /\ ~y.nfc.nci_wait_rsp_timer
      /\ y.hal = u.hal
  BY <1>1, <1>2, ReopenFacts
<1> HIDE DEF y
<1>4. /\ y.nfc.nfc_state = "CORE_INIT" /\ Asking(y) /\ Bare(y) /\ y.nfc.nci_cmd_window > 0
      /\ ~y.nfc.nci_wait_rsp_timer /\ y.hal = z.hal /\ y.nfc.report = x.nfc.report
  <2>1. SameCourse(z, y)
    BY <1>1, <1>3 DEF SameCourse
  <2>2. Asking(y)
    BY <1>0, <2>1 DEF Asking, SameCourse, Going
  <2>3. Bare(y)
    BY <1>0, <1>1, <1>3 DEF Bare
  <2>4. y.nfc.nci_cmd_window > 0
    BY <1>0, <1>1, <1>3
  <2> QED
    BY <1>0, <1>1, <1>3, <2>1, <2>2, <2>3, <2>4 DEF SameCourse
<1>5. CASE z = Enabled(x, FALSE, ch)
  <2>1. "RESTARTING" \notin x.nfc.flags
    BY <1>0 DEF Asking, Going, Reasons
  <2>2. z = HalClose(x)
    BY <1>0, <1>5, <2>1 DEF Enabled
  <2>3. z.hal.mbox = x.hal.mbox /\ z.hal.ready = x.hal.ready /\ z.hal.link = "CLOSING"
    BY <2>2, CloseFacts
  <2>4. IsFailing(y)
    BY <1>4, <2>3 DEF IsFailing, AtStart
  <2> QED
    BY <1>3, <1>4, <2>4 DEF y, u
<1>6. CASE z.hal = [x.hal EXCEPT !.ready = TRUE]
  <2>1. /\ z.hal.ready /\ z.hal.link = x.hal.link /\ z.hal.job = x.hal.job
        /\ z.hal.mbox = x.hal.mbox /\ z.hal.pending = x.hal.pending
        /\ z.hal.recovered = x.hal.recovered /\ z.hal.ntf = x.hal.ntf
    BY <1>0, <1>6 DEF HalBlock
  <2>2. IsRetrying(y)
    BY <1>4, <2>1 DEF IsRetrying, AtStart, Silent
  <2> QED
    BY <1>3, <1>4, <2>2 DEF y, u
<1> QED
  BY <1>5, <1>6

(* The response to CORE_INIT: the HAL is told that the core is up, the     *)
(* start fails or begins again, or the response is dropped.                *)
LEMMA InitAnswered ==
  ASSUME Typed, NEW x \in Pair, AtStart(x), NEW ok \in BOOLEAN,
         NEW m, m = Rsp(Internal("CORE_INIT"), ok), ok \/ "sleep" \notin env.calls,
         \/ x.nfc.last_hdr = "CORE_INIT" /\ x.nfc.nci_cmd_window < NCI_MAX_CMD_WINDOW
         \/ x.nfc.last_hdr = "NONE" /\ ~x.nfc.nci_wait_rsp_timer,
         Silent(x.hal), x.hal.mbox = <<>>, NEW ch \in Choice
  PROVE  LET y == ProcRsp(x, m, ch) IN
         /\ y \in Pair /\ y.nfc.report = x.nfc.report
         /\ IsStarting(y) \/ IsPostInit(y) \/ IsFailing(y) \/ IsRetrying(y)
<1> DEFINE z == ProcInitRsp(x, m, ch)
           u == Nfc(z, [z.nfc EXCEPT !.last_hdr = "NONE"])
           y == ProcRsp(x, m, ch)
<1>0. /\ x.nfc \in ControlBlock /\ x.nfc.nci_cmd_window \in 0..NCI_MAX_CMD_WINDOW
      /\ NCI_MAX_CMD_WINDOW \in Nat /\ x.hal \in HalBlock
  BY PairFields, BlockTypes, WindowAssumption
<1>1. m.op = "CORE_INIT" /\ m.ok = ok
  BY DEF Rsp, Internal
<1>2. "CORE_INIT" \notin UserCmds
  BY EnvTypes
<1>3. CASE x.nfc.last_hdr = "NONE" /\ ~x.nfc.nci_wait_rsp_timer
  <2>1. y = x
    BY <1>1, <1>2, <1>3 DEF ProcRsp
  <2>2. IsStarting(x)
    BY <1>3 DEF IsStarting, Stuck
  <2> QED
    BY <2>1, <2>2
<1>4. ASSUME x.nfc.last_hdr = "CORE_INIT", x.nfc.nci_cmd_window < NCI_MAX_CMD_WINDOW
      PROVE  y = UpdateWindow(u, ch)
  BY <1>1, <1>2, <1>4 DEF ProcRsp
<1>5. CASE x.nfc.last_hdr = "CORE_INIT" /\ x.nfc.nci_cmd_window < NCI_MAX_CMD_WINDOW /\ ~ok
  <2>1. z \in Pair
    BY InitRspType
  <2>2. z = Enabled(x, FALSE, ch) \/ z = Hal(x, [x.hal EXCEPT !.ready = TRUE])
    BY <1>1, <1>5 DEF ProcInitRsp
  <2>3. "RESTARTING" \notin x.nfc.flags /\ x.nfc.nfc_state = "CORE_INIT"
    BY <1>5 DEF AtStart, Asking, Going, Reasons
  <2>4. z.nfc = x.nfc /\ (z = Enabled(x, FALSE, ch) \/ z.hal = [x.hal EXCEPT !.ready = TRUE])
    <3>1. Enabled(x, FALSE, ch) = HalClose(x)
      BY <2>3 DEF Enabled
    <3>2. HalClose(x).nfc = x.nfc
      BY CloseFacts
    <3> HIDE DEF z
    <3>3. CASE z = Enabled(x, FALSE, ch)
      BY <3>1, <3>2, <3>3
    <3>4. CASE z = Hal(x, [x.hal EXCEPT !.ready = TRUE])
      BY <3>4 DEF Hal
    <3> QED
      BY <2>2, <3>3, <3>4
  <2>5. y = UpdateWindow(u, ch)
    BY <1>4, <1>5
  <2> HIDE DEF z
  <2>7. x.nfc.nci_cmd_window < NCI_MAX_CMD_WINDOW /\ "sleep" \notin env.calls
    BY <1>5
  <2>8. LET w == UpdateWindow(Nfc(z, [z.nfc EXCEPT !.last_hdr = "NONE"]), ch) IN
        w \in Pair /\ (IsFailing(w) \/ IsRetrying(w)) /\ w.nfc.report = x.nfc.report
    BY <2>1, <2>4, <2>7, InitRefused
  <2>6. y \in Pair /\ (IsFailing(y) \/ IsRetrying(y)) /\ y.nfc.report = x.nfc.report
    BY <2>5, <2>8
  <2> HIDE DEF y
  <2> QED
    BY <2>6 DEF y
<1>6. CASE x.nfc.last_hdr = "CORE_INIT" /\ x.nfc.nci_cmd_window < NCI_MAX_CMD_WINDOW /\ ok
  <2>1. y = UpdateWindow(u, ch)
    BY <1>4, <1>6
  <2>2. /\ z \in Pair /\ z.nfc.nfc_state = "W4_POST_INIT_CPLT" /\ z.nfc.p_nci_init_rsp
        /\ z.nfc.flags = x.nfc.flags /\ z.nfc.asked = x.nfc.asked /\ z.nfc.report = x.nfc.report
        /\ z.nfc.p_resp_cback = x.nfc.p_resp_cback /\ z.nfc.disc_on = x.nfc.disc_on
        /\ z.nfc.nci_cmd_xmit_q = x.nfc.nci_cmd_xmit_q
        /\ z.nfc.nci_cmd_window = x.nfc.nci_cmd_window
        /\ z.hal.link = "OPEN" /\ z.hal.ready = x.hal.ready /\ z.hal.job = "post_init"
        /\ z.hal.mbox = <<>> /\ Silent(z.hal)
    <3> DEFINE n == [x.nfc EXCEPT !.nfc_state = "W4_POST_INIT_CPLT", !.p_nci_init_rsp = TRUE]
               h == HalStart(x.hal, "post_init")
    <3>1. z = [nfc |-> n, hal |-> h]
      BY <1>1, <1>6 DEF ProcInitRsp
    <3>2. z \in Pair
      BY InitRspType
    <3>3. /\ n.nfc_state = "W4_POST_INIT_CPLT" /\ n.p_nci_init_rsp
          /\ n.flags = x.nfc.flags /\ n.asked = x.nfc.asked /\ n.report = x.nfc.report
          /\ n.p_resp_cback = x.nfc.p_resp_cback /\ n.disc_on = x.nfc.disc_on
          /\ n.nci_cmd_xmit_q = x.nfc.nci_cmd_xmit_q
          /\ n.nci_cmd_window = x.nfc.nci_cmd_window
      BY <1>0 DEF ControlBlock
    <3>4. h = [x.hal EXCEPT !.job = "post_init"] /\ x.hal.link = "OPEN"
      BY DEF HalStart, AtStart
    <3>5. /\ h.link = "OPEN" /\ h.ready = x.hal.ready /\ h.job = "post_init"
          /\ h.mbox = x.hal.mbox /\ h.pending = x.hal.pending /\ h.recovered = x.hal.recovered
          /\ h.ntf = x.hal.ntf
      BY <1>0, <3>4 DEF HalBlock
    <3> HIDE DEF n, h
    <3>6. z.nfc = n /\ z.hal = h
      BY <3>1
    <3>7. Silent(h)
      BY <3>5 DEF Silent
    <3> HIDE DEF z
    <3> QED
      BY <3>2, <3>3, <3>5, <3>6, <3>7
  <2> HIDE DEF z
  <2>3. /\ u \in Pair /\ u.hal = z.hal /\ SameCourse(z, u) /\ u.nfc.last_hdr = "NONE"
        /\ u.nfc.disc_on = z.nfc.disc_on /\ u.nfc.flags = z.nfc.flags
        /\ u.nfc.nci_cmd_xmit_q = z.nfc.nci_cmd_xmit_q
        /\ u.nfc.nci_cmd_window = z.nfc.nci_cmd_window
        /\ u.nfc.p_nci_init_rsp = z.nfc.p_nci_init_rsp
    BY <2>2, LastCleared
  <2> HIDE DEF u
  <2>4. /\ "CONTROL_REQUESTED" \notin u.nfc.flags /\ u.hal.link = "OPEN"
        /\ u.nfc.nci_cmd_window # NCI_MAX_CMD_WINDOW /\ u.nfc.nci_cmd_xmit_q = <<>>
    BY <1>0, <1>6, <2>2, <2>3 DEF AtStart, Bare
  <2>5. /\ y \in Pair /\ SameCourse(u, y) /\ y.nfc.disc_on = u.nfc.disc_on
        /\ y.nfc.flags = u.nfc.flags /\ y.nfc.nci_cmd_xmit_q = <<>>
        /\ y.nfc.last_hdr = "NONE" /\ ~y.nfc.nci_wait_rsp_timer
        /\ y.nfc.p_nci_init_rsp = u.nfc.p_nci_init_rsp /\ y.hal = u.hal
    BY <2>1, <2>3, <2>4, ReopenFacts
  <2> HIDE DEF y
  <2>6. SameCourse(z, y)
    BY <2>3, <2>5 DEF SameCourse
  <2>7. /\ y.nfc.report = x.nfc.report /\ y.nfc.asked = x.nfc.asked /\ Going(y) = Going(x)
        /\ y.nfc.p_resp_cback = x.nfc.p_resp_cback /\ y.nfc.nfc_state = "W4_POST_INIT_CPLT"
    BY <2>2, <2>6 DEF SameCourse, Going
  <2>8. Asking(y)
    BY <2>7 DEF AtStart, Asking
  <2>9. Bare(y)
    BY <2>2, <2>3, <2>5 DEF AtStart, Bare
  <2>10. IsPostInit(y)
    BY <2>2, <2>3, <2>5, <2>7, <2>8, <2>9 DEF IsPostInit, AtStart
  <2> QED
    BY <2>5, <2>7, <2>10 DEF y
<1> QED
  BY <1>3, <1>5, <1>6

LEMMA SameStart ==
  ASSUME NEW x, NEW y, SamePair(x, y), AtStart(x)
  PROVE  AtStart(y)
<1>1. Asking(y) /\ Bare(y)
  BY DEF AtStart, SamePair, Still, Asking, Going, Bare
<1> QED
  BY <1>1 DEF AtStart, SamePair, SameHal, Still

(* A message read while the stack starts is the one that comes next. *)
LEMMA NextMessage ==
  ASSUME NEW w \in Pair, IsStarting(w), w.hal.mbox # <<>>
  PROVE  \/ /\ ResetSent(w) /\ w.hal.pending = <<>> /\ w.hal.recovered = <<>>
            /\ Head(w.hal.mbox) = Rsp(Internal("CORE_RESET"), TRUE)
            /\ \/ Tail(w.hal.mbox) = <<>> /\ (w.hal.ntf => NciVersion = "2_0")
               \/ Tail(w.hal.mbox) = <<Ntf("CORE_RESET", TRUE)>> /\ ~w.hal.ntf /\ NciVersion = "2_0"
         \/ /\ NtfDue(w) /\ Head(w.hal.mbox) = Ntf("CORE_RESET", TRUE) /\ Tail(w.hal.mbox) = <<>>
            /\ Silent(w.hal)
         \/ /\ InitSent(w) /\ Tail(w.hal.mbox) = <<>> /\ Silent(w.hal)
            /\ \E ok \in BOOLEAN : /\ Head(w.hal.mbox) = Rsp(Internal("CORE_INIT"), ok)
                                   /\ ok \/ "sleep" \notin env.calls
<1>1. \A a, b : /\ Head(<<a>>) = a /\ Tail(<<a>>) = <<>>
                /\ Head(<<a, b>>) = a /\ Tail(<<a, b>>) = <<b>>
  OBVIOUS
<1>2. CASE ResetSent(w)
  <2>1. CASE w.hal.mbox = <<Rsp(Internal("CORE_RESET"), TRUE)>> /\ w.hal.pending = <<>>
             /\ w.hal.recovered = <<>> /\ (w.hal.ntf => NciVersion = "2_0")
    BY <1>1, <1>2, <2>1
  <2>2. CASE w.hal.mbox = <<Rsp(Internal("CORE_RESET"), TRUE), Ntf("CORE_RESET", TRUE)>>
             /\ Silent(w.hal) /\ NciVersion = "2_0"
    BY <1>1, <1>2, <2>2 DEF Silent
  <2> QED
    BY <1>2, <2>1, <2>2 DEF ResetSent, InFlight, LostRsp
<1>3. CASE NtfDue(w)
  <2>1. w.hal.mbox = <<Ntf("CORE_RESET", TRUE)>> /\ Silent(w.hal)
    BY <1>3 DEF NtfDue, Silent
  <2> QED
    BY <1>1, <1>3, <2>1
<1>4. CASE InitSent(w)
  <2>1. /\ Silent(w.hal)
        /\ \E ok \in BOOLEAN : /\ w.hal.mbox = <<Rsp(Internal("CORE_INIT"), ok)>>
                               /\ ok \/ "sleep" \notin env.calls
    BY <1>4 DEF InitSent, InFlight, LostRsp
  <2> QED
    BY <1>1, <1>4, <2>1
<1> QED
  BY <1>2, <1>3, <1>4 DEF IsStarting, Stuck

(* Reading it, the stack goes on starting, gives its core to the HAL, or   *)
(* fails to start.                                                         *)
LEMMA ReadStarting ==
  ASSUME Typed, NEW w \in Pair, IsStarting(w), NEW x, Read(w, x), NEW ch \in Choice
  PROVE  LET m == Head(w.hal.mbox)
             y == IF m.mt = "EVT" THEN HandleHalEvt(x, m, ch) ELSE ProcessEvent(x, m, ch)
         IN  /\ y \in Pair /\ y.nfc.report = w.nfc.report
             /\ IsStarting(y) \/ IsPostInit(y) \/ IsFailing(y) \/ IsRetrying(y)
<1> DEFINE m == Head(w.hal.mbox)
           y == IF m.mt = "EVT" THEN HandleHalEvt(x, m, ch) ELSE ProcessEvent(x, m, ch)
<1>0. /\ x \in Pair /\ AtStart(x) /\ w.hal.mbox # <<>> /\ x.hal.mbox = Tail(w.hal.mbox)
      /\ x.nfc.report = "none" /\ w.nfc.report = "none"
  BY SameStart DEF Read, IsStarting, AtStart, Asking
<1>1. /\ x.nfc.last_hdr = w.nfc.last_hdr /\ x.nfc.nci_cmd_window = w.nfc.nci_cmd_window
      /\ x.nfc.nci_wait_rsp_timer = w.nfc.nci_wait_rsp_timer
      /\ x.hal.pending = w.hal.pending /\ x.hal.recovered = w.hal.recovered
      /\ x.hal.ntf = w.hal.ntf
  BY DEF Read, SamePair, SameHal, Still
<1>2. x.nfc.nci_cmd_window \in 0..NCI_MAX_CMD_WINDOW /\ NCI_MAX_CMD_WINDOW \in Nat
  BY <1>0, PairFields, BlockTypes, WindowAssumption
<1>3. m \in Message
  BY <1>0, PairFields, HalTypes
<1>4. m.mt = "RSP" /\ x.nfc.rawVsCbflag => y = RawVsRsp(x, m, ch)
  BY DEF ProcessEvent
<1>5. m.mt = "RSP" /\ ~x.nfc.rawVsCbflag => y = ProcRsp(x, m, ch)
  BY DEF ProcessEvent
<1>6. m.mt = "NTF" /\ m.op = "CORE_RESET" => y = ProcResetNtf(x, m, ch)
  BY DEF ProcessEvent
<1>7. \A op, ok : Rsp(Internal(op), ok).mt = "RSP"
  BY DEF Rsp
<1>8. Ntf("CORE_RESET", TRUE).mt = "NTF" /\ Ntf("CORE_RESET", TRUE).op = "CORE_RESET"
  BY DEF Ntf
<1>10. CASE /\ ResetSent(w) /\ w.hal.pending = <<>> /\ w.hal.recovered = <<>>
            /\ m = Rsp(Internal("CORE_RESET"), TRUE)
            /\ \/ Tail(w.hal.mbox) = <<>> /\ (w.hal.ntf => NciVersion = "2_0")
               \/ Tail(w.hal.mbox) = <<Ntf("CORE_RESET", TRUE)>> /\ ~w.hal.ntf /\ NciVersion = "2_0"
  <2> HIDE DEF m
  <2>1. x.nfc.last_hdr = "CORE_RESET" /\ x.nfc.nci_cmd_window < NCI_MAX_CMD_WINDOW
    BY <1>1, <1>10 DEF ResetSent
  <2>2. x.nfc.nci_cmd_window # NCI_MAX_CMD_WINDOW
    BY <1>2, <2>1
  <2>3. NciVersion = "1_0" => ~x.hal.ntf /\ x.hal.mbox = <<>>
    BY <1>0, <1>1, <1>10
  <2>4. Cleared(x, y) \/ (y \in Pair /\ IsStarting(y) /\ y.nfc.report = x.nfc.report)
    <3> HIDE DEF y
    <3>0. m.mt = "RSP"
      BY <1>7, <1>10
    <3>1. CASE x.nfc.rawVsCbflag
      <4>1. Cleared(x, RawVsRsp(x, m, ch))
        BY <1>0, <1>3, <2>2, RawAtStart
      <4> QED
        BY <1>4, <3>0, <3>1, <4>1
    <3>2. CASE ~x.nfc.rawVsCbflag
      <4>1. x.hal.pending = <<>> /\ x.hal.recovered = <<>> /\ m = Rsp(Internal("CORE_RESET"), TRUE)
        BY <1>1, <1>10
      <4>2. LET k == ProcRsp(x, m, ch) IN
            Cleared(x, k) \/ (k \in Pair /\ IsStarting(k) /\ k.nfc.report = x.nfc.report)
        BY <1>0, <2>1, <2>3, <4>1, ResetAnswered
      <4> QED
        BY <1>5, <3>0, <3>2, <4>2
    <3> QED
      BY <3>1, <3>2
  <2> HIDE DEF y
  <2>5. ASSUME Cleared(x, y) PROVE IsStarting(y) /\ y \in Pair /\ y.nfc.report = "none"
    <3>1. CASE Tail(w.hal.mbox) = <<>> /\ ~w.hal.ntf
      <4>1. Silent(x.hal) /\ x.hal.mbox = <<>>
        BY <1>0, <1>1, <1>10, <3>1 DEF Silent
      <4> QED
        BY <2>5, <4>1, ClearedStuck DEF Cleared, AtStart, Asking
    <3>2. CASE Tail(w.hal.mbox) = <<>> /\ w.hal.ntf
      BY <1>0, <1>1, <1>10, <2>5, <3>2, ZenonT(40) DEF Cleared, IsStarting, NtfDue, AtStart, Asking
    <3>3. CASE Tail(w.hal.mbox) = <<Ntf("CORE_RESET", TRUE)>> /\ ~w.hal.ntf
      BY <1>0, <1>1, <1>10, <2>5, <3>3 DEF Cleared, IsStarting, NtfDue, AtStart, Asking
    <3> QED
      BY <1>10, <3>1, <3>2, <3>3
  <2> QED
    BY <1>0, <2>4, <2>5 DEF y, m
<1>11. CASE NtfDue(w) /\ m = Ntf("CORE_RESET", TRUE) /\ Tail(w.hal.mbox) = <<>> /\ Silent(w.hal)
  <2> HIDE DEF m
  <2>1. x.nfc.nci_cmd_window > 0 /\ Silent(x.hal) /\ x.hal.mbox = <<>>
    BY <1>0, <1>1, <1>11 DEF NtfDue, Silent
  <2>2. y = ProcResetNtf(x, m, ch)
    BY <1>6, <1>8, <1>11
  <2> HIDE DEF y
  <2>3. y \in Pair /\ IsStarting(y) /\ y.nfc.report = x.nfc.report
    BY <1>0, <1>11, <2>1, <2>2, ResetNotified
  <2> QED
    BY <1>0, <2>3 DEF y, m
<1>12. CASE /\ InitSent(w) /\ Tail(w.hal.mbox) = <<>> /\ Silent(w.hal)
            /\ \E ok \in BOOLEAN : /\ m = Rsp(Internal("CORE_INIT"), ok)
                                   /\ ok \/ "sleep" \notin env.calls
  <2>0. PICK ok \in BOOLEAN : /\ m = Rsp(Internal("CORE_INIT"), ok)
                              /\ ok \/ "sleep" \notin env.calls
    BY <1>12
  <2> HIDE DEF m
  <2>1. /\ Silent(x.hal) /\ x.hal.mbox = <<>>
        /\ \/ x.nfc.last_hdr = "CORE_INIT" /\ x.nfc.nci_cmd_window < NCI_MAX_CMD_WINDOW
           \/ x.nfc.last_hdr = "NONE" /\ ~x.nfc.nci_wait_rsp_timer
    BY <1>0, <1>1, <1>12 DEF InitSent, Silent
  <2>2. x.nfc.nci_cmd_window # NCI_MAX_CMD_WINDOW \/ ~x.nfc.nci_wait_rsp_timer
    BY <1>2, <2>1
  <2>3. CASE x.nfc.rawVsCbflag
    <3>1. y = RawVsRsp(x, m, ch)
      BY <1>4, <1>7, <2>0, <2>3
    <3> HIDE DEF y
    <3>2. Cleared(x, y)
      BY <1>0, <1>3, <2>2, <3>1, RawAtStart
    <3>3. IsStarting(y) /\ y \in Pair /\ y.nfc.report = "none"
      BY <2>1, <3>2, ClearedStuck DEF Cleared, AtStart, Asking
    <3> QED
      BY <1>0, <3>3 DEF y, m
  <2>4. CASE ~x.nfc.rawVsCbflag
    <3>1. y = ProcRsp(x, m, ch)
      BY <1>5, <1>7, <2>0, <2>4
    <3> HIDE DEF y
    <3>2. /\ y \in Pair /\ y.nfc.report = x.nfc.report
          /\ IsStarting(y) \/ IsPostInit(y) \/ IsFailing(y) \/ IsRetrying(y)
      BY <1>0, <2>0, <2>1, <3>1, InitAnswered
    <3> QED
      BY <1>0, <3>2 DEF y, m
  <2> QED
    BY <2>3, <2>4
<1> QED
  BY <1>0, <1>10, <1>11, <1>12, NextMessage

(* What a handler reports of a start. *)
LEMMA NotifyFacts ==
  ASSUME NEW x \in Pair, x.nfc.p_resp_cback, NEW ok \in BOOLEAN
  PROVE  LET y == NotifyEnableStatus(x, ok) IN
         /\ y \in Pair /\ y.hal = x.hal /\ y.nfc.nfc_state = x.nfc.nfc_state
         /\ y.nfc.p_resp_cback /\ y.nfc.asked = x.nfc.asked
         /\ y.nfc.nci_cmd_xmit_q = x.nfc.nci_cmd_xmit_q /\ y.nfc.last_hdr = x.nfc.last_hdr
         /\ Going(x) = {} =>
              y.nfc.report = (IF ok THEN "ENABLE_OK" ELSE "ENABLE_FAILED") /\ Going(y) = {}
         /\ Going(x) \in {{"RESTARTING"}, {"POWER_CYCLE_NFCC"}} =>
              y.nfc.report = (IF ok THEN "RESTART_OK" ELSE "RESTART_FAILED") /\ (ok => Going(y) = {})
<1> DEFINE kept == x.nfc.flags \ {"RESTARTING", "POWER_CYCLE_NFCC"}
           f == IF ok THEN kept ELSE kept \cup {"POWER_OFF_SLEEP"}
           r == IF ok THEN "RESTART_OK" ELSE "RESTART_FAILED"
           e == IF ok THEN "ENABLE_OK" ELSE "ENABLE_FAILED"
           n == [x.nfc EXCEPT !.flags = f, !.report = r]
           k == [x.nfc EXCEPT !.report = e]
           y == NotifyEnableStatus(x, ok)
<1>0. x.nfc \in ControlBlock /\ y \in Pair
  BY PairFields, NotifyType
<1>1. /\ n.nfc_state = x.nfc.nfc_state /\ n.p_resp_cback = x.nfc.p_resp_cback
      /\ n.asked = x.nfc.asked /\ n.nci_cmd_xmit_q = x.nfc.nci_cmd_xmit_q
      /\ n.last_hdr = x.nfc.last_hdr /\ n.flags = f /\ n.report = r
      /\ k.nfc_state = x.nfc.nfc_state /\ k.p_resp_cback = x.nfc.p_resp_cback
      /\ k.asked = x.nfc.asked /\ k.nci_cmd_xmit_q = x.nfc.nci_cmd_xmit_q
      /\ k.last_hdr = x.nfc.last_hdr /\ k.flags = x.nfc.flags /\ k.report = e
  <2> HIDE DEF f, r, e
  <2> QED
    BY <1>0 DEF ControlBlock
<1>2. CASE Going(x) = {}
  <2>1. y = Nfc(x, k)
    BY <1>2 DEF NotifyEnableStatus, Going, Reasons
  <2> HIDE DEF n, k
  <2>2. y.nfc = k /\ y.hal = x.hal
    BY <2>1 DEF Nfc
  <2> HIDE DEF y
  <2>3. Going(y) = {}
    BY <1>1, <1>2, <2>2 DEF Going
  <2> QED
    BY <1>0, <1>1, <1>2, <2>2, <2>3 DEF y
<1>3. CASE Going(x) \in {{"RESTARTING"}, {"POWER_CYCLE_NFCC"}}
  <2>0. x.nfc.flags \cap {"RESTARTING", "POWER_CYCLE_NFCC"} # {} /\ "POWER_OFF_SLEEP" \notin x.nfc.flags
    BY <1>3 DEF Going, Reasons
  <2>1. y = Nfc(x, n)
    BY <2>0 DEF NotifyEnableStatus
  <2>2. ok => f \cap Reasons = {}
    BY <2>0 DEF Reasons
  <2> HIDE DEF n, k, f
  <2>3. y.nfc = n /\ y.hal = x.hal
    BY <2>1 DEF Nfc
  <2> HIDE DEF y
  <2>4. ok => Going(y) = {}
    BY <1>1, <2>2, <2>3 DEF Going
  <2> QED
    BY <1>0, <1>1, <1>3, <2>3, <2>4 DEF y
<1>4. CASE Going(x) # {} /\ Going(x) \notin {{"RESTARTING"}, {"POWER_CYCLE_NFCC"}}
  <2>1. y = Nfc(x, k) \/ y = Nfc(x, n)
    BY DEF NotifyEnableStatus
  <2> HIDE DEF n, k
  <2>2. (y.nfc = k \/ y.nfc = n) /\ y.hal = x.hal
    BY <2>1 DEF Nfc
  <2> HIDE DEF y
  <2> QED
    BY <1>0, <1>1, <1>4, <2>2 DEF y
<1> QED
  BY <1>2, <1>3, <1>4

LEMMA SetStateFacts ==
  ASSUME NEW x \in Pair, NEW st \in NFC_STATE
  PROVE  LET y == SetState(x, st) IN
         /\ y \in Pair /\ y.hal = x.hal /\ y.nfc.nfc_state = st
         /\ y.nfc.p_resp_cback = x.nfc.p_resp_cback /\ y.nfc.asked = x.nfc.asked
         /\ y.nfc.report = x.nfc.report /\ y.nfc.flags = x.nfc.flags
         /\ y.nfc.nci_cmd_xmit_q = x.nfc.nci_cmd_xmit_q /\ y.nfc.last_hdr = x.nfc.last_hdr
         /\ y.nfc.disc_on = x.nfc.disc_on /\ y.nfc.nci_cmd_window = x.nfc.nci_cmd_window
         /\ y.nfc.nci_wait_rsp_timer = x.nfc.nci_wait_rsp_timer
<1> DEFINE n == [x.nfc EXCEPT !.nfc_state = st]
           y == SetState(x, st)
<1>1. y \in Pair /\ x.nfc \in ControlBlock
  BY SetStateType, PairFields
<1>2. /\ n.nfc_state = st /\ n.p_resp_cback = x.nfc.p_resp_cback /\ n.asked = x.nfc.asked
      /\ n.report = x.nfc.report /\ n.flags = x.nfc.flags
      /\ n.nci_cmd_xmit_q = x.nfc.nci_cmd_xmit_q /\ n.last_hdr = x.nfc.last_hdr
      /\ n.disc_on = x.nfc.disc_on /\ n.nci_cmd_window = x.nfc.nci_cmd_window
      /\ n.nci_wait_rsp_timer = x.nfc.nci_wait_rsp_timer
  BY <1>1 DEF ControlBlock
<1>3. y.nfc = n /\ y.hal = x.hal
  BY DEF SetState, Nfc
<1> HIDE DEF n, y
<1> QED
  BY <1>1, <1>2, <1>3 DEF y

(* The HAL has initialized the NFCC: the stack is up. *)
LEMMA PostInitDone ==
  ASSUME Typed, NEW x \in Pair, x.nfc.nfc_state = "W4_POST_INIT_CPLT", Asking(x), Bare(x),
         x.nfc.last_hdr = "NONE", x.nfc.p_nci_init_rsp,
         x.hal.link = "OPEN", ~x.hal.ready, Silent(x.hal), x.hal.job = "none", x.hal.mbox = <<>>,
         NEW ch \in Choice
  PROVE  LET y == HandlePostInit(x, TRUE, ch) IN y \in Pair /\ IsIdle(y)
<1> DEFINE s == SetState(x, "IDLE")
           z == Send(s, "DISCOVER_MAP", ch)
           e == NotifyEnableStatus(z, TRUE)
           n == [e.nfc EXCEPT !.p_nci_init_rsp = FALSE]
           y == HandlePostInit(x, TRUE, ch)
<1>1. y = Nfc(e, n)
  BY DEF HandlePostInit, Enabled
<1>2. /\ s \in Pair /\ s.hal = x.hal /\ s.nfc.nfc_state = "IDLE"
      /\ s.nfc.p_resp_cback = x.nfc.p_resp_cback /\ s.nfc.asked = x.nfc.asked
      /\ s.nfc.flags = x.nfc.flags
      /\ s.nfc.nci_cmd_xmit_q = x.nfc.nci_cmd_xmit_q /\ s.nfc.last_hdr = x.nfc.last_hdr
  BY SetStateFacts DEF NFC_STATE
<1> HIDE DEF s
<1>3. Pure(s)
  <2>1. s.nfc.nci_cmd_xmit_q = <<>> /\ s.nfc.last_hdr = "NONE" /\ s.hal.pending = <<>>
        /\ s.hal.recovered = <<>> /\ ~s.hal.ntf /\ s.hal.job = "none"
    BY <1>2 DEF Bare, Silent
  <2>2. NoCore(<<>>)
    BY DEF NoCore
  <2> QED
    BY <2>1, <2>2 DEF Pure, Core
<1>4. z \in Pair /\ SameCourse(s, z) /\ Pure(z)
  <2>1. "DISCOVER_MAP" \in StackCmd /\ "DISCOVER_MAP" \notin Core
    BY DEF StackCmd, Core
  <2> QED
    BY <1>2, <1>3, <2>1, TameSend DEF Tame
<1> HIDE DEF z
<1>5. /\ z.nfc.nfc_state = "IDLE" /\ z.nfc.p_resp_cback /\ z.nfc.asked = x.nfc.asked
      /\ Going(z) = Going(x) /\ z.hal.link = "OPEN" /\ ~z.hal.ready /\ z.hal.mbox = <<>>
  BY <1>2, <1>4 DEF SameCourse, Going, Asking
<1>6. /\ e \in Pair /\ e.hal = z.hal /\ e.nfc.nfc_state = z.nfc.nfc_state
      /\ e.nfc.p_resp_cback /\ e.nfc.asked = z.nfc.asked
      /\ e.nfc.nci_cmd_xmit_q = z.nfc.nci_cmd_xmit_q /\ e.nfc.last_hdr = z.nfc.last_hdr
      /\ Going(z) = {} => e.nfc.report = "ENABLE_OK" /\ Going(e) = {}
      /\ Going(z) \in {{"RESTARTING"}, {"POWER_CYCLE_NFCC"}} =>
           e.nfc.report = "RESTART_OK" /\ Going(e) = {}
  BY <1>4, <1>5, NotifyFacts, Zenon
<1> HIDE DEF e
<1>7. e.nfc \in ControlBlock
  BY <1>6, PairFields
<1>8. n \in ControlBlock
  BY <1>7, FieldTypes, Zenon
<1>9. /\ n.nfc_state = e.nfc.nfc_state /\ n.p_resp_cback = e.nfc.p_resp_cback
      /\ n.asked = e.nfc.asked /\ n.nci_cmd_xmit_q = e.nfc.nci_cmd_xmit_q
      /\ n.last_hdr = e.nfc.last_hdr /\ n.report = e.nfc.report /\ n.flags = e.nfc.flags
  BY <1>7 DEF ControlBlock
<1> HIDE DEF n, y
<1>10. y \in Pair /\ y.nfc = n /\ y.hal = e.hal
  BY <1>1, <1>6, <1>8, NfcType
<1>11. Pure(y) /\ Going(y) = Going(e)
  BY <1>4, <1>6, <1>9, <1>10 DEF Pure, Going
<1>12. AllHarmless(y.hal.mbox)
  BY <1>5, <1>6, <1>10 DEF AllHarmless
<1>13. \/ x.nfc.asked = "ENABLE" /\ Going(x) = {}
       \/ x.nfc.asked = "RESTART" /\ Going(x) \in {{"RESTARTING"}, {"POWER_CYCLE_NFCC"}}
  BY DEF Asking
<1>14. \/ y.nfc.asked = "ENABLE" /\ y.nfc.report = "ENABLE_OK" /\ Going(y) = {}
       \/ y.nfc.asked = "RESTART" /\ y.nfc.report = "RESTART_OK" /\ Going(y) = {}
  BY <1>5, <1>6, <1>9, <1>10, <1>11, <1>13
<1> QED
  BY <1>5, <1>6, <1>9, <1>10, <1>11, <1>12, <1>14 DEF IsIdle, y

(* A start that failed is reported with the transport closed. *)
LEMMA StartFailed ==
  ASSUME NEW x \in Pair, Asking(x), x.hal.link = "CLOSED", ~x.hal.ready, x.hal.mbox = <<>>
  PROVE  LET y == NotifyEnableStatus(SetState(x, "NONE"), FALSE) IN y \in Pair /\ HasFailed(y)
<1> DEFINE s == SetState(x, "NONE")
           y == NotifyEnableStatus(s, FALSE)
<1>1. /\ s \in Pair /\ s.hal = x.hal /\ s.nfc.nfc_state = "NONE"
      /\ s.nfc.p_resp_cback = x.nfc.p_resp_cback /\ s.nfc.asked = x.nfc.asked
      /\ s.nfc.flags = x.nfc.flags
  BY SetStateFacts DEF NFC_STATE
<1> HIDE DEF s
<1>2. s.nfc.p_resp_cback /\ Going(s) = Going(x)
  BY <1>1 DEF Asking, Going
<1>3. /\ y \in Pair /\ y.hal = s.hal /\ y.nfc.nfc_state = s.nfc.nfc_state
      /\ y.nfc.p_resp_cback /\ y.nfc.asked = s.nfc.asked
      /\ Going(s) = {} => y.nfc.report = "ENABLE_FAILED"
      /\ Going(s) \in {{"RESTARTING"}, {"POWER_CYCLE_NFCC"}} => y.nfc.report = "RESTART_FAILED"
  BY <1>1, <1>2, NotifyFacts
<1> HIDE DEF y
<1>4. \/ x.nfc.asked = "ENABLE" /\ Going(x) = {}
      \/ x.nfc.asked = "RESTART" /\ Going(x) \in {{"RESTARTING"}, {"POWER_CYCLE_NFCC"}}
  BY DEF Asking
<1> QED
  BY <1>1, <1>2, <1>3, <1>4 DEF HasFailed, y, s

(* An event of the HAL that ends a start or a shutdown. *)
LEMMA ReadDown ==
  ASSUME Typed, NEW w \in Pair, NEW x, Read(w, x), NEW ch \in Choice,
         IsOpening(w) \/ IsFailing(w) \/ IsPostInit(w) \/ IsClosing(w)
  PROVE  LET m == Head(w.hal.mbox)
             y == IF m.mt = "EVT" THEN HandleHalEvt(x, m, ch) ELSE ProcessEvent(x, m, ch)
         IN  y \in Pair /\ Course(y) /\ w.nfc.report = "none"
<1> DEFINE m == Head(w.hal.mbox)
           y == IF m.mt = "EVT" THEN HandleHalEvt(x, m, ch) ELSE ProcessEvent(x, m, ch)
<1>0. \A e, ok : /\ Head(<<Evt(e, ok)>>) = Evt(e, ok) /\ Tail(<<Evt(e, ok)>>) = <<>>
                 /\ Evt(e, ok).mt = "EVT" /\ Evt(e, ok).op = e /\ Evt(e, ok).ok = ok
  BY DEF Evt
<1>1. /\ x \in Pair /\ w.hal.mbox # <<>> /\ x.hal.mbox = Tail(w.hal.mbox)
      /\ x.hal.link = w.hal.link /\ x.hal.ready = w.hal.ready /\ x.hal.job = w.hal.job
      /\ x.nfc.nfc_state = w.nfc.nfc_state /\ x.nfc.flags = w.nfc.flags
      /\ x.nfc.p_resp_cback = w.nfc.p_resp_cback /\ x.nfc.asked = w.nfc.asked
      /\ x.nfc.report = w.nfc.report
  BY DEF Read, SamePair, SameHal, Still
<1>2. (Asking(w) => Asking(x)) /\ (Rested(w) => Rested(x)) /\ (Bare(w) => Bare(x))
      /\ (Silent(w.hal) => Silent(x.hal)) /\ Going(x) = Going(w)
  BY DEF Read, SamePair, SameHal, Still, Asking, Going, Rested, Bare, Silent
<1> HIDE DEF m
<1>3. CASE IsOpening(w)
  <2>1. w.hal.mbox = <<Evt("OPEN_CPLT", FALSE)>> /\ w.hal.link = "CLOSED" /\ ~w.hal.ready
        /\ "sleep" \notin env.calls /\ Asking(w) /\ w.nfc.nfc_state = "W4_HAL_OPEN"
    BY <1>1, <1>3 DEF IsOpening
  <2>2. m = Evt("OPEN_CPLT", FALSE) /\ x.hal.mbox = <<>>
    BY <1>0, <1>1, <2>1 DEF m
  <2>3. m.mt = "EVT" /\ m.op = "OPEN_CPLT"
    BY <1>0, <2>2
  <2>4. "RESTARTING" \notin x.nfc.flags
    BY <1>2, <2>1 DEF Asking, Going, Reasons
  <2>5. y = NotifyEnableStatus(SetState(x, "NONE"), FALSE)
    BY <1>1, <2>1, <2>3, <2>4 DEF HandleHalEvt, Enabled
  <2> HIDE DEF y
  <2>6. y \in Pair /\ HasFailed(y)
    BY <1>1, <1>2, <2>1, <2>2, <2>5, StartFailed
  <2> QED
    BY <2>1, <2>6 DEF Course, Asking, y, m
<1>4. CASE IsFailing(w)
  <2>1. w.hal.mbox = <<Evt("CLOSE_CPLT", TRUE)>> /\ w.hal.link = "CLOSED" /\ ~w.hal.ready
        /\ Asking(w) /\ w.nfc.nfc_state = "CORE_INIT"
    BY <1>1, <1>4 DEF IsFailing
  <2>2. m = Evt("CLOSE_CPLT", TRUE) /\ x.hal.mbox = <<>>
    BY <1>0, <1>1, <2>1 DEF m
  <2>3. m.mt = "EVT" /\ m.op = "CLOSE_CPLT"
    BY <1>0, <2>2
  <2>4. x.nfc.p_resp_cback /\ x.nfc.nfc_state # "W4_HAL_CLOSE"
    BY <1>1, <1>2, <2>1 DEF Asking
  <2>5. y = NotifyEnableStatus(SetState(x, "NONE"), FALSE)
    BY <2>3, <2>4 DEF HandleHalEvt, HandleClose
  <2> HIDE DEF y
  <2>6. y \in Pair /\ HasFailed(y)
    BY <1>1, <1>2, <2>1, <2>2, <2>5, StartFailed
  <2> QED
    BY <2>1, <2>6 DEF Course, Asking, y, m
<1>5. CASE IsPostInit(w)
  <2>1. w.hal.mbox = <<Evt("POST_INIT_CPLT", TRUE)>> /\ w.hal.job = "none"
    BY <1>1, <1>5 DEF IsPostInit
  <2>2. m = Evt("POST_INIT_CPLT", TRUE) /\ x.hal.mbox = <<>>
    BY <1>0, <1>1, <2>1 DEF m
  <2>3. m.mt = "EVT" /\ m.op = "POST_INIT_CPLT" /\ m.ok = TRUE
    BY <1>0, <2>2
  <2>4. y = HandlePostInit(x, TRUE, ch)
    BY <2>3 DEF HandleHalEvt
  <2>5. /\ x.nfc.nfc_state = "W4_POST_INIT_CPLT" /\ Asking(x) /\ Bare(x)
        /\ x.nfc.last_hdr = "NONE" /\ x.nfc.p_nci_init_rsp
        /\ x.hal.link = "OPEN" /\ ~x.hal.ready /\ Silent(x.hal) /\ x.hal.job = "none"
    BY <1>1, <1>2, <1>5, <2>1 DEF IsPostInit, Read, SamePair, Still
  <2> HIDE DEF y
  <2>6. y \in Pair /\ IsIdle(y)
    BY <1>1, <2>2, <2>4, <2>5, PostInitDone
  <2> QED
    BY <1>5, <2>6 DEF Course, IsPostInit, Asking, y, m
<1>6. CASE IsClosing(w)
  <2>1. w.hal.mbox = <<Evt("CLOSE_CPLT", TRUE)>> /\ w.hal.link = "CLOSED" /\ ~w.hal.ready
        /\ w.nfc.nfc_state = "W4_HAL_CLOSE" /\ w.nfc.p_resp_cback /\ w.nfc.report = "none"
        /\ Rested(w)
    BY <1>1, <1>6 DEF IsClosing
  <2>2. m = Evt("CLOSE_CPLT", TRUE) /\ x.hal.mbox = <<>>
    BY <1>0, <1>1, <2>1 DEF m
  <2>3. m.mt = "EVT" /\ m.op = "CLOSE_CPLT"
    BY <1>0, <2>2
  <2>4. y = HandleClose(x) /\ y \in Pair
    BY <1>1, <2>3, CloseType DEF HandleHalEvt
  <2>5. x.nfc \in ControlBlock /\ Rested(x)
    BY <1>1, <1>2, <2>1, PairFields
  <2>6. CASE w.nfc.asked = "DISABLE" /\ Going(w) = {}
    <3> DEFINE n == [x.nfc EXCEPT !.nfc_state = "NONE", !.report = "DISABLE", !.p_resp_cback = FALSE]
    <3>1. "POWER_OFF_SLEEP" \notin x.nfc.flags
      BY <1>2, <2>6 DEF Going, Reasons
    <3>2. y = Nfc(x, n)
      BY <1>1, <2>1, <2>4, <3>1 DEF HandleClose, Disabled
    <3>3. n.nfc_state = "NONE" /\ n.report = "DISABLE" /\ ~n.p_resp_cback /\ n.asked = x.nfc.asked
      BY <2>5 DEF ControlBlock
    <3> HIDE DEF n, y
    <3>4. y.nfc = n /\ y.hal = x.hal
      BY <3>2 DEF Nfc
    <3>5. IsOff(y)
      BY <1>1, <2>1, <2>2, <2>6, <3>3, <3>4 DEF IsOff
    <3> QED
      BY <2>1, <2>4, <3>5 DEF Course, y, m
  <2>7. CASE w.nfc.asked = "POWER_OFF" /\ Going(w) = {"POWER_OFF_SLEEP"}
    <3> DEFINE f == x.nfc.flags \ {"POWER_OFF_SLEEP"}
               n == [x.nfc EXCEPT !.nfc_state = "NFCC_POWER_OFF_SLEEP", !.flags = f,
                                  !.report = "POWER_OFF"]
    <3>1. "POWER_OFF_SLEEP" \in x.nfc.flags
      BY <1>2, <2>7 DEF Going
    <3>2. y = Nfc(x, n)
      BY <1>1, <2>1, <2>4, <3>1 DEF HandleClose
    <3>3. f \cap Reasons = {} /\ ("CONTROL_REQUESTED" \in f => "CONTROL_REQUESTED" \in x.nfc.flags)
      BY <1>2, <2>7 DEF Going
    <3> HIDE DEF f
    <3>4. /\ n.nfc_state = "NFCC_POWER_OFF_SLEEP" /\ n.report = "POWER_OFF"
          /\ n.p_resp_cback = x.nfc.p_resp_cback /\ n.asked = x.nfc.asked /\ n.flags = f
          /\ n.nci_cmd_xmit_q = x.nfc.nci_cmd_xmit_q /\ n.disc_on = x.nfc.disc_on
          /\ n.nci_cmd_window = x.nfc.nci_cmd_window
          /\ n.nci_wait_rsp_timer = x.nfc.nci_wait_rsp_timer
      BY <2>5 DEF ControlBlock
    <3> HIDE DEF n, y
    <3>5. y.nfc = n /\ y.hal = x.hal
      BY <3>2 DEF Nfc
    <3>6. Rested(y) /\ Going(y) = {}
      BY <2>5, <3>3, <3>4, <3>5 DEF Rested, Bare, Going
    <3>7. IsAsleep(y)
      BY <1>1, <2>1, <2>2, <2>7, <3>4, <3>5, <3>6, ZenonT(40) DEF IsAsleep
    <3> QED
      BY <2>1, <2>4, <3>7 DEF Course, y, m
  <2> QED
    BY <1>6, <2>6, <2>7 DEF IsClosing
<1> QED
  BY <1>3, <1>4, <1>5, <1>6

(* No message is read in the other situations. *)
LEMMA ReadTold == ASSUME TypeOK, Course(Here), ReadMbox PROVE Told
<1> DEFINE m == Head(hal.mbox)
           q == Tail(hal.mbox)
           h == [hal EXCEPT !.mbox = q]
           x == Hal(Now, h)
<1>1. PICK ch \in Choice :
        Become(IF m.mt = "EVT" THEN HandleHalEvt(x, m, ch) ELSE ProcessEvent(x, m, ch))
  BY DEF ReadMbox
<1>2. /\ Typed /\ Here \in Pair /\ Now \in Pair /\ nfc_cb \in ControlBlock /\ hal \in HalBlock
      /\ Now.nfc = [nfc_cb EXCEPT !.back = NoBack]
      /\ Here.nfc = nfc_cb /\ Here.hal = hal
  BY TypeFacts, NowTwin DEF TypeOK
<1>3. q \in Seq(Message) /\ hal.mbox # <<>>
  BY <1>2, HalTypes DEF ReadMbox
<1>4. Read(Here, x)
  <2> HIDE DEF q
  <2>1. h \in HalBlock
    BY <1>2, <1>3 DEF HalBlock
  <2>2. /\ h.pending = hal.pending /\ h.job = hal.job /\ h.recovered = hal.recovered
        /\ h.link = hal.link /\ h.ready = hal.ready /\ h.ntf = hal.ntf /\ h.mbox = q
    BY <1>2 DEF HalBlock
  <2> HIDE DEF h
  <2>3. x \in Pair /\ x.nfc = Now.nfc /\ x.hal = h
    BY <1>2, <2>1, HalType
  <2> HIDE DEF x
  <2>4. Still(nfc_cb, x.nfc)
    BY <1>2, <2>3 DEF Still, ControlBlock
  <2> QED
    BY <1>2, <1>3, <2>2, <2>3, <2>4 DEF Read, SamePair, SameHal, q
<1> HIDE DEF x
<1> DEFINE y == IF m.mt = "EVT" THEN HandleHalEvt(x, m, ch) ELSE ProcessEvent(x, m, ch)
<1>5. m = Head(Here.hal.mbox) /\ Here.hal.mbox # <<>>
  BY <1>2, <1>3
<1> HIDE DEF m
<1>6. y \in Pair /\ Course(y) /\ Says(Here, y)
  <2>1. CASE IsIdle(Here)
    <3>1. y \in Pair /\ IsIdle(y) /\ y.nfc.report = Here.nfc.report
      BY <1>2, <1>4, <1>5, <2>1, ReadIdle
    <3> HIDE DEF y
    <3> QED
      BY <3>1 DEF Course, Says
  <2>2. CASE IsStarting(Here)
    <3>1. /\ y \in Pair /\ y.nfc.report = Here.nfc.report
          /\ IsStarting(y) \/ IsPostInit(y) \/ IsFailing(y) \/ IsRetrying(y)
      BY <1>2, <1>4, <1>5, <2>2, ReadStarting
    <3> HIDE DEF y
    <3> QED
      BY <3>1 DEF Course, Says
  <2>3. CASE IsOpening(Here) \/ IsFailing(Here) \/ IsPostInit(Here) \/ IsClosing(Here)
    <3>1. y \in Pair /\ Course(y) /\ Here.nfc.report = "none"
      BY <1>2, <1>4, <1>5, <2>3, ReadDown
    <3> HIDE DEF y
    <3> QED
      BY <3>1 DEF Says
  <2> QED
    BY <1>5, <2>1, <2>2, <2>3, Zenon
       DEF Course, IsOff, IsRetrying, IsAsleep, HasFailed
<1>7. Become(y)
  BY <1>1
<1> QED
  BY <1>6, <1>7, Reached

-----------------------------------------------------------------------------
(* The other steps of NFC_TASK.                                            *)

(* The transport is ready: CORE_RESET is written, or no buffer is left. *)
LEMMA ReadyTold == ASSUME TypeOK, Course(Here), TransportReady PROVE Told
<1> DEFINE h == [hal EXCEPT !.ready = FALSE]
           x == Hal(Now, h)
           s == SetState(x, "CORE_INIT")
           c == Internal("CORE_RESET")
           y(ch) == Send(s, "CORE_RESET", ch)
<1>1. PICK ch \in Choice : Become(y(ch))
  BY DEF TransportReady
<1>2. /\ Typed /\ Now \in Pair /\ nfc_cb \in ControlBlock /\ hal \in HalBlock
      /\ Now.nfc = [nfc_cb EXCEPT !.back = NoBack]
      /\ Here.nfc = nfc_cb /\ Here.hal = hal /\ hal.ready
  BY TypeFacts, NowTwin DEF TypeOK, TransportReady
<1>3. IsOpening(Here) \/ IsRetrying(Here)
  BY <1>2 DEF Course, IsOff, IsStarting, AtStart, IsFailing, IsPostInit, IsIdle, IsClosing, IsAsleep, HasFailed
<1>4. /\ h \in HalBlock /\ ~h.ready /\ h.link = hal.link /\ h.job = hal.job /\ h.mbox = hal.mbox
      /\ h.pending = hal.pending /\ h.recovered = hal.recovered /\ h.ntf = hal.ntf
  BY <1>2 DEF HalBlock
<1>5. /\ Now.nfc.flags = nfc_cb.flags /\ Now.nfc.nci_cmd_xmit_q = nfc_cb.nci_cmd_xmit_q
      /\ Now.nfc.disc_on = nfc_cb.disc_on /\ Now.nfc.nci_cmd_window = nfc_cb.nci_cmd_window
      /\ Now.nfc.nci_wait_rsp_timer = nfc_cb.nci_wait_rsp_timer
      /\ Now.nfc.p_resp_cback = nfc_cb.p_resp_cback /\ Now.nfc.asked = nfc_cb.asked
      /\ Now.nfc.report = nfc_cb.report
  BY <1>2 DEF ControlBlock
<1> HIDE DEF h
<1>6. x \in Pair /\ x.nfc = Now.nfc /\ x.hal = h
  BY <1>2, <1>4, HalType
<1> HIDE DEF x
<1>7. /\ s \in Pair /\ s.hal = x.hal /\ s.nfc.nfc_state = "CORE_INIT"
      /\ s.nfc.p_resp_cback = x.nfc.p_resp_cback /\ s.nfc.asked = x.nfc.asked
      /\ s.nfc.report = x.nfc.report /\ s.nfc.flags = x.nfc.flags
      /\ s.nfc.nci_cmd_xmit_q = x.nfc.nci_cmd_xmit_q
      /\ s.nfc.disc_on = x.nfc.disc_on /\ s.nfc.nci_cmd_window = x.nfc.nci_cmd_window
      /\ s.nfc.nci_wait_rsp_timer = x.nfc.nci_wait_rsp_timer
  BY <1>6, SetStateFacts DEF NFC_STATE
<1> HIDE DEF s
<1>8. /\ hal.link = "OPEN" /\ hal.mbox = <<>> /\ hal.job = "none" /\ Silent(hal)
      /\ Asking(Here) /\ Bare(Here) /\ ~nfc_cb.nci_wait_rsp_timer /\ nfc_cb.nci_cmd_window > 0
  <2>1. CASE IsOpening(Here)
    <3>1. /\ hal.link = "OPEN" /\ hal.mbox = <<>> /\ Rested(Here) /\ Asking(Here)
      BY <1>2, <2>1 DEF IsOpening
    <3>2. /\ hal.job = "none" /\ Silent(hal) /\ Bare(Here) /\ ~nfc_cb.nci_wait_rsp_timer
          /\ nfc_cb.nci_cmd_window = NCI_MAX_CMD_WINDOW
      BY <1>2, <3>1 DEF Rested
    <3>3. nfc_cb.nci_cmd_window > 0
      BY <3>2, WindowAssumption
    <3> QED
      BY <3>1, <3>2, <3>3
  <2>2. CASE IsRetrying(Here)
    BY <1>2, <2>2 DEF IsRetrying
  <2> QED
    BY <1>3, <2>1, <2>2
<1>9. Asking(s) /\ Bare(s) /\ Silent(s.hal)
  <2>1. Asking(s)
    BY <1>2, <1>5, <1>6, <1>7, <1>8 DEF Asking, Going
  <2> QED
    BY <1>2, <1>4, <1>5, <1>6, <1>7, <1>8, <2>1 DEF Bare, Silent
<1>10. /\ AtStart(s) /\ s.hal.mbox = <<>> /\ Silent(s.hal) /\ ~s.nfc.nci_wait_rsp_timer
       /\ s.nfc.nci_cmd_window = nfc_cb.nci_cmd_window /\ s.nfc.report = "none"
  BY <1>4, <1>5, <1>6, <1>7, <1>8, <1>9 DEF AtStart, Asking
<1>11. /\ nfc_cb.nci_cmd_window # 0 /\ NCI_MAX_CMD_WINDOW \in Nat
       /\ nfc_cb.nci_cmd_window - 1 < NCI_MAX_CMD_WINDOW
  <2>1. nfc_cb.nci_cmd_window \in 0..NCI_MAX_CMD_WINDOW /\ NCI_MAX_CMD_WINDOW \in Nat
    BY <1>2, BlockTypes, WindowAssumption
  <2> QED
    BY <1>8, <2>1
<1>12. "CORE_RESET" \in StackCmd /\ c = Internal("CORE_RESET")
  BY DEF StackCmd
<1> HIDE DEF c, y
<1>13. LET k == Send(s, "CORE_RESET", ch) IN
       /\ k \in Pair /\ SameCourse(s, k) /\ k.nfc.disc_on = s.nfc.disc_on
       /\ k.nfc.flags = s.nfc.flags
       /\ k.hal.ntf = s.hal.ntf /\ k.hal.job = s.hal.job /\ k.hal.recovered = s.hal.recovered
       /\ ~ch.buf => k = s
       /\ (ch.buf /\ s.nfc.nci_cmd_window # 0) =>
            /\ k.nfc.nci_cmd_xmit_q = <<>> /\ k.nfc.last_hdr = "CORE_RESET"
            /\ k.nfc.nci_cmd_window = s.nfc.nci_cmd_window - 1
            /\ k.hal.pending = Append(s.hal.pending, Internal("CORE_RESET"))
  BY <1>2, <1>7, <1>10, <1>12, SentFacts
<1> DEFINE k == Send(s, "CORE_RESET", ch)
<1>14. k \in Pair /\ IsStarting(k) /\ k.nfc.report = "none"
  <2> HIDE DEF k
  <2>1. CASE ~ch.buf
    <3>1. IsStarting(s)
      BY <1>10 DEF IsStarting, Stuck
    <3>2. k = s
      BY <1>13, <2>1 DEF k
    <3> QED
      BY <1>7, <1>10, <3>1, <3>2
  <2>2. CASE ch.buf
    <3>1. /\ k \in Pair /\ SameCourse(s, k) /\ k.nfc.disc_on = s.nfc.disc_on
          /\ k.nfc.flags = s.nfc.flags
          /\ k.hal.ntf = s.hal.ntf /\ k.hal.job = s.hal.job /\ k.hal.recovered = s.hal.recovered
          /\ k.nfc.nci_cmd_xmit_q = <<>> /\ k.nfc.last_hdr = "CORE_RESET"
          /\ k.nfc.nci_cmd_window = s.nfc.nci_cmd_window - 1
          /\ k.hal.pending = Append(s.hal.pending, Internal("CORE_RESET"))
      BY <1>10, <1>11, <1>13, <2>2 DEF k
    <3>2. AtStart(k)
      BY <1>10, <3>1, StartKept
    <3>3. k.nfc.nci_cmd_window < NCI_MAX_CMD_WINDOW
      BY <1>10, <1>11, <3>1
    <3>4. k.hal.mbox = s.hal.mbox /\ k.nfc.report = s.nfc.report
      BY <3>1 DEF SameCourse
    <3>5. Append(<<>>, Internal("CORE_RESET")) = <<Internal("CORE_RESET")>>
      OBVIOUS
    <3>6. InFlight(k.hal, "CORE_RESET")
      BY <1>10, <3>1, <3>4, <3>5 DEF InFlight, Silent
    <3> QED
      BY <1>10, <3>1, <3>2, <3>3, <3>4, <3>6 DEF IsStarting, ResetSent
  <2> QED
    BY <2>1, <2>2
<1>15. Become(k)
  BY <1>1 DEF y
<1> HIDE DEF k
<1> QED
  BY <1>14, <1>15, Reached DEF Course, Says

LEMMA ExpiredFacts ==
  ASSUME NEW x \in Pair
  PROVE  LET y == Expired(x) IN
         /\ y \in Pair /\ y.hal = x.hal /\ ~y.nfc.nci_wait_rsp_timer
         /\ y.nfc.nfc_state = x.nfc.nfc_state /\ y.nfc.p_resp_cback = x.nfc.p_resp_cback
         /\ y.nfc.asked = x.nfc.asked /\ y.nfc.report = x.nfc.report /\ y.nfc.flags = x.nfc.flags
         /\ y.nfc.nci_cmd_xmit_q = x.nfc.nci_cmd_xmit_q /\ y.nfc.last_hdr = x.nfc.last_hdr
         /\ y.nfc.disc_on = x.nfc.disc_on /\ y.nfc.nci_cmd_window = x.nfc.nci_cmd_window
<1> DEFINE n == [x.nfc EXCEPT !.nci_wait_rsp_timer = FALSE]
           y == Expired(x)
<1>1. y \in Pair /\ x.nfc \in ControlBlock
  BY ExpiredType, PairFields
<1>2. /\ ~n.nci_wait_rsp_timer
      /\ n.nfc_state = x.nfc.nfc_state /\ n.p_resp_cback = x.nfc.p_resp_cback
      /\ n.asked = x.nfc.asked /\ n.report = x.nfc.report /\ n.flags = x.nfc.flags
      /\ n.nci_cmd_xmit_q = x.nfc.nci_cmd_xmit_q /\ n.last_hdr = x.nfc.last_hdr
      /\ n.disc_on = x.nfc.disc_on /\ n.nci_cmd_window = x.nfc.nci_cmd_window
  BY <1>1 DEF ControlBlock
<1>3. y.nfc = n /\ y.hal = x.hal
  BY DEF Expired, Nfc
<1> HIDE DEF n, y
<1> QED
  BY <1>1, <1>2, <1>3 DEF y

(* A lost response of a start: the HAL sends the command again, or the     *)
(* start ends.                                                             *)
LEMMA StartTimeout ==
  ASSUME Typed, NEW x \in Pair, AtStart(x), LostRsp(x.hal), NEW ch \in Choice,
         \/ x.nfc.last_hdr = "CORE_RESET" /\ x.nfc.nci_cmd_window < NCI_MAX_CMD_WINDOW
         \/ x.nfc.last_hdr = "CORE_INIT" /\ x.nfc.nci_cmd_window < NCI_MAX_CMD_WINDOW
  PROVE  LET y == CmdTimeout(x, ch) IN y \in Pair /\ (IsStarting(y) \/ IsFailing(y))
<1> DEFINE e == Expired(x)
           op == x.nfc.last_hdr
           y == CmdTimeout(x, ch)
<1>1. /\ e \in Pair /\ e.hal = x.hal /\ ~e.nfc.nci_wait_rsp_timer
      /\ e.nfc.nfc_state = x.nfc.nfc_state /\ e.nfc.p_resp_cback = x.nfc.p_resp_cback
      /\ e.nfc.asked = x.nfc.asked /\ e.nfc.report = x.nfc.report /\ e.nfc.flags = x.nfc.flags
      /\ e.nfc.nci_cmd_xmit_q = x.nfc.nci_cmd_xmit_q /\ e.nfc.last_hdr = x.nfc.last_hdr
      /\ e.nfc.disc_on = x.nfc.disc_on /\ e.nfc.nci_cmd_window = x.nfc.nci_cmd_window
  BY ExpiredFacts
<1>2. op \in StackCmd /\ op \notin UserCmds /\ op # "NONE"
  BY EnvTypes DEF StackCmd
<1>3. ~x.nfc.disc_on /\ x.nfc.nfc_state = "CORE_INIT" /\ x.hal.link = "OPEN"
  BY DEF AtStart, Bare
<1>4. y \in Pair
  BY TimeoutType
<1>5. <<>> \o <<Internal(op)>> = <<Internal(op)>>
  OBVIOUS
<1>6. y = Resend(IF ~ch.fw THEN Enabled(e, FALSE, ch) ELSE e, <<Internal(op)>>)
  <2>1. Internal(op) = [op |-> op, id |-> 0]
    BY DEF Internal
  <2> HIDE DEF op, e
  <2>2. y = Resend(IF ~ch.fw THEN Enabled(e, FALSE, ch) ELSE e, <<>> \o <<Internal(op)>>)
    BY <1>2, <1>3, <2>1 DEF CmdTimeout, e, op
  <2> QED
    BY <1>5, <2>2
<1> HIDE DEF e, y
<1>7. Asking(e)
  BY <1>1 DEF AtStart, Asking, Going
<1>8. CASE ~ch.fw
  <2>1. "sleep" \notin env.calls /\ x.hal.mbox = <<>> /\ ~x.hal.ready
    BY DEF LostRsp, AtStart
  <2>2. "RESTARTING" \notin e.nfc.flags
    BY <1>7, <2>1 DEF Asking, Going, Reasons
  <2>3. Enabled(e, FALSE, ch) = HalClose(e)
    BY <1>1, <1>3, <2>2 DEF Enabled
  <2>4. /\ HalClose(e) \in Pair /\ HalClose(e).nfc = e.nfc /\ HalClose(e).hal.mbox = e.hal.mbox
        /\ HalClose(e).hal.ready = e.hal.ready /\ HalClose(e).hal.link = "CLOSING"
    BY <1>1, CloseFacts
  <2>5. y = HalClose(e)
    BY <1>6, <1>8, <2>3, <2>4 DEF Resend
  <2>6. Asking(y)
    BY <1>7, <2>4, <2>5 DEF Asking, Going
  <2>7. IsFailing(y)
    BY <1>1, <1>3, <2>1, <2>4, <2>5, <2>6 DEF IsFailing
  <2> QED
    BY <1>4, <2>7 DEF y
<1>9. CASE ch.fw
  <2> DEFINE h == [e.hal EXCEPT !.pending = <<>>, !.ntf = FALSE, !.recovered = <<Internal(op)>>]
  <2>1. e.hal \in HalBlock
    BY <1>1, PairFields
  <2>2. y = Hal(e, h)
    BY <1>1, <1>3, <1>6, <1>9 DEF Resend
  <2>3. /\ h.pending = <<>> /\ ~h.ntf /\ h.recovered = <<Internal(op)>>
        /\ h.link = x.hal.link /\ h.ready = x.hal.ready /\ h.job = x.hal.job
        /\ h.mbox = x.hal.mbox
    BY <1>1, <2>1 DEF HalBlock
  <2> HIDE DEF h
  <2>4. y.nfc = e.nfc /\ y.hal = h
    BY <2>2 DEF Hal
  <2>5. InFlight(y.hal, op)
    BY <2>3, <2>4 DEF InFlight, LostRsp
  <2>6. AtStart(y)
    <3>1. Asking(y)
      BY <1>7, <2>4 DEF Asking, Going
    <3> QED
      BY <1>1, <2>3, <2>4, <3>1 DEF AtStart, Bare
  <2>7. IsStarting(y)
    BY <1>1, <2>4, <2>5, <2>6 DEF IsStarting, ResetSent, InitSent
  <2> QED
    BY <1>4, <2>7 DEF y
<1> QED
  BY <1>8, <1>9

(* The pair a handler starts from. *)
LEMMA NowSame ==
  ASSUME TypeOK
  PROVE  /\ Typed /\ Here \in Pair /\ Now \in Pair /\ nfc_cb \in ControlBlock /\ hal \in HalBlock
         /\ Here.nfc = nfc_cb /\ Here.hal = hal /\ Now.hal = hal /\ Still(nfc_cb, Now.nfc)
<1>1. /\ Typed /\ Here \in Pair /\ Now \in Pair /\ nfc_cb \in ControlBlock /\ hal \in HalBlock
      /\ Now.nfc = [nfc_cb EXCEPT !.back = NoBack] /\ Now.hal = hal
      /\ Here.nfc = nfc_cb /\ Here.hal = hal
  BY TypeFacts, NowTwin DEF TypeOK
<1>2. Still(nfc_cb, Now.nfc)
  BY <1>1 DEF Still, ControlBlock
<1> QED
  BY <1>1, <1>2

LEMMA SameHere ==
  ASSUME TypeOK, NEW x, Still(nfc_cb, x.nfc), SameHal(hal, x.hal)
  PROVE  SamePair(Here, x)
BY NowSame DEF SamePair

LEMMA TimeoutTold == ASSUME TypeOK, Course(Here), WaitRspTimeout PROVE Told
<1> DEFINE x == Hal(Now, hal)
<1>1. PICK ch \in Choice : Become(CmdTimeout(x, ch))
  BY DEF WaitRspTimeout, TimeoutBut
<1>2. /\ nfc_cb.nci_wait_rsp_timer /\ nfc_cb.nfc_state \notin {"W4_HAL_CLOSE", "NONE"}
      /\ hal.pending = <<>> /\ ~hal.ntf /\ hal.recovered = <<>>
      /\ \A i \in DOMAIN hal.mbox : hal.mbox[i].mt = "EVT"
  BY DEF WaitRspTimeout, TimeoutBut, Coming
<1>3. x \in Pair /\ x.nfc = Now.nfc /\ x.hal = hal
  BY NowSame, HalType
<1> HIDE DEF x
<1>4. SamePair(Here, x) /\ x.hal.mbox = Here.hal.mbox
  BY <1>3, NowSame, SameHere DEF SameHal
<1> DEFINE y == CmdTimeout(x, ch)
<1>5. CASE IsIdle(Here)
  <2>1. IsIdle(x) /\ x.nfc.nfc_state # "CORE_INIT"
    BY <1>4, <1>5, SameSituation DEF IsIdle
  <2>2. Tame(x, y)
    BY <1>3, <2>1, NowSame, TameTimeout
  <2> HIDE DEF y
  <2>3. y \in Pair /\ IsIdle(y) /\ y.nfc.report = x.nfc.report /\ x.nfc.report = Here.nfc.report
    BY <1>4, <2>1, <2>2, TameIdle DEF Tame, SameCourse, SamePair, Still
  <2>4. Course(y) /\ Says(Here, y)
    BY <2>3 DEF Course, Says
  <2> QED
    BY <1>1, <2>3, <2>4, Reached DEF y
<1>6. CASE IsStarting(Here)
  <2>1. AtStart(Here) /\ (ResetSent(Here) \/ InitSent(Here))
    BY <1>2, <1>6, NowSame DEF IsStarting, NtfDue, Stuck
  <2>2. LostRsp(hal)
    <3>1. \A op : hal.pending # <<Internal(op)>> /\ hal.recovered # <<Internal(op)>>
      BY <1>2
    <3>2. \A op, ok : hal.mbox # <<Rsp(Internal(op), ok)>>
      <4>1. \A m : m.mt = "RSP" => hal.mbox # <<m>>
        BY <1>2
      <4> QED
        BY <4>1 DEF Rsp
    <3>3. \A op, ok, k : hal.mbox # <<Rsp(Internal(op), ok), k>>
      <4>1. \A m, k : m.mt = "RSP" => hal.mbox # <<m, k>>
        BY <1>2
      <4> QED
        BY <4>1 DEF Rsp
    <3> QED
      BY <2>1, <3>1, <3>2, <3>3, NowSame DEF ResetSent, InitSent, InFlight
  <2>3. AtStart(x) /\ LostRsp(x.hal)
    BY <1>3, <1>4, <2>1, <2>2, SameStart
  <2>4. \/ x.nfc.last_hdr = "CORE_RESET" /\ x.nfc.nci_cmd_window < NCI_MAX_CMD_WINDOW
        \/ x.nfc.last_hdr = "CORE_INIT" /\ x.nfc.nci_cmd_window < NCI_MAX_CMD_WINDOW
    BY <1>2, <1>4, <2>1, NowSame DEF ResetSent, InitSent, SamePair, Still
  <2>5. y \in Pair /\ (IsStarting(y) \/ IsFailing(y))
    BY <1>3, <2>3, <2>4, NowSame, StartTimeout
  <2>6. Here.nfc.report = "none"
    BY <2>1 DEF AtStart, Asking
  <2> HIDE DEF y
  <2>7. Course(y) /\ Says(Here, y)
    BY <2>5, <2>6 DEF Course, Says
  <2> QED
    BY <1>1, <2>5, <2>7, Reached DEF y
<1> QED
  BY <1>2, <1>5, <1>6, NowSame
     DEF Course, IsOff, IsOpening, IsRetrying, IsFailing, IsPostInit, IsClosing, IsAsleep, HasFailed, Rested

-----------------------------------------------------------------------------
(* Calls of the API.                                                       *)

LEMMA EnableTold == ASSUME TypeOK, Course(Here), NfcEnable PROVE Told
<1> DEFINE n == [InitNfcCb EXCEPT !.p_resp_cback = TRUE, !.asked = "ENABLE"]
           h == [hal EXCEPT !.calls = @ + 1, !.mbox = <<>>, !.ready = FALSE]
           x == [nfc |-> n, hal |-> h]
           y == HalOpen(x)
<1>1. Become(y) /\ hal.calls < MaxCalls
  BY DEF NfcEnable
<1>2. Typed /\ hal \in HalBlock /\ MaxCalls \in Nat /\ InitNfcCb \in ControlBlock
  BY NowSame, EnvTypes, InitTypes
<1>3. n \in ControlBlock
  BY <1>2 DEF ControlBlock, Request
<1>4. /\ n.nfc_state = "NONE" /\ n.flags = {} /\ n.nci_cmd_window = NCI_MAX_CMD_WINDOW
      /\ n.nci_cmd_xmit_q = <<>> /\ ~n.nci_wait_rsp_timer /\ ~n.disc_on /\ n.p_resp_cback
      /\ n.asked = "ENABLE" /\ n.report = "none"
  BY DEF InitNfcCb
<1>5. h \in HalBlock
  <2>1. hal.calls + 1 \in 0..MaxCalls /\ <<>> \in Seq(Message)
    BY <1>1, <1>2, HalTypes
  <2> QED
    BY <1>2, <2>1 DEF HalBlock
<1>6. h.mbox = <<>> /\ ~h.ready
  BY <1>2 DEF HalBlock
<1> HIDE DEF n, h
<1>7. x \in Pair /\ x.nfc = n /\ x.hal = h
  BY <1>3, <1>5 DEF Pair
<1> HIDE DEF x, y
<1>8. /\ y \in Pair /\ y.nfc = [x.nfc EXCEPT !.nfc_state = "W4_HAL_OPEN"]
      /\ y.hal.mbox = x.hal.mbox /\ y.hal.ready = x.hal.ready
      /\ y.hal.link = "OPENING" /\ y.hal.pending = <<>> /\ y.hal.job = "none"
      /\ ~y.hal.ntf /\ y.hal.recovered = <<>>
  BY <1>7, OpenFacts DEF y
<1>9. /\ y.nfc.nfc_state = "W4_HAL_OPEN" /\ y.nfc.flags = {}
      /\ y.nfc.nci_cmd_window = NCI_MAX_CMD_WINDOW
      /\ y.nfc.nci_cmd_xmit_q = <<>> /\ ~y.nfc.nci_wait_rsp_timer /\ ~y.nfc.disc_on
      /\ y.nfc.p_resp_cback /\ y.nfc.asked = "ENABLE" /\ y.nfc.report = "none"
  BY <1>3, <1>4, <1>7, <1>8 DEF ControlBlock
<1>10. Asking(y) /\ Rested(y)
  BY <1>8, <1>9 DEF Asking, Going, Rested, Bare, Silent
<1>11. IsOpening(y)
  BY <1>6, <1>7, <1>8, <1>9, <1>10 DEF IsOpening
<1> QED
  BY <1>1, <1>8, <1>9, <1>11, Reached DEF Course, Says

(* What a shutdown leaves. *)
LEMMA ShutdownFacts ==
  ASSUME NEW x \in Pair
  PROVE  LET y == ShutdownNfcc(x) IN
         /\ y \in Pair /\ Rested(y) /\ y.nfc.p_resp_cback = x.nfc.p_resp_cback
         /\ y.nfc.asked = x.nfc.asked /\ y.nfc.report = x.nfc.report /\ Going(y) = Going(x)
         /\ y.hal.ready = x.hal.ready /\ y.hal.mbox = <<>>
         /\ Going(x) = {"POWER_CYCLE_NFCC"} =>
              y.nfc.nfc_state = "W4_HAL_OPEN" /\ y.hal.link = "OPENING"
         /\ Going(x) \in {{}, {"POWER_OFF_SLEEP"}} =>
              y.nfc.nfc_state = "W4_HAL_CLOSE" /\ y.hal.link = "CLOSING"
<1> DEFINE h == [x.hal EXCEPT !.mbox = <<>>]
           e == Hal(x, h)
           f == e.nfc.flags \ {"DISCOVER_PENDING", "CONTROL_REQUESTED", "CONTROL_GRANTED", "HAL_REQUESTED"}
           n == [e.nfc EXCEPT !.flags = f, !.p_disc_pending = @ /\ "DISCOVER_PENDING" \notin e.nfc.flags,
                              !.disc_on = FALSE, !.p_nci_init_rsp = FALSE]
           c == [n EXCEPT !.nci_cmd_window = NCI_MAX_CMD_WINDOW, !.nci_wait_rsp_timer = FALSE,
                          !.nci_cmd_xmit_q = <<>>]
           z == GenCleanup(e)
           y == ShutdownNfcc(x)
<1>1. x.hal \in HalBlock /\ x.nfc \in ControlBlock /\ y \in Pair
  BY PairFields, ShutdownType
<1>2. h \in HalBlock /\ h.mbox = <<>> /\ h.ready = x.hal.ready
  <2>1. <<>> \in Seq(Message)
    OBVIOUS
  <2> HIDE DEF e, y
  <2> QED
    BY <1>1, <2>1 DEF HalBlock
<1> HIDE DEF h
<1>3. e \in Pair /\ e.nfc = x.nfc /\ e.hal = h
  BY <1>2, HalType
<1>4. y = IF "POWER_OFF_SLEEP" \notin x.nfc.flags /\ "POWER_CYCLE_NFCC" \in x.nfc.flags
          THEN HalOpen(z) ELSE HalClose(SetState(z, "W4_HAL_CLOSE"))
  BY DEF ShutdownNfcc, h
<1> HIDE DEF e, y
<1>5. z \in Pair
  BY <1>3, CleanupType
<1>6. z.nfc = c /\ z.hal = e.hal
  BY DEF GenCleanup, FlushCmdQueue, Nfc
<1> HIDE DEF z
<1>7. /\ c.p_resp_cback = x.nfc.p_resp_cback /\ c.asked = x.nfc.asked /\ c.report = x.nfc.report
      /\ c.flags = f /\ ~c.disc_on /\ c.nci_cmd_window = NCI_MAX_CMD_WINDOW
      /\ ~c.nci_wait_rsp_timer /\ c.nci_cmd_xmit_q = <<>>
  BY <1>1, <1>3 DEF ControlBlock
<1>8. f \cap Reasons = Going(x) /\ "CONTROL_REQUESTED" \notin f
  BY <1>3 DEF Going, Reasons
<1> HIDE DEF n, c, f
<1>9. CASE "POWER_OFF_SLEEP" \notin x.nfc.flags /\ "POWER_CYCLE_NFCC" \in x.nfc.flags
  <2>1. /\ y.nfc = [z.nfc EXCEPT !.nfc_state = "W4_HAL_OPEN"]
        /\ y.hal.mbox = z.hal.mbox /\ y.hal.ready = z.hal.ready
        /\ y.hal.link = "OPENING" /\ y.hal.pending = <<>> /\ y.hal.job = "none"
        /\ ~y.hal.ntf /\ y.hal.recovered = <<>>
    BY <1>4, <1>5, <1>9, OpenFacts
  <2>2. /\ y.nfc.nfc_state = "W4_HAL_OPEN" /\ y.nfc.p_resp_cback = c.p_resp_cback
        /\ y.nfc.asked = c.asked /\ y.nfc.report = c.report /\ y.nfc.flags = c.flags
        /\ y.nfc.disc_on = c.disc_on /\ y.nfc.nci_cmd_window = c.nci_cmd_window
        /\ y.nfc.nci_wait_rsp_timer = c.nci_wait_rsp_timer
        /\ y.nfc.nci_cmd_xmit_q = c.nci_cmd_xmit_q
    BY <1>5, <1>6, <2>1, PairFields DEF ControlBlock
  <2>3. Rested(y) /\ Going(y) = Going(x)
    BY <1>7, <1>8, <2>1, <2>2 DEF Rested, Bare, Silent, Going
  <2>4. Going(x) \notin {{}, {"POWER_OFF_SLEEP"}}
    BY <1>9 DEF Going, Reasons
  <2> QED
    BY <1>1, <1>2, <1>3, <1>6, <1>7, <2>1, <2>2, <2>3, <2>4 DEF y
<1>10. CASE ~("POWER_OFF_SLEEP" \notin x.nfc.flags /\ "POWER_CYCLE_NFCC" \in x.nfc.flags)
  <2> DEFINE s == SetState(z, "W4_HAL_CLOSE")
  <2>1. /\ s \in Pair /\ s.hal = z.hal /\ s.nfc.nfc_state = "W4_HAL_CLOSE"
        /\ s.nfc.p_resp_cback = z.nfc.p_resp_cback /\ s.nfc.asked = z.nfc.asked
        /\ s.nfc.report = z.nfc.report /\ s.nfc.flags = z.nfc.flags
        /\ s.nfc.nci_cmd_xmit_q = z.nfc.nci_cmd_xmit_q
        /\ s.nfc.disc_on = z.nfc.disc_on /\ s.nfc.nci_cmd_window = z.nfc.nci_cmd_window
        /\ s.nfc.nci_wait_rsp_timer = z.nfc.nci_wait_rsp_timer
    BY <1>5, SetStateFacts DEF NFC_STATE
  <2> HIDE DEF s
  <2>2. y = HalClose(s)
    BY <1>4, <1>10 DEF s
  <2>3. /\ y.nfc = s.nfc /\ y.hal.mbox = s.hal.mbox /\ y.hal.ready = s.hal.ready
        /\ y.hal.link = "CLOSING" /\ y.hal.pending = <<>> /\ y.hal.job = "none"
        /\ ~y.hal.ntf /\ y.hal.recovered = <<>>
    BY <2>1, <2>2, CloseFacts
  <2>4. Rested(y) /\ Going(y) = Going(x)
    BY <1>6, <1>7, <1>8, <2>1, <2>3 DEF Rested, Bare, Silent, Going
  <2>5. Going(x) # {"POWER_CYCLE_NFCC"}
    BY <1>10 DEF Going, Reasons
  <2> QED
    BY <1>1, <1>2, <1>3, <1>6, <1>7, <2>1, <2>3, <2>4, <2>5 DEF y
<1> QED
  BY <1>9, <1>10

(* A request, with the flag it sets. *)
LEMMA AskFacts ==
  ASSUME NEW x \in Pair, NEW f \in SUBSET NFC_FL, NEW r \in Request,
         "CONTROL_REQUESTED" \notin f
  PROVE  LET y == Asked(Flagged(x, f), r) IN
         /\ y \in Pair /\ y.hal = x.hal /\ y.nfc.asked = r /\ y.nfc.report = "none"
         /\ y.nfc.flags = x.nfc.flags \cup f /\ y.nfc.p_resp_cback = x.nfc.p_resp_cback
         /\ y.nfc.nfc_state = x.nfc.nfc_state
         /\ Rested(x) => Rested(y)
<1> DEFINE g == x.nfc.flags \cup f
           n == [x.nfc EXCEPT !.flags = g]
           m == [n EXCEPT !.asked = r, !.report = "none"]
           z == Flagged(x, f)
           y == Asked(z, r)
<1>1. x.nfc \in ControlBlock /\ z \in Pair
  BY PairFields, FlaggedType
<1>2. y \in Pair
  BY <1>1, AskedType
<1>3. z.nfc = n /\ z.hal = x.hal
  BY DEF Flagged, Nfc
<1> HIDE DEF z
<1>4. y.nfc = m /\ y.hal = x.hal
  BY <1>3 DEF Asked, Nfc
<1> HIDE DEF y, g
<1>5. /\ m.asked = r /\ m.report = "none" /\ m.flags = g /\ m.p_resp_cback = x.nfc.p_resp_cback
      /\ m.nfc_state = x.nfc.nfc_state /\ m.nci_cmd_xmit_q = x.nfc.nci_cmd_xmit_q
      /\ m.disc_on = x.nfc.disc_on /\ m.nci_cmd_window = x.nfc.nci_cmd_window
      /\ m.nci_wait_rsp_timer = x.nfc.nci_wait_rsp_timer
  BY <1>1 DEF ControlBlock
<1> HIDE DEF n, m
<1>6. Rested(x) => Rested(y)
  BY <1>4, <1>5 DEF Rested, Bare, g
<1> QED
  BY <1>2, <1>4, <1>5, <1>6 DEF y, z, g

LEMMA AskedSame ==
  ASSUME NEW x \in Pair, NEW r \in Request
  PROVE  LET y == Asked(x, r) IN
         /\ y \in Pair /\ y.hal = x.hal /\ y.nfc.asked = r /\ y.nfc.report = "none"
         /\ y.nfc.flags = x.nfc.flags /\ y.nfc.p_resp_cback = x.nfc.p_resp_cback
<1> DEFINE m == [x.nfc EXCEPT !.asked = r, !.report = "none"]
           y == Asked(x, r)
<1>1. x.nfc \in ControlBlock /\ y \in Pair
  BY PairFields, AskedType
<1>2. y.nfc = m /\ y.hal = x.hal
  BY DEF Asked, Nfc
<1>3. /\ m.asked = r /\ m.report = "none" /\ m.flags = x.nfc.flags
      /\ m.p_resp_cback = x.nfc.p_resp_cback
  BY <1>1 DEF ControlBlock
<1> HIDE DEF m, y
<1> QED
  BY <1>1, <1>2, <1>3 DEF y

(* The situations tell which state the stack is in. *)
LEMMA Situated ==
  ASSUME Course(Here)
  PROVE  /\ nfc_cb.nfc_state = "IDLE" => IsIdle(Here)
         /\ nfc_cb.nfc_state = "NFCC_POWER_OFF_SLEEP" => IsAsleep(Here)
         /\ nfc_cb.nfc_state = "W4_HAL_OPEN" => IsOpening(Here)
         /\ nfc_cb.p_resp_cback /\ nfc_cb.nfc_state = "NONE" => HasFailed(Here)
         /\ nfc_cb.p_resp_cback /\ nfc_cb.report # "none" =>
              IsIdle(Here) \/ IsAsleep(Here) \/ HasFailed(Here)
BY DEF Here, Course, IsOff, IsOpening, IsStarting, AtStart, IsRetrying, IsFailing, IsPostInit, IsIdle,
       IsClosing, IsAsleep, HasFailed, Asking

LEMMA DisableTold == ASSUME TypeOK, Timely, Course(Here), NfcDisable PROVE Told
<1> DEFINE x == Asked(Now, "DISABLE")
<1>1. /\ nfc_cb.p_resp_cback /\ nfc_cb.report # "none"
      /\ Become(IF nfc_cb.nfc_state \in {"NONE", "NFCC_POWER_OFF_SLEEP"}
                THEN Disabled(x) ELSE ShutdownNfcc(x))
  <2>1. nfc_cb.p_resp_cback /\ nfc_cb.report # "none" /\ Become(Disable(x))
    BY DEF NfcDisable, Timely
  <2>2. x.nfc.nfc_state = nfc_cb.nfc_state
    <3>1. Now.nfc.nfc_state = nfc_cb.nfc_state /\ Now.nfc \in ControlBlock
      BY NowSame, PairFields DEF Still
    <3> QED
      BY <3>1 DEF Asked, Nfc, ControlBlock
  <2> HIDE DEF x
  <2> QED
    BY <2>1, <2>2 DEF Disable
<1>2. IsIdle(Here) \/ IsAsleep(Here) \/ HasFailed(Here)
  BY <1>1, Situated
<1>3. /\ x \in Pair /\ x.hal = hal /\ x.nfc.asked = "DISABLE" /\ x.nfc.report = "none"
      /\ x.nfc.flags = nfc_cb.flags /\ x.nfc.p_resp_cback = nfc_cb.p_resp_cback
  BY NowSame, AskedSame DEF Request, Still
<1> HIDE DEF x
<1>4. CASE IsIdle(Here)
  <2> DEFINE y == ShutdownNfcc(x)
  <2>1. nfc_cb.nfc_state = "IDLE" /\ Going(Here) = {} /\ ~hal.ready
    BY <1>4, NowSame DEF IsIdle
  <2>2. Become(y)
    BY <1>1, <2>1
  <2>3. Going(x) = {}
    BY <1>3, <2>1, NowSame DEF Going
  <2>4. /\ y \in Pair /\ Rested(y) /\ y.nfc.p_resp_cback = x.nfc.p_resp_cback
        /\ y.nfc.asked = x.nfc.asked /\ y.nfc.report = x.nfc.report /\ Going(y) = Going(x)
        /\ y.hal.ready = x.hal.ready /\ y.hal.mbox = <<>>
        /\ Going(x) \in {{}, {"POWER_OFF_SLEEP"}} =>
             y.nfc.nfc_state = "W4_HAL_CLOSE" /\ y.hal.link = "CLOSING"
    BY <1>3, ShutdownFacts
  <2> HIDE DEF y
  <2>5. IsClosing(y)
    BY <1>1, <1>3, <2>1, <2>3, <2>4 DEF IsClosing
  <2> QED
    BY <1>3, <2>2, <2>4, <2>5, Reached DEF Course, Says
<1>5. CASE IsAsleep(Here) \/ HasFailed(Here)
  <2> DEFINE n == [x.nfc EXCEPT !.nfc_state = "NONE", !.report = "DISABLE", !.p_resp_cback = FALSE]
             y == Disabled(x)
  <2>1. /\ nfc_cb.nfc_state \in {"NONE", "NFCC_POWER_OFF_SLEEP"} /\ nfc_cb.asked # "DISABLE"
        /\ hal.link = "CLOSED" /\ ~hal.ready /\ hal.mbox = <<>>
    BY <1>5, NowSame DEF IsAsleep, HasFailed
  <2>2. Become(y)
    BY <1>1, <2>1
  <2>3. y \in Pair /\ x.nfc \in ControlBlock
    BY <1>3, DisabledType, PairFields
  <2>4. n.nfc_state = "NONE" /\ n.report = "DISABLE" /\ ~n.p_resp_cback /\ n.asked = x.nfc.asked
    BY <2>3 DEF ControlBlock
  <2>5. y.nfc = n /\ y.hal = x.hal
    BY DEF Disabled, Nfc
  <2> HIDE DEF n, y
  <2>6. IsOff(y)
    BY <1>3, <2>1, <2>4, <2>5 DEF IsOff
  <2>7. Says(Here, y)
    BY <1>3, <2>1, <2>4, <2>5, NowSame DEF Says
  <2> QED
    BY <2>2, <2>3, <2>6, <2>7, Reached DEF Course
<1> QED
  BY <1>2, <1>4, <1>5

(* The stack is shut down to be put to sleep or powered anew. *)
LEMMA ShutTold ==
  ASSUME TypeOK, IsIdle(Here), NEW x \in Pair, NEW r \in Request, NEW why,
         x.hal.ready = hal.ready, x.nfc.asked = r, x.nfc.report = "none",
         x.nfc.flags = nfc_cb.flags \cup {why}, x.nfc.p_resp_cback = nfc_cb.p_resp_cback,
         \/ r = "POWER_OFF" /\ why = "POWER_OFF_SLEEP"
         \/ r = "RESTART" /\ why = "POWER_CYCLE_NFCC",
         Become(ShutdownNfcc(x))
  PROVE  Told
<1> DEFINE y == ShutdownNfcc(x)
<1>1. Going(Here) = {} /\ ~hal.ready /\ nfc_cb.p_resp_cback
  BY NowSame DEF IsIdle
<1>2. Going(x) = {why}
  BY <1>1, NowSame DEF Going, Reasons
<1>3. /\ y \in Pair /\ Rested(y) /\ y.nfc.p_resp_cback = x.nfc.p_resp_cback
      /\ y.nfc.asked = x.nfc.asked /\ y.nfc.report = x.nfc.report /\ Going(y) = Going(x)
      /\ y.hal.ready = x.hal.ready /\ y.hal.mbox = <<>>
      /\ Going(x) = {"POWER_CYCLE_NFCC"} =>
           y.nfc.nfc_state = "W4_HAL_OPEN" /\ y.hal.link = "OPENING"
      /\ Going(x) \in {{}, {"POWER_OFF_SLEEP"}} =>
           y.nfc.nfc_state = "W4_HAL_CLOSE" /\ y.hal.link = "CLOSING"
  BY ShutdownFacts
<1>4. Become(y)
  OBVIOUS
<1> HIDE DEF y
<1>5. CASE r = "POWER_OFF" /\ why = "POWER_OFF_SLEEP"
  <2>1. IsClosing(y)
    BY <1>1, <1>2, <1>3, <1>5 DEF IsClosing
  <2> QED
    BY <1>3, <1>4, <2>1, Reached DEF Course, Says
<1>6. CASE r = "RESTART" /\ why = "POWER_CYCLE_NFCC"
  <2>1. Asking(y)
    BY <1>1, <1>2, <1>3, <1>6 DEF Asking
  <2>2. IsOpening(y)
    BY <1>1, <1>2, <1>3, <1>6, <2>1 DEF IsOpening
  <2> QED
    BY <1>3, <1>4, <2>2, Reached DEF Course, Says
<1> QED
  BY <1>5, <1>6

LEMMA PowerTold == ASSUME TypeOK, Course(Here), NfcSetPowerOffSleep \/ NfcPowerCycleNFCC PROVE Told
<1> DEFINE x == Called(Now)
           a == Asked(Flagged(x, {"RESTARTING"}), "RESTART")
           b == Asked(Flagged(x, {"POWER_OFF_SLEEP"}), "POWER_OFF")
           c == Asked(Flagged(x, {"POWER_CYCLE_NFCC"}), "RESTART")
<1>1. hal.calls < MaxCalls
  BY DEF NfcSetPowerOffSleep, NfcPowerCycleNFCC, MayCall
<1>2. x \in Pair /\ x.nfc = Now.nfc /\ SamePair(Here, x) /\ x.hal.mbox = Here.hal.mbox
  <2>1. x \in Pair /\ x.nfc = Now.nfc
    BY <1>1, CalledNow
  <2>2. x.hal = [hal EXCEPT !.calls = @ + 1]
    BY NowSame DEF Called, Hal
  <2> HIDE DEF x
  <2>3. SameHal(hal, x.hal) /\ x.hal.mbox = hal.mbox
    BY <2>2, NowSame DEF SameHal, HalBlock
  <2> QED
    BY <2>1, <2>3, NowSame, SameHere
<1>3. /\ {"RESTARTING"} \in SUBSET NFC_FL /\ {"POWER_OFF_SLEEP"} \in SUBSET NFC_FL
      /\ {"POWER_CYCLE_NFCC"} \in SUBSET NFC_FL
      /\ "RESTART" \in Request /\ "POWER_OFF" \in Request
  BY DEF NFC_FL, Request
<1>4. /\ x.nfc.flags = nfc_cb.flags /\ x.nfc.p_resp_cback = nfc_cb.p_resp_cback
      /\ x.nfc.nfc_state = nfc_cb.nfc_state /\ x.hal.ready = hal.ready
  BY <1>2, NowSame DEF SamePair, SameHal, Still
<1> HIDE DEF x
<1>5. /\ a \in Pair /\ a.hal = x.hal /\ a.nfc.asked = "RESTART" /\ a.nfc.report = "none"
      /\ a.nfc.flags = x.nfc.flags \cup {"RESTARTING"} /\ a.nfc.p_resp_cback = x.nfc.p_resp_cback
      /\ a.nfc.nfc_state = x.nfc.nfc_state /\ (Rested(x) => Rested(a))
  BY <1>2, <1>3, AskFacts
<1>6. /\ b \in Pair /\ b.hal = x.hal /\ b.nfc.asked = "POWER_OFF" /\ b.nfc.report = "none"
      /\ b.nfc.flags = x.nfc.flags \cup {"POWER_OFF_SLEEP"}
      /\ b.nfc.p_resp_cback = x.nfc.p_resp_cback
  BY <1>2, <1>3, AskFacts
<1>7. /\ c \in Pair /\ c.hal = x.hal /\ c.nfc.asked = "RESTART" /\ c.nfc.report = "none"
      /\ c.nfc.flags = x.nfc.flags \cup {"POWER_CYCLE_NFCC"}
      /\ c.nfc.p_resp_cback = x.nfc.p_resp_cback
  BY <1>2, <1>3, AskFacts
<1>8. \/ "sleep" \in env.calls /\ nfc_cb.nfc_state = "NFCC_POWER_OFF_SLEEP" /\ Become(HalOpen(a))
      \/ nfc_cb.nfc_state = "IDLE" /\ Become(ShutdownNfcc(b))
      \/ nfc_cb.nfc_state = "IDLE" /\ Become(ShutdownNfcc(c))
  BY DEF NfcSetPowerOffSleep, NfcPowerCycleNFCC, MayCall, x
<1> HIDE DEF a, b, c
<1>9. CASE "sleep" \in env.calls /\ nfc_cb.nfc_state = "NFCC_POWER_OFF_SLEEP" /\ Become(HalOpen(a))
  <2> DEFINE y == HalOpen(a)
  <2>1. IsAsleep(x)
    BY <1>2, <1>9, Situated, SameSituation
  <2>2. /\ y \in Pair /\ y.nfc = [a.nfc EXCEPT !.nfc_state = "W4_HAL_OPEN"]
        /\ y.hal.mbox = a.hal.mbox /\ y.hal.ready = a.hal.ready
        /\ y.hal.link = "OPENING" /\ y.hal.pending = <<>> /\ y.hal.job = "none"
        /\ ~y.hal.ntf /\ y.hal.recovered = <<>>
    BY <1>5, OpenFacts
  <2>3. Become(y)
    BY <1>9
  <2> HIDE DEF y
  <2>4. a.nfc \in ControlBlock
    BY <1>5, PairFields
  <2>5. /\ y.nfc.nfc_state = "W4_HAL_OPEN" /\ y.nfc.asked = "RESTART" /\ y.nfc.report = "none"
        /\ y.nfc.flags = a.nfc.flags /\ y.nfc.p_resp_cback = a.nfc.p_resp_cback
        /\ y.nfc.nci_cmd_xmit_q = a.nfc.nci_cmd_xmit_q /\ y.nfc.disc_on = a.nfc.disc_on
        /\ y.nfc.nci_cmd_window = a.nfc.nci_cmd_window
        /\ y.nfc.nci_wait_rsp_timer = a.nfc.nci_wait_rsp_timer
    BY <1>5, <2>2, <2>4 DEF ControlBlock
  <2>6. Rested(y)
    BY <1>5, <2>1, <2>2, <2>5 DEF IsAsleep, Rested, Bare, Silent
  <2>7. Going(y) = {"RESTARTING"}
    BY <1>5, <2>1, <2>5 DEF IsAsleep, Going, Reasons
  <2>8. Asking(y)
    BY <1>5, <1>9, <2>1, <2>5, <2>7 DEF IsAsleep, Asking
  <2>9. IsOpening(y)
    BY <1>5, <2>1, <2>2, <2>5, <2>6, <2>8 DEF IsOpening, IsAsleep
  <2> QED
    BY <2>2, <2>3, <2>5, <2>9, Reached DEF Course, Says
<1>10. CASE nfc_cb.nfc_state = "IDLE" /\ Become(ShutdownNfcc(b))
  BY <1>3, <1>4, <1>6, <1>10, Situated, ShutTold
<1>11. CASE nfc_cb.nfc_state = "IDLE" /\ Become(ShutdownNfcc(c))
  BY <1>3, <1>4, <1>7, <1>11, Situated, ShutTold
<1> QED
  BY <1>8, <1>9, <1>10, <1>11

(* A call that an idle stack handles. *)
LEMMA IdleTold ==
  ASSUME TypeOK, IsIdle(Here), NEW x, SamePair(Here, x), x.hal.mbox = Here.hal.mbox,
         NEW y, Tame(x, y), Become(y)
  PROVE  Told
<1>1. IsIdle(x) /\ x.nfc.report = Here.nfc.report
  BY SameSituation DEF SamePair, Still
<1>2. y \in Pair /\ IsIdle(y) /\ y.nfc.report = x.nfc.report
  BY <1>1, TameIdle DEF Tame, SameCourse
<1> QED
  BY <1>1, <1>2, Reached DEF Course, Says

LEMMA CalledSame ==
  ASSUME TypeOK, hal.calls < MaxCalls
  PROVE  LET x == Called(Now) IN
         x \in Pair /\ x.nfc = Now.nfc /\ SamePair(Here, x) /\ x.hal.mbox = Here.hal.mbox
<1> DEFINE x == Called(Now)
<1>1. x \in Pair /\ x.nfc = Now.nfc
  BY CalledNow
<1>2. x.hal = [hal EXCEPT !.calls = @ + 1]
  BY NowSame DEF Called, Hal
<1> HIDE DEF x
<1>3. SameHal(hal, x.hal) /\ x.hal.mbox = hal.mbox
  BY <1>2, NowSame DEF SameHal, HalBlock
<1>4. SamePair(Here, x) /\ x.hal.mbox = Here.hal.mbox
  BY <1>1, <1>3, NowSame, SameHere
<1> QED
  BY <1>1, <1>4 DEF x

LEMMA DiscoveryTold == ASSUME TypeOK, Course(Here), NfcDiscoveryStart PROVE Told
<1> DEFINE w == Called(Now)
           x == Flagged(w, {"DISCOVER_PENDING", "CONTROL_REQUESTED"})
           n == [x.nfc EXCEPT !.p_disc_pending = TRUE]
           z(ch) == CheckCmdQueue(Nfc(x, n), ch)
<1>1. PICK ch \in Choice, buf \in PoolOutcomes : Become(IF buf THEN z(ch) ELSE x)
  BY DEF NfcDiscoveryStart
<1>2. hal.calls < MaxCalls /\ nfc_cb.nfc_state = "IDLE"
  BY DEF NfcDiscoveryStart, MayCall
<1>3. w \in Pair /\ SamePair(Here, w) /\ w.hal.mbox = Here.hal.mbox /\ Typed
  BY <1>2, NowSame, CalledSame
<1> HIDE DEF w
<1>4. Tame(w, x) /\ x \in Pair
  <2>1. {"DISCOVER_PENDING", "CONTROL_REQUESTED"} \in SUBSET NFC_FL
        /\ {"DISCOVER_PENDING", "CONTROL_REQUESTED"} \cap Reasons = {}
    BY DEF NFC_FL, Reasons
  <2> QED
    BY <1>3, <2>1, TameFlagged DEF Tame
<1> HIDE DEF x
<1>5. x.nfc \in ControlBlock
  BY <1>4, PairFields
<1>6. n \in ControlBlock
  BY <1>5, FieldTypes, Zenon
<1>7. /\ n.nfc_state = x.nfc.nfc_state /\ n.p_resp_cback = x.nfc.p_resp_cback
      /\ n.asked = x.nfc.asked /\ n.report = x.nfc.report /\ n.flags = x.nfc.flags
      /\ n.nci_cmd_xmit_q = x.nfc.nci_cmd_xmit_q /\ n.last_hdr = x.nfc.last_hdr
  BY <1>5 DEF ControlBlock
<1> HIDE DEF n
<1>8. Tame(x, Nfc(x, n)) /\ Nfc(x, n) \in Pair
  BY <1>4, <1>6, <1>7, TameNfc DEF Tame
<1>9. Tame(Nfc(x, n), z(ch))
  BY <1>3, <1>8, TameCheck
<1> HIDE DEF z
<1>10. Tame(w, z(ch)) /\ Tame(w, x)
  BY <1>4, <1>8, <1>9, TameTrans
<1> QED
  BY <1>1, <1>2, <1>3, <1>10, Situated, IdleTold

LEMMA DeactivateTold == ASSUME TypeOK, Course(Here), NfcDeactivate PROVE Told
<1> DEFINE w == Called(Now)
           f == Now.nfc.flags \ ({"DISCOVER_PENDING"} \cup
                    IF "HAL_REQUESTED" \in Now.nfc.flags THEN {} ELSE {"CONTROL_REQUESTED"})
           n == [Now.nfc EXCEPT !.flags = f, !.p_disc_pending = FALSE]
           z(ch) == Send(w, "DEACTIVATE", ch)
<1>1. PICK ch \in Choice : Become(IF "DISCOVER_PENDING" \in nfc_cb.flags THEN Nfc(w, n) ELSE z(ch))
  BY DEF NfcDeactivate
<1>2. hal.calls < MaxCalls /\ nfc_cb.nfc_state = "IDLE"
  BY DEF NfcDeactivate, MayCall
<1>3. /\ w \in Pair /\ w.nfc = Now.nfc /\ SamePair(Here, w) /\ w.hal.mbox = Here.hal.mbox /\ Typed
      /\ w.nfc \in ControlBlock
  BY <1>2, NowSame, CalledSame, PairFields
<1> HIDE DEF w
<1>4. f \in SUBSET NFC_FL /\ f \cap Reasons = w.nfc.flags \cap Reasons
  BY <1>3, BlockTypes DEF Reasons
<1> HIDE DEF f
<1>5. n \in ControlBlock
  BY <1>3, <1>4, FieldTypes, Zenon
<1>6. /\ n.nfc_state = w.nfc.nfc_state /\ n.p_resp_cback = w.nfc.p_resp_cback
      /\ n.asked = w.nfc.asked /\ n.report = w.nfc.report /\ n.flags = f
      /\ n.nci_cmd_xmit_q = w.nfc.nci_cmd_xmit_q /\ n.last_hdr = w.nfc.last_hdr
  BY <1>3 DEF ControlBlock
<1> HIDE DEF n
<1>7. Tame(w, Nfc(w, n))
  BY <1>3, <1>4, <1>5, <1>6, TameNfc
<1>8. Tame(w, z(ch))
  <2>1. "DEACTIVATE" \in StackCmd /\ "DEACTIVATE" \notin Core
    BY DEF StackCmd, Core
  <2> QED
    BY <1>3, <2>1, TameSend
<1> HIDE DEF z
<1> QED
  BY <1>1, <1>2, <1>3, <1>7, <1>8, Situated, IdleTold

LEMMA VsCommandTold == ASSUME TypeOK, Course(Here), NfcSendVsCommand PROVE Told
<1> DEFINE h == [hal EXCEPT !.cmds = @ + 1]
           x == Hal(Now, h)
           c(op) == [op |-> op, id |-> hal.cmds + 1]
           z(op, ch) == SendCmd(x, c(op), ch)
<1>1. PICK op \in UserCmds, ch \in Choice : Become(z(op, ch))
  BY DEF NfcSendVsCommand
<1>2. hal.cmds < MaxCmds /\ nfc_cb.nfc_state = "IDLE"
  BY DEF NfcSendVsCommand
<1>3. hal.cmds + 1 \in 1..MaxCmds /\ hal.cmds + 1 \in 0..MaxCmds /\ op \notin Core
  BY <1>2, NowSame, HalTypes, EnvTypes DEF Core
<1>4. c(op) \in Cmd /\ c(op).op = op
  BY <1>1, <1>3 DEF Cmd
<1>5. h \in HalBlock /\ SameHal(hal, h) /\ h.mbox = hal.mbox
  BY <1>3, NowSame DEF HalBlock, SameHal
<1> HIDE DEF h, c
<1>6. x \in Pair /\ SamePair(Here, x) /\ x.hal.mbox = Here.hal.mbox
  BY <1>5, NowSame, HalType, SameHere
<1> HIDE DEF x
<1>7. Tame(x, z(op, ch))
  BY <1>3, <1>4, <1>6, NowSame, TameSendCmd
<1> HIDE DEF z
<1> QED
  BY <1>1, <1>2, <1>6, <1>7, Situated, IdleTold

-----------------------------------------------------------------------------
(* Steps of the HAL thread.                                                *)

LEMMA OpenCpltTold == ASSUME TypeOK, Timely, Course(Here), HalOpenCplt PROVE Told
<1>1. PICK ok \in BOOLEAN :
        /\ ok \/ MayFail("open")
        /\ LET h == [hal EXCEPT !.link = IF ok THEN "OPEN" ELSE "CLOSED",
                                !.faults = IF ok THEN @ ELSE @ + 1] IN
           HalIs(IF nfc_cb.nfc_state # "W4_HAL_OPEN" THEN h
                 ELSE IF ok THEN [h EXCEPT !.ready = TRUE]
                 ELSE PostHalEvt(h, "OPEN_CPLT", FALSE))
  BY DEF HalOpenCplt
<1>2. hal.link = "OPENING" /\ hal \in HalBlock /\ Here.nfc = nfc_cb /\ Here.hal = hal
  BY NowSame DEF HalOpenCplt
<1>3. IsOpening(Here)
  BY <1>2 DEF Course, IsOff, IsStarting, AtStart, IsRetrying, IsFailing, IsPostInit, IsIdle, IsClosing,
              IsAsleep, HasFailed
<1>4. /\ nfc_cb.nfc_state = "W4_HAL_OPEN" /\ Asking(Here) /\ Rested(Here)
      /\ ~hal.ready /\ hal.mbox = <<>>
  BY <1>2, <1>3 DEF IsOpening
<1>5. \A k : LET y == [nfc |-> nfc_cb, hal |-> k] IN
        /\ y.nfc = nfc_cb /\ y.hal = k /\ Asking(y)
        /\ (k.pending = hal.pending /\ k.recovered = hal.recovered /\ k.ntf = hal.ntf
              /\ k.job = hal.job) => Rested(y)
  BY <1>2, <1>4 DEF Asking, Going, Rested, Bare, Silent
<1>6. CASE ok
  <2> DEFINE k == [[hal EXCEPT !.link = "OPEN", !.faults = hal.faults] EXCEPT !.ready = TRUE]
             y == [nfc |-> nfc_cb, hal |-> k]
  <2>1. HalIs(k)
    BY <1>1, <1>4, <1>6
  <2>2. /\ k.link = "OPEN" /\ k.ready /\ k.mbox = hal.mbox /\ k.pending = hal.pending
        /\ k.recovered = hal.recovered /\ k.ntf = hal.ntf /\ k.job = hal.job
    BY <1>2 DEF HalBlock
  <2> HIDE DEF k
  <2>3. IsOpening(y)
    BY <1>4, <1>5, <2>2 DEF IsOpening
  <2> QED
    BY <2>1, <2>3, HalReached DEF Course
<1>7. CASE ~ok
  <2> DEFINE h == [hal EXCEPT !.link = "CLOSED", !.faults = hal.faults + 1]
             k == PostHalEvt(h, "OPEN_CPLT", FALSE)
             y == [nfc |-> nfc_cb, hal |-> k]
  <2>1. HalIs(k)
    BY <1>1, <1>4, <1>7
  <2>2. "sleep" \notin env.calls
    BY <1>1, <1>7 DEF MayFail, Timely
  <2>3. h \in HalBlock
    BY <1>1, <1>2, <1>7, FaultType DEF HalBlock
  <2>4. /\ h.link = "CLOSED" /\ ~h.ready /\ h.mbox = hal.mbox /\ h.pending = hal.pending
        /\ h.recovered = hal.recovered /\ h.ntf = hal.ntf /\ h.job = hal.job
    BY <1>2, <1>4 DEF HalBlock
  <2> HIDE DEF h
  <2> HIDE DEF y
  <2>5. LET z == PostHalEvt(h, "OPEN_CPLT", FALSE) IN
        /\ z.mbox = Append(h.mbox, Evt("OPEN_CPLT", FALSE))
        /\ z.pending = h.pending /\ z.job = h.job /\ z.recovered = h.recovered
        /\ z.link = h.link /\ z.ready = h.ready /\ z.ntf = h.ntf
    BY <2>3 DEF PostHalEvt, HalBlock
  <2> USE DEF y
  <2> HIDE DEF k
  <2>6. Append(<<>>, Evt("OPEN_CPLT", FALSE)) = <<Evt("OPEN_CPLT", FALSE)>>
    OBVIOUS
  <2>7. IsOpening(y)
    BY <1>4, <1>5, <2>2, <2>4, <2>5, <2>6 DEF IsOpening, k
  <2> QED
    BY <2>1, <2>7, HalReached DEF Course
<1> QED
  BY <1>6, <1>7

LEMMA CloseCpltTold == ASSUME TypeOK, Course(Here), HalCloseCplt PROVE Told
<1> DEFINE h == [hal EXCEPT !.link = "CLOSED"]
           k == PostHalEvt(h, "CLOSE_CPLT", TRUE)
           y == [nfc |-> nfc_cb, hal |-> k]
<1>1. HalIs(k) /\ hal.link = "CLOSING"
  BY DEF HalCloseCplt
<1>2. hal \in HalBlock /\ Here.nfc = nfc_cb /\ Here.hal = hal
  BY NowSame
<1>3. IsFailing(Here) \/ IsClosing(Here)
  BY <1>1, <1>2
     DEF Course, IsOff, IsOpening, IsStarting, AtStart, IsRetrying, IsPostInit, IsIdle, IsAsleep, HasFailed
<1>4. /\ h \in HalBlock /\ h.link = "CLOSED" /\ h.ready = hal.ready /\ h.mbox = hal.mbox
      /\ h.pending = hal.pending /\ h.recovered = hal.recovered /\ h.ntf = hal.ntf
      /\ h.job = hal.job
  BY <1>2 DEF HalBlock
<1> HIDE DEF h
<1> HIDE DEF y
<1>5. LET z == PostHalEvt(h, "CLOSE_CPLT", TRUE) IN
      /\ z.mbox = Append(h.mbox, Evt("CLOSE_CPLT", TRUE))
      /\ z.pending = h.pending /\ z.job = h.job /\ z.recovered = h.recovered
      /\ z.link = h.link /\ z.ready = h.ready /\ z.ntf = h.ntf
  BY <1>4 DEF PostHalEvt, HalBlock
<1> HIDE DEF k
<1>6. Append(<<>>, Evt("CLOSE_CPLT", TRUE)) = <<Evt("CLOSE_CPLT", TRUE)>>
  OBVIOUS
<1>7. hal.mbox = <<>>
  BY <1>1, <1>2, <1>3 DEF IsFailing, IsClosing
<1>8. y.nfc = nfc_cb /\ y.hal = k
  BY DEF y
<1>9. IsFailing(Here) => IsFailing(y)
  <2>1. Asking(Here) => Asking(y)
    BY <1>2, <1>8 DEF Asking, Going
  <2> QED
    BY <1>2, <1>4, <1>5, <1>6, <1>7, <1>8, <2>1 DEF IsFailing, k
<1>10. IsClosing(Here) => IsClosing(y)
  <2>1. Rested(Here) => Rested(y)
    BY <1>2, <1>4, <1>5, <1>8 DEF Rested, Bare, Silent, k
  <2>2. Going(y) = Going(Here)
    BY <1>2, <1>8 DEF Going
  <2> QED
    BY <1>2, <1>4, <1>5, <1>6, <1>7, <1>8, <2>1, <2>2, ZenonT(40) DEF IsClosing, k
<1> QED
  BY <1>1, <1>3, <1>9, <1>10, HalReached DEF Course, y

(* A stack that is up stays up when the HAL adds harmless messages. *)
LEMMA IdleReached ==
  ASSUME IsIdle(Here), NEW k, HalIs(k), k.link = "OPEN", ~k.ready, ~k.ntf, k.job # "post_init",
         NoCore(k.pending), NoCore(k.recovered), AllHarmless(k.mbox)
  PROVE  Told
<1> DEFINE y == [nfc |-> nfc_cb, hal |-> k]
<1>1. y.nfc = nfc_cb /\ y.hal = k /\ Here.nfc = nfc_cb
  BY DEF Here
<1> HIDE DEF y
<1>2. Going(y) = Going(Here)
  BY <1>1 DEF Going
<1>3. Pure(y)
  BY <1>1 DEF IsIdle, Pure
<1>4. IsIdle(y)
  BY <1>1, <1>2, <1>3 DEF IsIdle
<1> QED
  BY <1>4, HalReached DEF Course, y

(* What a stack that is up has not in its HAL. *)
LEMMA IdleHal ==
  ASSUME TypeOK, IsIdle(Here)
  PROVE  /\ nfc_cb.nfc_state = "IDLE" /\ hal.link = "OPEN" /\ ~hal.ready /\ ~hal.ntf
         /\ hal.job # "post_init" /\ NoCore(hal.pending) /\ NoCore(hal.recovered)
         /\ hal.mbox \in Seq(Message) /\ AllHarmless(hal.mbox)
<1>1. Here.nfc = nfc_cb /\ Here.hal = hal /\ hal \in HalBlock
  BY NowSame
<1> QED
  BY <1>1, HalTypes DEF IsIdle, Pure

(* A start goes on when the HAL changes what comes next. *)
LEMMA StartReached ==
  ASSUME TypeOK, AtStart(Here), NEW k, HalIs(k),
         k.link = hal.link, k.ready = hal.ready, k.job = hal.job
  PROVE  LET y == [nfc |-> nfc_cb, hal |-> k] IN
         /\ y.nfc = Here.nfc /\ y.hal = k
         /\ ResetSent(y) \/ NtfDue(y) \/ InitSent(y) \/ Stuck(y) => Told
<1> DEFINE y == [nfc |-> nfc_cb, hal |-> k]
<1>1. y.nfc = nfc_cb /\ y.hal = k /\ Here.nfc = nfc_cb /\ Here.hal = hal
  BY NowSame
<1> HIDE DEF y
<1>2. Asking(y) /\ Bare(y)
  BY <1>1 DEF AtStart, Asking, Bare, Going
<1>3. AtStart(y)
  BY <1>1, <1>2 DEF AtStart
<1>4. ASSUME ResetSent(y) \/ NtfDue(y) \/ InitSent(y) \/ Stuck(y) PROVE Told
  BY <1>3, <1>4, HalReached DEF Course, IsStarting, y
<1> QED
  BY <1>1, <1>4 DEF y

(* When the NFCC has something to say, the stack is up or starts. *)
LEMMA WhoListens ==
  ASSUME TypeOK, Course(Here), hal.link = "OPEN",
         hal.pending # <<>> \/ hal.recovered # <<>> \/ hal.ntf
  PROVE  /\ IsIdle(Here) \/ (AtStart(Here) /\ (ResetSent(Here) \/ NtfDue(Here) \/ InitSent(Here)))
         /\ nfc_cb.nfc_state # "W4_HAL_CLOSE"
<1>1. Here.nfc = nfc_cb /\ Here.hal = hal
  BY NowSame
<1>2. IsIdle(Here) \/ IsStarting(Here)
  BY <1>1 DEF Course, IsOff, IsOpening, IsRetrying, IsFailing, IsPostInit, IsClosing, IsAsleep, HasFailed,
              Rested, Silent
<1> QED
  BY <1>1, <1>2 DEF IsStarting, Stuck, Silent, AtStart, IsIdle

(* The answer to a command. *)
AnyCmd == [op : StackCmd \cup UserCmds, id : 0..MaxCmds]
LEMMA AnswerFacts ==
  ASSUME Typed, NEW h \in HalBlock, NEW c \in AnyCmd, NEW ok \in BOOLEAN,
         nfc_cb.nfc_state # "W4_HAL_CLOSE"
  PROVE  LET k == Answer(h, c, ok) IN
         /\ k.mbox = Append(h.mbox, Rsp(c, ok)) /\ Rsp(c, ok) \in Message
         /\ k.pending = h.pending /\ k.job = h.job /\ k.recovered = h.recovered
         /\ k.link = h.link /\ k.ready = h.ready
         /\ k.ntf <=> h.ntf \/ (ok /\ c.op = "CORE_RESET" /\ NciVersion = "2_0")
         /\ c.op \notin Core => Harmless(Rsp(c, ok))
<1> DEFINE b == h.ntf \/ (ok /\ c.op = "CORE_RESET" /\ NciVersion = "2_0")
           g == [h EXCEPT !.ntf = b]
           k == HalDataCback(g, Rsp(c, ok))
<1>1. b \in BOOLEAN
  BY HalTypes
<1>2. b <=> h.ntf \/ (ok /\ c.op = "CORE_RESET" /\ NciVersion = "2_0")
  OBVIOUS
<1> HIDE DEF b
<1>3. /\ g \in HalBlock /\ g.mbox = h.mbox /\ g.pending = h.pending /\ g.job = h.job
      /\ g.recovered = h.recovered /\ g.link = h.link /\ g.ready = h.ready /\ g.ntf = b
  BY <1>1 DEF HalBlock
<1> HIDE DEF g
<1>4. /\ k.mbox = Append(g.mbox, Rsp(c, ok))
      /\ k.pending = g.pending /\ k.job = g.job /\ k.recovered = g.recovered
      /\ k.link = g.link /\ k.ready = g.ready /\ k.ntf = g.ntf
  BY <1>3, DataPosted
<1>5. Rsp(c, ok) \in Message
  BY DEF Rsp, Message, AnyCmd
<1>6. c.op \notin Core => Harmless(Rsp(c, ok))
  BY EnvTypes DEF AnyCmd, Harmless, Rsp, Core, StackCmd
<1> HIDE DEF k
<1>7. k = Answer(h, c, ok)
  BY DEF k, g, b, Answer
<1> QED
  BY <1>2, <1>3, <1>4, <1>5, <1>6, <1>7

LEMMA Singles ==
  /\ \A a : Head(<<a>>) = a /\ Tail(<<a>>) = <<>> /\ <<a>> # <<>>
  /\ \A a : Append(<<>>, a) = <<a>>
  /\ \A a, b : Append(<<a>>, b) = <<a, b>>
<1>1. ASSUME NEW a PROVE Head(<<a>>) = a /\ Tail(<<a>>) = <<>> /\ <<a>> # <<>>
  OBVIOUS
<1>2. ASSUME NEW a PROVE Append(<<>>, a) = <<a>>
  OBVIOUS
<1>3. ASSUME NEW a, NEW b PROVE Append(<<a>>, b) = <<a, b>>
  <2> DEFINE T == {a, b}
  <2>1. <<a>> \in Seq(T) /\ b \in T /\ <<a, b>> \in Seq(T)
    OBVIOUS
  <2>2. Append(<<a>>, b) \in Seq(T) /\ Len(Append(<<a>>, b)) = 2
    OBVIOUS
  <2>3. Append(<<a>>, b)[1] = a /\ Append(<<a>>, b)[2] = b
    OBVIOUS
  <2>4. \A i \in 1..2 : Append(<<a>>, b)[i] = <<a, b>>[i]
    BY <2>3
  <2> QED
    BY <2>1, <2>2, <2>4, SeqEqual
<1> QED
  BY <1>1, <1>2, <1>3

(* The answer to the head of pending, or of recovered, is what h lacks.    *)
Taken(h, c) ==
    /\ h.link = hal.link /\ h.ready = hal.ready /\ h.job = hal.job
    /\ h.ntf = hal.ntf /\ h.mbox = hal.mbox
    /\ \/ /\ hal.pending # <<>> /\ c = Head(hal.pending)
          /\ h.pending = Tail(hal.pending) /\ h.recovered = hal.recovered
       \/ /\ hal.recovered # <<>> /\ c = Head(hal.recovered)
          /\ h.recovered = Tail(hal.recovered) /\ h.pending = hal.pending

(* While the stack starts there was one command to answer.                 *)
LEMMA TakenAtStart ==
  ASSUME TypeOK, AtStart(Here), ResetSent(Here) \/ NtfDue(Here) \/ InitSent(Here),
         NEW h, NEW c, Taken(h, c)
  PROVE  /\ h.pending = <<>> /\ h.recovered = <<>> /\ ~h.ntf /\ h.mbox = <<>>
         /\ \/ /\ Here.nfc.last_hdr = "CORE_RESET" /\ Here.nfc.nci_cmd_window < NCI_MAX_CMD_WINDOW
               /\ c = Internal("CORE_RESET")
            \/ /\ \/ /\ Here.nfc.last_hdr = "CORE_INIT"
                     /\ Here.nfc.nci_cmd_window < NCI_MAX_CMD_WINDOW
                  \/ Here.nfc.last_hdr = "NONE" /\ ~Here.nfc.nci_wait_rsp_timer
               /\ c = Internal("CORE_INIT")
<1>1. Here.hal = hal
  BY NowSame
<1>2. hal.pending # <<>> \/ hal.recovered # <<>>
  BY DEF Taken
<1>3. ASSUME NEW op, InFlight(hal, op)
      PROVE  h.pending = <<>> /\ h.recovered = <<>> /\ ~h.ntf /\ h.mbox = <<>> /\ c = Internal(op)
  BY <1>3, Singles DEF InFlight, Taken
<1>4. /\ ResetSent(Here) => /\ InFlight(hal, "CORE_RESET") /\ Here.nfc.last_hdr = "CORE_RESET"
                            /\ Here.nfc.nci_cmd_window < NCI_MAX_CMD_WINDOW
      /\ InitSent(Here) =>
           /\ InFlight(hal, "CORE_INIT")
           /\ \/ /\ Here.nfc.last_hdr = "CORE_INIT"
                 /\ Here.nfc.nci_cmd_window < NCI_MAX_CMD_WINDOW
              \/ Here.nfc.last_hdr = "NONE" /\ ~Here.nfc.nci_wait_rsp_timer
      /\ ~NtfDue(Here)
  BY <1>1, <1>2 DEF ResetSent, InitSent, NtfDue, LostRsp, Silent
<1> QED
  BY <1>3, <1>4

(* A stack that is up had no command of a start to answer.                 *)
LEMMA TakenIdle ==
  ASSUME TypeOK, IsIdle(Here), NEW h, NEW c, Taken(h, c)
  PROVE  c.op \notin Core /\ NoCore(h.pending) /\ NoCore(h.recovered)
<1>1. hal.pending \in Seq(Cmd) /\ hal.recovered \in Seq([op : StackCmd \cup UserCmds, id : 0..MaxCmds])
  BY NowSame, HalTypes
<1>2. NoCore(hal.pending) /\ NoCore(hal.recovered)
  BY IdleHal
<1>3. hal.pending # <<>> => NoCore(Tail(hal.pending)) /\ Head(hal.pending).op \notin Core
  BY <1>1, <1>2, NoCoreSeq
<1>4. hal.recovered # <<>> => NoCore(Tail(hal.recovered)) /\ Head(hal.recovered).op \notin Core
  BY <1>1, <1>2, NoCoreSeq
<1> QED
  BY <1>2, <1>3, <1>4 DEF Taken

LEMMA AnswerTold ==
  ASSUME TypeOK, Course(Here), hal.link = "OPEN", NEW h \in HalBlock, NEW c \in AnyCmd,
         Taken(h, c), NEW ok \in BOOLEAN, HalIs(Answer(h, c, ok)),
         ok \/ (c.op = "CORE_INIT" /\ "sleep" \notin env.calls)
  PROVE  Told
<1> DEFINE k == Answer(h, c, ok)
<1>1. /\ IsIdle(Here) \/ (AtStart(Here) /\ (ResetSent(Here) \/ NtfDue(Here) \/ InitSent(Here)))
      /\ nfc_cb.nfc_state # "W4_HAL_CLOSE"
  BY WhoListens DEF Taken
<1>2. /\ k.mbox = Append(h.mbox, Rsp(c, ok)) /\ Rsp(c, ok) \in Message
      /\ k.pending = h.pending /\ k.job = h.job /\ k.recovered = h.recovered
      /\ k.link = h.link /\ k.ready = h.ready
      /\ k.ntf <=> h.ntf \/ (ok /\ c.op = "CORE_RESET" /\ NciVersion = "2_0")
      /\ c.op \notin Core => Harmless(Rsp(c, ok))
  BY <1>1, NowSame, AnswerFacts
<1> HIDE DEF k
<1>3. CASE IsIdle(Here)
  <2>1. c.op \notin Core /\ NoCore(k.pending) /\ NoCore(k.recovered)
    BY <1>2, <1>3, TakenIdle
  <2>2. AllHarmless(k.mbox)
    BY <1>2, <1>3, <2>1, IdleHal, HarmlessSeq DEF Taken
  <2>3. k.link = "OPEN" /\ ~k.ready /\ ~k.ntf /\ k.job # "post_init"
    BY <1>2, <1>3, <2>1, IdleHal DEF Taken, Core
  <2> QED
    BY <1>3, <2>1, <2>2, <2>3, IdleReached DEF k
<1>4. CASE AtStart(Here) /\ (ResetSent(Here) \/ NtfDue(Here) \/ InitSent(Here))
  <2> DEFINE y == [nfc |-> nfc_cb, hal |-> k]
  <2>1. y.nfc = Here.nfc /\ y.hal = k /\ (ResetSent(y) \/ NtfDue(y) \/ InitSent(y) \/ Stuck(y) => Told)
    BY <1>2, <1>4, StartReached DEF Taken, k
  <2> HIDE DEF y
  <2>2. h.pending = <<>> /\ h.recovered = <<>> /\ ~h.ntf /\ h.mbox = <<>>
    BY <1>4, TakenAtStart
  <2>3. CASE /\ Here.nfc.last_hdr = "CORE_RESET" /\ Here.nfc.nci_cmd_window < NCI_MAX_CMD_WINDOW
             /\ c = Internal("CORE_RESET")
    <3>0. ok = TRUE
      BY <2>3 DEF Internal
    <3>1. k.mbox = <<Rsp(Internal("CORE_RESET"), TRUE)>>
      BY <1>2, <2>2, <2>3, <3>0, Singles
    <3>2. ResetSent(y)
      BY <1>2, <2>1, <2>2, <2>3, <3>1 DEF ResetSent
    <3> QED
      BY <2>1, <3>2
  <2>4. CASE /\ \/ /\ Here.nfc.last_hdr = "CORE_INIT"
                   /\ Here.nfc.nci_cmd_window < NCI_MAX_CMD_WINDOW
                \/ Here.nfc.last_hdr = "NONE" /\ ~Here.nfc.nci_wait_rsp_timer
             /\ c = Internal("CORE_INIT")
    <3>1. k.mbox = <<Rsp(Internal("CORE_INIT"), ok)>> /\ (ok \/ "sleep" \notin env.calls)
      BY <1>2, <2>2, <2>4, Singles
    <3>2. ~k.ntf
      BY <1>2, <2>2, <2>4 DEF Internal
    <3>3. InitSent(y)
      BY <1>2, <2>1, <2>2, <2>4, <3>1, <3>2 DEF InitSent, Silent
    <3> QED
      BY <2>1, <3>3
  <2> QED
    BY <1>4, <2>3, <2>4, TakenAtStart
<1> QED
  BY <1>1, <1>3, <1>4

(* A response is lost.                                                     *)
LEMMA LostTold ==
  ASSUME TypeOK, Timely, Course(Here), hal.link = "OPEN", hal.pending # <<>>, MayFail("lost_rsp"),
         NEW h, Taken(h, Head(hal.pending)), h.pending = Tail(hal.pending), HalIs(h)
  PROVE  Told
<1>1. /\ IsIdle(Here) \/ (AtStart(Here) /\ (ResetSent(Here) \/ NtfDue(Here) \/ InitSent(Here)))
      /\ h.link = hal.link /\ h.ready = hal.ready /\ h.job = hal.job
      /\ h.ntf = hal.ntf /\ h.mbox = hal.mbox
  BY WhoListens DEF Taken
<1>2. "sleep" \notin env.calls
  BY DEF Timely, MayFail
<1>3. CASE IsIdle(Here)
  BY <1>1, <1>3, IdleHal, TakenIdle, IdleReached
<1>4. CASE AtStart(Here) /\ (ResetSent(Here) \/ NtfDue(Here) \/ InitSent(Here))
  <2> DEFINE y == [nfc |-> nfc_cb, hal |-> h]
  <2>1. y.nfc = Here.nfc /\ y.hal = h /\ (ResetSent(y) \/ NtfDue(y) \/ InitSent(y) \/ Stuck(y) => Told)
    BY <1>1, <1>4, StartReached
  <2> HIDE DEF y
  <2>2. LostRsp(y.hal)
    BY <1>2, <1>4, <2>1, TakenAtStart DEF LostRsp, Silent
  <2>3. ResetSent(y) \/ InitSent(y)
    BY <1>4, <2>1, <2>2, TakenAtStart DEF ResetSent, InitSent
  <2> QED
    BY <2>1, <2>3
<1> QED
  BY <1>1, <1>3, <1>4

LEMMA RspTold == ASSUME TypeOK, Timely, Course(Here), HalRsp \/ HalRecovered PROVE Told
<1> USE NowSame
<1>1. CASE HalRsp
  <2> DEFINE c == Head(hal.pending)
             h == [hal EXCEPT !.pending = Tail(@)]
             g == [h EXCEPT !.faults = hal.faults + 1]
  <2>1. /\ hal.link = "OPEN" /\ hal.pending # <<>>
        /\ \/ HalIs(Answer(h, c, TRUE))
           \/ c.op \in Core /\ MayFail(Refusal(c.op)) /\ HalIs(Answer(g, c, FALSE))
           \/ MayFail("lost_rsp") /\ HalIs(g)
    BY <1>1 DEF HalRsp, Core
  <2>2. c \in Cmd /\ Tail(hal.pending) \in Seq(Cmd)
    BY <2>1, HalTypes
  <2>3. c \in AnyCmd
    BY <2>2, EnvTypes DEF AnyCmd, Cmd
  <2>4. h \in HalBlock /\ h.pending = Tail(hal.pending) /\ Taken(h, c)
    BY <2>1, <2>2 DEF Taken, HalBlock
  <2>5. g.pending = Tail(hal.pending) /\ Taken(g, c)
    BY <2>1, <2>2 DEF Taken, HalBlock
  <2>6. CASE HalIs(Answer(h, c, TRUE))
    <3> HIDE DEF c, h
    <3> QED
      BY <2>1, <2>3, <2>4, <2>6, AnswerTold
  <2>8. CASE c.op \in Core /\ MayFail(Refusal(c.op)) /\ HalIs(Answer(g, c, FALSE))
    <3>1. hal.faults < MaxFaults /\ hal.faults + 1 \in 0..MaxFaults
      BY <2>8, FaultType DEF MayFail
    <3>2. g \in HalBlock
      BY <2>4, <3>1 DEF HalBlock
    <3> HIDE DEF c, h, g
    <3>3. c.op = "CORE_INIT" /\ "sleep" \notin env.calls
      BY <2>8 DEF MayFail, Refusal, Timely, Core
    <3> QED
      BY <2>1, <2>3, <2>5, <2>8, <3>2, <3>3, AnswerTold
  <2>7. CASE MayFail("lost_rsp") /\ HalIs(g)
    <3> HIDE DEF g
    <3> QED
      BY <2>1, <2>5, <2>7, LostTold
  <2> QED
    BY <2>1, <2>6, <2>7, <2>8
<1>2. CASE HalRecovered
  <2> DEFINE c == Head(hal.recovered)
             h == [hal EXCEPT !.recovered = Tail(@)]
  <2>1. hal.link = "OPEN" /\ hal.recovered # <<>> /\ HalIs(Answer(h, c, TRUE))
    BY <1>2 DEF HalRecovered
  <2>2. hal.recovered \in Seq(AnyCmd)
    BY HalTypes DEF AnyCmd
  <2>3. c \in AnyCmd /\ Tail(hal.recovered) \in Seq(AnyCmd)
    BY <2>1, <2>2
  <2>4. h \in HalBlock /\ Taken(h, c)
    BY <2>1, <2>3 DEF Taken, HalBlock, AnyCmd
  <2> HIDE DEF c, h
  <2> QED
    BY <2>1, <2>3, <2>4, AnswerTold
<1> QED
  BY <1>1, <1>2

(* The notification of a reset comes, or is lost.                          *)
LEMMA NtfTold == ASSUME TypeOK, Timely, Course(Here), HalResetNtf PROVE Told
<1> DEFINE h == [hal EXCEPT !.ntf = FALSE]
           k == HalDataCback(h, Ntf("CORE_RESET", TRUE))
           g == [h EXCEPT !.faults = hal.faults + 1]
<1>1. /\ hal.link = "OPEN" /\ hal.ntf
      /\ HalIs(k) \/ (MayFail("lost_ntf") /\ HalIs(g))
  BY DEF HalResetNtf
<1>2. /\ AtStart(Here) /\ (ResetSent(Here) \/ NtfDue(Here))
      /\ nfc_cb.nfc_state # "W4_HAL_CLOSE" /\ Here.hal = hal /\ hal \in HalBlock
  <2>1. ~InitSent(Here)
    BY <1>1, NowSame DEF InitSent, InFlight, Silent, LostRsp
  <2> QED
    BY <1>1, <2>1, WhoListens, NowSame, IdleHal
<1>3. /\ hal.pending = <<>> /\ hal.recovered = <<>>
      /\ \/ /\ ResetSent(Here) /\ hal.mbox = <<Rsp(Internal("CORE_RESET"), TRUE)>> /\ NciVersion = "2_0"
         \/ NtfDue(Here) /\ hal.mbox = <<>>
  BY <1>1, <1>2 DEF ResetSent, NtfDue, InFlight, Silent, LostRsp
<1>4. /\ h \in HalBlock /\ h.mbox = hal.mbox /\ h.pending = hal.pending /\ h.job = hal.job
      /\ h.recovered = hal.recovered /\ h.link = hal.link /\ h.ready = hal.ready /\ ~h.ntf
  BY <1>2 DEF HalBlock
<1>5. /\ g.mbox = hal.mbox /\ g.pending = hal.pending /\ g.job = hal.job
      /\ g.recovered = hal.recovered /\ g.link = hal.link /\ g.ready = hal.ready /\ ~g.ntf
  BY <1>2 DEF HalBlock
<1> HIDE DEF h, g
<1>6. /\ k.mbox = Append(h.mbox, Ntf("CORE_RESET", TRUE))
      /\ k.pending = h.pending /\ k.job = h.job /\ k.recovered = h.recovered
      /\ k.link = h.link /\ k.ready = h.ready /\ k.ntf = h.ntf
  BY <1>2, <1>4, DataPosted
<1> HIDE DEF k
<1>7. CASE HalIs(k)
  <2> DEFINE y == [nfc |-> nfc_cb, hal |-> k]
  <2>1. y.nfc = Here.nfc /\ y.hal = k /\ (ResetSent(y) \/ NtfDue(y) \/ InitSent(y) \/ Stuck(y) => Told)
    BY <1>2, <1>4, <1>6, <1>7, StartReached
  <2> HIDE DEF y
  <2>2. /\ hal.mbox = <<>> => k.mbox = <<Ntf("CORE_RESET", TRUE)>>
        /\ hal.mbox = <<Rsp(Internal("CORE_RESET"), TRUE)>>
             => k.mbox = <<Rsp(Internal("CORE_RESET"), TRUE), Ntf("CORE_RESET", TRUE)>>
    BY <1>4, <1>6, Singles
  <2>3. ResetSent(Here) /\ hal.mbox = <<Rsp(Internal("CORE_RESET"), TRUE)>> /\ NciVersion = "2_0"
          => ResetSent(y)
    BY <1>3, <1>4, <1>6, <2>1, <2>2 DEF ResetSent, Silent
  <2>4. NtfDue(Here) /\ hal.mbox = <<>> => NtfDue(y)
    BY <1>3, <1>4, <1>6, <2>1, <2>2 DEF NtfDue
  <2> QED
    BY <1>3, <2>1, <2>3, <2>4
<1>8. CASE HalIs(g)
  <2> DEFINE y == [nfc |-> nfc_cb, hal |-> g]
  <2>1. y.nfc = Here.nfc /\ y.hal = g /\ (ResetSent(y) \/ NtfDue(y) \/ InitSent(y) \/ Stuck(y) => Told)
    BY <1>2, <1>5, <1>8, StartReached
  <2> HIDE DEF y
  <2>2. ResetSent(Here) /\ hal.mbox = <<Rsp(Internal("CORE_RESET"), TRUE)>> /\ NciVersion = "2_0"
          => ResetSent(y)
    BY <1>3, <1>5, <2>1 DEF ResetSent
  <2>3. NtfDue(Here) /\ hal.mbox = <<>> => Stuck(y)
    BY <1>3, <1>5, <2>1 DEF NtfDue, Stuck, Silent
  <2> QED
    BY <1>3, <2>1, <2>2, <2>3
<1> QED
  BY <1>1, <1>7, <1>8

(* A harmless message of a stack that is up.                               *)
LEMMA MessageTold ==
  ASSUME TypeOK, IsIdle(Here), NEW m \in Message, Harmless(m), NEW k, HalIs(k),
         k.link = hal.link, k.ready = hal.ready, k.ntf = hal.ntf, k.job \in {hal.job, "none"},
         k.pending \in {hal.pending, <<>>}, k.recovered = hal.recovered,
         k.mbox = Append(hal.mbox, m)
  PROVE  Told
<1>1. AllHarmless(k.mbox)
  BY IdleHal, HarmlessSeq
<1>2. NoCore(k.pending) /\ NoCore(k.recovered)
  BY IdleHal DEF NoCore
<1> QED
  BY <1>1, <1>2, IdleHal, IdleReached

LEMMA StrayTold == ASSUME TypeOK, Timely, Course(Here), HalStrayNtf PROVE Told
<1> DEFINE g == [hal EXCEPT !.faults = hal.faults + 1]
           r == [hal EXCEPT !.faults = hal.faults + 1, !.pending = <<>>]
<1>1. /\ nfc_cb.nfc_state = "IDLE"
      /\ \/ MayFail("stray") /\ HalIs(HalDataCback(g, Ntf("OTHER", TRUE)))
         \/ MayFail("reset") /\ HalIs(HalDataCback(r, Ntf("CORE_RESET", FALSE)))
  BY DEF HalStrayNtf
<1>2. IsIdle(Here) /\ hal \in HalBlock
  BY <1>1, Situated, NowSame
<1>3. CASE MayFail("stray") /\ HalIs(HalDataCback(g, Ntf("OTHER", TRUE)))
  <2> DEFINE k == HalDataCback(g, Ntf("OTHER", TRUE))
  <2>1. g \in HalBlock
    BY <1>2, <1>3, FaultType
  <2>2. /\ g.mbox = hal.mbox /\ g.pending = hal.pending /\ g.job = hal.job
        /\ g.recovered = hal.recovered /\ g.link = hal.link /\ g.ready = hal.ready /\ g.ntf = hal.ntf
    BY <1>2 DEF HalBlock
  <2> HIDE DEF g
  <2>3. /\ k.mbox = Append(g.mbox, Ntf("OTHER", TRUE))
        /\ k.pending = g.pending /\ k.job = g.job /\ k.recovered = g.recovered
        /\ k.link = g.link /\ k.ready = g.ready /\ k.ntf = g.ntf
    BY <1>1, <2>1, DataPosted
  <2> HIDE DEF k
  <2>4. Ntf("OTHER", TRUE) \in Message /\ Harmless(Ntf("OTHER", TRUE))
    BY DEF Ntf, Message, Harmless
  <2> QED
    BY <1>2, <1>3, <2>2, <2>3, <2>4, MessageTold DEF k
<1>4. CASE MayFail("reset") /\ HalIs(HalDataCback(r, Ntf("CORE_RESET", FALSE)))
  <2> DEFINE k == HalDataCback(r, Ntf("CORE_RESET", FALSE))
  <2>1. r \in HalBlock
    <3>0. <<>> \in Seq(Cmd)
      OBVIOUS
    <3>1. /\ [hal EXCEPT !.pending = <<>>] \in HalBlock
          /\ [hal EXCEPT !.pending = <<>>].faults = hal.faults
      BY <1>2, <3>0 DEF HalBlock
    <3>2. [[hal EXCEPT !.pending = <<>>] EXCEPT !.faults = @ + 1] \in HalBlock
      BY <1>4, <3>1, FaultType
    <3>3. r = [[hal EXCEPT !.pending = <<>>] EXCEPT !.faults = @ + 1]
      BY <1>2 DEF HalBlock
    <3> QED
      BY <3>2, <3>3
  <2>2. /\ r.mbox = hal.mbox /\ r.pending = <<>> /\ r.job = hal.job
        /\ r.recovered = hal.recovered /\ r.link = hal.link /\ r.ready = hal.ready /\ r.ntf = hal.ntf
    BY <1>2 DEF HalBlock
  <2> HIDE DEF r
  <2>3. /\ k.mbox = Append(r.mbox, Ntf("CORE_RESET", FALSE))
        /\ k.pending = r.pending /\ k.job = r.job /\ k.recovered = r.recovered
        /\ k.link = r.link /\ k.ready = r.ready /\ k.ntf = r.ntf
    BY <1>1, <2>1, DataPosted
  <2> HIDE DEF k
  <2>4. Ntf("CORE_RESET", FALSE) \in Message /\ Harmless(Ntf("CORE_RESET", FALSE))
    BY DEF Ntf, Message, Harmless
  <2> QED
    BY <1>2, <1>4, <2>2, <2>3, <2>4, MessageTold DEF k
<1> QED
  BY <1>1, <1>3, <1>4

LEMMA RequestTold == ASSUME TypeOK, Course(Here), HalRequestControl PROVE Told
<1> DEFINE g == [hal EXCEPT !.calls = @ + 1]
           k == PostHalEvt(g, "REQUEST_CONTROL", TRUE)
<1>1. nfc_cb.nfc_state = "IDLE" /\ HalIs(k)
  BY DEF HalRequestControl
<1>2. IsIdle(Here) /\ hal \in HalBlock
  BY <1>1, Situated, NowSame
<1>3. /\ k.mbox = Append(hal.mbox, Evt("REQUEST_CONTROL", TRUE))
      /\ k.pending = hal.pending /\ k.job = hal.job /\ k.recovered = hal.recovered
      /\ k.link = hal.link /\ k.ready = hal.ready /\ k.ntf = hal.ntf
  BY <1>2 DEF PostHalEvt, HalBlock
<1> HIDE DEF k
<1>4. Evt("REQUEST_CONTROL", TRUE) \in Message /\ Harmless(Evt("REQUEST_CONTROL", TRUE))
  BY DEF Evt, Message, Harmless, HalEvent
<1> QED
  BY <1>1, <1>2, <1>3, <1>4, MessageTold

LEMMA JobDoneTold == ASSUME TypeOK, Timely, Course(Here), HalJobDone PROVE Told
<1>1. /\ hal.link = "OPEN" /\ hal.job # "none"
      /\ HalIs(PostHalEvt([hal EXCEPT !.job = "none", !.faults = @], JobDone(hal.job), TRUE))
  BY DEF HalJobDone, MayFail, Timely
<1> DEFINE g == [hal EXCEPT !.job = "none", !.faults = @]
           e == JobDone(hal.job)
           k == PostHalEvt(g, e, TRUE)
<1>2. Here.nfc = nfc_cb /\ Here.hal = hal /\ hal \in HalBlock
  BY NowSame
<1>3. IsPostInit(Here) \/ IsIdle(Here)
  BY <1>1, <1>2 DEF Course, IsOff, IsOpening, IsStarting, AtStart, IsRetrying, IsFailing, IsClosing,
                    IsAsleep, HasFailed, Rested, Silent
<1>4. /\ k.mbox = Append(hal.mbox, Evt(e, TRUE)) /\ k.job = "none"
      /\ k.pending = hal.pending /\ k.recovered = hal.recovered
      /\ k.link = hal.link /\ k.ready = hal.ready /\ k.ntf = hal.ntf
  BY <1>2 DEF PostHalEvt, HalBlock
<1> HIDE DEF k
<1>5. CASE IsPostInit(Here)
  <2> DEFINE y == [nfc |-> nfc_cb, hal |-> k]
  <2>1. y.nfc = nfc_cb /\ y.hal = k
    OBVIOUS
  <2> HIDE DEF y
  <2>2. Asking(y) /\ Bare(y)
    BY <1>2, <1>5, <2>1 DEF IsPostInit, Asking, Bare, Going
  <2>3. hal.job = "post_init" /\ hal.mbox = <<>> /\ e = "POST_INIT_CPLT"
    BY <1>1, <1>2, <1>5 DEF IsPostInit, JobDone
  <2>4. k.mbox = <<Evt("POST_INIT_CPLT", TRUE)>>
    BY <1>4, <2>3, Singles
  <2>5. IsPostInit(y)
    BY <1>2, <1>4, <1>5, <2>1, <2>2, <2>4 DEF IsPostInit, Silent
  <2> QED
    BY <1>1, <2>5, HalReached DEF Course, y, k
<1>6. CASE IsIdle(Here)
  <2>1. e \in {"PRE_DISCOVER_CPLT", "RELEASE_CONTROL"}
    BY <1>1, <1>6, IdleHal, HalTypes, <1>2 DEF JobDone
  <2> HIDE DEF e
  <2>2. Evt(e, TRUE) \in Message /\ Harmless(Evt(e, TRUE))
    BY <2>1 DEF Evt, Message, Harmless, HalEvent
  <2> QED
    BY <1>1, <1>4, <1>6, <2>2, MessageTold DEF k, e
<1> QED
  BY <1>3, <1>5, <1>6

-----------------------------------------------------------------------------
(* The theorems.                                                           *)
LEMMA NextTold == ASSUME TypeOK, Timely, Course(Here), [Next]_vars PROVE Told
<1>1. CASE UNCHANGED vars
  BY <1>1 DEF vars, There, Here, Told, Says
<1>2. CASE Task
  BY <1>2, ReadyTold, ReadTold, TimeoutTold DEF Task
<1>3. CASE Api
  BY <1>3, EnableTold, DisableTold, DiscoveryTold, DeactivateTold, VsCommandTold, PowerTold DEF Api
<1>4. CASE Answers
  BY <1>4, OpenCpltTold, CloseCpltTold, RspTold, NtfTold, JobDoneTold DEF Answers
<1>5. CASE HalStrayNtf \/ HalRequestControl
  BY <1>5, StrayTold, RequestTold
<1>6. CASE EarlyTimeout \/ HalError
  BY <1>6 DEF EarlyTimeout, HalError, MayFail, Timely
<1> QED
  BY <1>1, <1>2, <1>3, <1>4, <1>5, <1>6 DEF Next

(* The invariant holds at first. *)
LEMMA CourseInit == Init => CourseKept
<1> SUFFICES ASSUME Init PROVE CourseKept
  OBVIOUS
<1>1. Here.nfc = InitNfcCb /\ Here.hal = InitHal
  BY DEF Init, Here
<1>2. IsOff(Here)
  BY <1>1 DEF IsOff, InitNfcCb, InitHal
<1> QED
  BY <1>2, InitType DEF CourseKept, Course

(* Every step keeps the invariant. *)
LEMMA CourseNext == CourseKept /\ [Next]_vars => CourseKept'
<1> SUFFICES ASSUME CourseKept, [Next]_vars PROVE CourseKept'
  OBVIOUS
<1>1. TypeOK'
  BY NextType DEF CourseKept
<1>2. env' = env
  BY NextEnv
<1>3. ASSUME Timely' PROVE Course(Here)'
  <2>1. Timely
    BY <1>2, <1>3 DEF Timely
  <2>2. Course(There)
    BY <2>1, NextTold DEF CourseKept, Told
  <2>3. Here' = There
    BY DEF Here, There
  <2>4. Course(There) => Course(Here)'
    BY <1>2, <2>3, Zenon DEF Course, IsOff, IsOpening, IsStarting, AtStart, ResetSent, NtfDue, InitSent,
       InFlight, LostRsp, Stuck, IsRetrying, IsFailing, IsPostInit, IsIdle, IsClosing, IsAsleep, HasFailed,
       Asking, Going, Rested, Bare, Silent, Pure, AllHarmless, Harmless, NoCore, NciVersion
  <2> QED
    BY <2>2, <2>4
<1> QED
  BY <1>1, <1>3 DEF CourseKept

(* What each situation says about the last report. *)
LEMMA CourseReports == ASSUME Course(Here) PROVE ReportMatches /\ ClosedWhenReported
<1>1. Here.nfc = nfc_cb /\ Here.hal = hal
  BY DEF Here
<1>2. ASSUME nfc_cb.report = "none" PROVE ReportMatches /\ ClosedWhenReported
  BY <1>2 DEF ReportMatches, ClosedWhenReported
<1>3. ASSUME nfc_cb.report # "none"
      PROVE  IsOff(Here) \/ IsIdle(Here) \/ IsAsleep(Here) \/ HasFailed(Here)
  BY <1>1, <1>3 DEF Course, IsOpening, IsStarting, AtStart, IsRetrying, IsFailing, IsPostInit, IsClosing,
                    Asking
<1>4. ASSUME IsOff(Here) \/ IsIdle(Here) \/ IsAsleep(Here) \/ HasFailed(Here)
      PROVE  ReportMatches /\ ClosedWhenReported
  BY <1>1, <1>4 DEF IsOff, IsIdle, IsAsleep, HasFailed, ReportMatches, ClosedWhenReported, AnswerTo
<1> QED
  BY <1>2, <1>3, <1>4

(* The event reported to the application answers the last request          *)
(* (NFC_Enable, NFC_SetPowerOffSleep, NFC_PowerCycleNFCC, NFC_Disable), and *)
(* a failed start, a power-off and a disable are reported with the HAL      *)
(* closed: for every command window, whatever answers of a timely           *)
(* environment are lost, whatever CORE_INIT is refused and whatever the     *)
(* application does meanwhile.                                              *)
THEOREM ReportsAnswer == Spec => [](Timely => ReportMatches /\ ClosedWhenReported)
<1>1. CourseKept => (Timely => ReportMatches /\ ClosedWhenReported)
  BY CourseReports DEF CourseKept
<1> QED
  BY <1>1, CourseInit, CourseNext, PTL DEF Spec

(* No request is answered twice: the NFC task does not replace a report     *)
(* before the next request, in a timely environment.  (A CORE_RESET that is *)
(* refused is reported twice and is not timely: MCNfcNcif, RefusedOnly.)    *)
THEOREM ReportedInTime == Spec => OneReportInTime
<1>1. CourseKept /\ [Next]_vars => [Timely => OneReportStep]_vars
  <2> SUFFICES ASSUME CourseKept, [Next]_vars, Timely PROVE OneReportStep
    OBVIOUS
  <2>1. Says(Here, There)
    BY NextTold DEF CourseKept, Told
  <2> QED
    BY <2>1 DEF Says, Here, There, OneReportStep
<1> QED
  BY <1>1, CourseInit, CourseNext, PTL DEF Spec, OneReportInTime

-----------------------------------------------------------------------------
(* The vendor call-backs, with a window of one command and no recovery.    *)

(* The answer to c goes to the call-back that is set, if to any. *)
Mine(c, n) == (c.op \in UserCmds \/ (n.rawVsCbflag /\ n.p_vsc_cback # 0)) => c.id = n.p_vsc_cback
(* No command is outstanding. *)
Quiet(h) == h.pending = <<>> /\ None(h.mbox, Answered)
Ours(x) ==
    /\ x.nfc.back.to = x.nfc.back.answers
    /\ \A i \in DOMAIN x.hal.pending : Mine(x.hal.pending[i], x.nfc)
    /\ \A i \in DOMAIN x.hal.mbox : x.hal.mbox[i] \in Answered => Mine(x.hal.mbox[i], x.nfc)
    /\ "POWER_CYCLE_NFCC" \in x.nfc.flags => "cycle" \in env.calls

(* Between two steps.  The flag of a raw vendor command outlives its       *)
(* answer only when the transport is closed for good.                      *)
Matched(x) ==
    /\ Ours(x)
    /\ x.nfc.rawVsCbflag /\ x.hal.link = "OPEN" => ~Quiet(x.hal)
    /\ x.nfc.rawVsCbflag => x.hal.link # "OPENING"
(* While a handler runs. *)
Attended(x) ==
    /\ x \in Pair /\ Matched(x) /\ x.hal.link # "OPENING"
    /\ x.nfc.nci_cmd_window # 0 => Quiet(x.hal)
(* After the answer of the last command was taken out of the mailbox. *)
Taking(x) == x \in Pair /\ Ours(x) /\ Quiet(x.hal) /\ x.hal.link # "OPENING"

(* Nothing of this changes. *)
Keeps(m, n) ==
    /\ n.p_vsc_cback = m.p_vsc_cback /\ n.rawVsCbflag = m.rawVsCbflag /\ n.back = m.back
    /\ "POWER_CYCLE_NFCC" \in n.flags => "POWER_CYCLE_NFCC" \in m.flags
    /\ n.nci_cmd_window \in {m.nci_cmd_window, 0}
Unmoved(g, h) == h.link = g.link /\ h.pending = g.pending /\ h.mbox = g.mbox

LEMMA MineKept == ASSUME NEW m, NEW n, Keeps(m, n), NEW c, Mine(c, m) PROVE Mine(c, n)
  BY DEF Keeps, Mine

LEMMA AttendSame ==
  ASSUME NEW x, Attended(x), NEW y \in Pair, Keeps(x.nfc, y.nfc), Unmoved(x.hal, y.hal)
  PROVE  Attended(y)
<1>1. Ours(y)
  BY MineKept DEF Attended, Matched, Ours, Keeps, Unmoved
<1>2. /\ Quiet(y.hal) <=> Quiet(x.hal)
      /\ y.hal.link = x.hal.link /\ (y.nfc.rawVsCbflag = x.nfc.rawVsCbflag)
      /\ (y.nfc.nci_cmd_window # 0 => x.nfc.nci_cmd_window # 0)
  BY DEF Quiet, Unmoved, Keeps
<1> QED
  BY <1>1, <1>2 DEF Attended, Matched

LEMMA AttendNfc ==
  ASSUME NEW x, Attended(x), NEW n \in ControlBlock, Keeps(x.nfc, n)
  PROVE  Attended(Nfc(x, n))
<1>1. Nfc(x, n) \in Pair /\ Nfc(x, n).nfc = n /\ Nfc(x, n).hal = x.hal
  BY NfcType DEF Attended
<1> QED
  BY <1>1, AttendSame DEF Unmoved

LEMMA AttendEnqueue ==
  ASSUME NEW x, Attended(x), NEW c \in Cmd
  PROVE  Attended(Enqueue(x, c))
<1> DEFINE n == [x.nfc EXCEPT !.nci_cmd_xmit_q = Append(@, c)]
           y == Enqueue(x, c)
<1>1. x \in Pair /\ x.nfc \in ControlBlock
  BY PairFields DEF Attended
<1>2. Keeps(x.nfc, n)
  BY <1>1 DEF Keeps, ControlBlock
<1>3. y \in Pair /\ y.nfc = n /\ y.hal = x.hal
  BY <1>1, EnqueueType DEF Enqueue, Nfc
<1> HIDE DEF n, y
<1>4. Attended(y)
  BY <1>2, <1>3, AttendSame DEF Unmoved
<1> QED
  BY <1>4 DEF y

LEMMA AttendWriteHead ==
  ASSUME Typed, NCI_MAX_CMD_WINDOW = 1, NEW x, Attended(x)
  PROVE  Attended(WriteHead(x))
<1>0. x \in Pair /\ x.nfc \in ControlBlock /\ x.hal \in HalBlock
  BY PairFields DEF Attended
<1>1. CASE x.nfc.nci_cmd_window = 0 \/ x.nfc.nci_cmd_xmit_q = <<>>
  BY <1>1 DEF WriteHead
<1>2. CASE x.nfc.nci_cmd_window # 0 /\ x.nfc.nci_cmd_xmit_q # <<>>
  <2> DEFINE c == Head(x.nfc.nci_cmd_xmit_q)
             m == [x.nfc EXCEPT !.nci_cmd_xmit_q = Tail(@), !.last_hdr = c.op,
                            !.p_vsc_cback = IF c.id # 0 THEN c.id ELSE @,
                            !.rawVsCbflag = @ \/ c.op = "RAW",
                            !.nci_cmd_window = @ - 1, !.nci_wait_rsp_timer = TRUE]
             h == HalWrite(x.hal, c)
             y == WriteHead(x)
  <2>1. y = [nfc |-> m, hal |-> h] /\ y \in Pair
    BY <1>0, <1>2, WriteHeadType DEF WriteHead
  <2>2. c \in Cmd /\ x.hal.pending \in Seq(Cmd)
    BY <1>0, <1>2, BlockTypes, HalTypes
  <2>3. /\ m.p_vsc_cback = IF c.id # 0 THEN c.id ELSE x.nfc.p_vsc_cback
        /\ m.rawVsCbflag <=> x.nfc.rawVsCbflag \/ c.op = "RAW"
        /\ m.nci_cmd_window = x.nfc.nci_cmd_window - 1 /\ m.back = x.nfc.back
        /\ m.flags = x.nfc.flags
    BY <1>0 DEF ControlBlock
  <2>4. x.nfc.nci_cmd_window = 1
    BY <1>0, <1>2, BlockTypes
  <2>5. /\ h.mbox = x.hal.mbox /\ h.link = x.hal.link
        /\ x.hal.link # "OPEN" => h.pending = x.hal.pending
        /\ x.hal.link = "OPEN" => h.pending = Append(x.hal.pending, c)
    BY <1>0 DEF HalWrite, HalBlock
  <2> HIDE DEF m, h, c
  <2>6. y.nfc = m /\ y.hal = h
    BY <2>1
  <2> HIDE DEF y
  <2>7. CASE x.hal.link = "OPEN"
    <3>1. Quiet(x.hal) /\ ~x.nfc.rawVsCbflag
      BY <1>2, <2>7 DEF Attended, Matched
    <3>2. h.pending = <<c>>
      BY <2>5, <2>7, <3>1, Singles DEF Quiet
    <3>3. Mine(c, m)
      <4>1. c.op \in StackCmd \cup UserCmds /\ (c.op \in UserCmds => c.id # 0)
        BY <2>2, EnvTypes DEF Cmd, StackCmd
      <4>2. c.op = "RAW" => c.op \in UserCmds
        BY <4>1 DEF StackCmd
      <4> QED
        BY <2>3, <3>1, <4>1, <4>2 DEF Mine
    <3>4. \A i \in DOMAIN h.pending : h.pending[i] = c
      BY <3>2
    <3>5. None(h.mbox, Answered) /\ ~Quiet(h)
      BY <2>5, <3>1, <3>2, Singles DEF Quiet
    <3>6. Ours(y)
      BY <2>3, <2>6, <3>3, <3>4, <3>5 DEF Ours, Attended, Matched, None
    <3> QED
      BY <2>1, <2>3, <2>4, <2>5, <2>6, <2>7, <3>5, <3>6 DEF Attended, Matched, y
  <2>8. CASE x.hal.link # "OPEN"
    <3>1. Quiet(h) /\ h.pending = <<>>
      BY <1>2, <2>5, <2>8 DEF Attended, Quiet
    <3>2. Ours(y)
      BY <2>3, <2>6, <3>1 DEF Ours, Attended, Matched, Quiet, None
    <3> QED
      BY <2>1, <2>3, <2>4, <2>5, <2>6, <2>8, <3>1, <3>2 DEF Attended, Matched, y
  <2> QED
    BY <2>7, <2>8
<1> QED
  BY <1>1, <1>2

LEMMA AttendSendDiscover ==
  ASSUME Typed, NCI_MAX_CMD_WINDOW = 1, NEW x, Attended(x), NEW ch \in Choice
  PROVE  Attended(SendDiscover(x, ch))
<1> DEFINE n == [x.nfc EXCEPT !.flags = @ \ {"DISCOVER_PENDING"}, !.p_disc_pending = FALSE]
           y == Nfc(x, n)
           c == Internal("DISCOVER")
<1>1. x.nfc \in ControlBlock
  BY PairFields DEF Attended
<1>2. n \in ControlBlock /\ Keeps(x.nfc, n)
  <2>1. n \in ControlBlock
    BY <1>1, BlockTypes, FieldTypes, ZenonT(40)
  <2>2. Keeps(x.nfc, n)
    BY <1>1 DEF Keeps, ControlBlock
  <2> QED
    BY <2>1, <2>2
<1>3. SendDiscover(x, ch) = IF ch.buf THEN WriteHead(Enqueue(y, c)) ELSE y
  BY DEF SendDiscover
<1> HIDE DEF n
<1>4. Attended(y)
  BY <1>2, AttendNfc
<1>5. c \in Cmd
  BY InternalType DEF StackCmd
<1> HIDE DEF y, c
<1> QED
  BY <1>3, <1>4, <1>5, AttendEnqueue, AttendWriteHead

LEMMA AttendHandOver ==
  ASSUME Typed, NCI_MAX_CMD_WINDOW = 1, NEW x, Attended(x), NEW ch \in Choice
  PROVE  Attended(HandOver(x, ch))
<1> DEFINE n == [x.nfc EXCEPT !.flags = @ \ {"CONTROL_REQUESTED"}]
           g(f) == [n EXCEPT !.flags = f \cup {"CONTROL_GRANTED"}, !.nci_cmd_window = 0]
           r(f, j) == [nfc |-> g(f), hal |-> HalStart(x.hal, j)]
<1>1. x \in Pair /\ x.nfc \in ControlBlock /\ n \in ControlBlock
  BY PairFields, BlockTypes, FieldTypes, Zenon DEF Attended
<1>2. n.flags = x.nfc.flags \ {"CONTROL_REQUESTED"} /\ Keeps(x.nfc, n)
  BY <1>1 DEF Keeps, ControlBlock
<1>3. HandOver(x, ch) \in {x, r(n.flags, "prediscover"), SendDiscover(Nfc(x, n), ch),
                           r(n.flags \ {"HAL_REQUESTED"}, "granted"), Nfc(x, n)}
  BY DEF HandOver
<1> HIDE DEF n
<1>4. ASSUME NEW f \in {n.flags, n.flags \ {"HAL_REQUESTED"}}, NEW j \in {"prediscover", "granted"}
      PROVE  Attended(r(f, j))
  <2> DEFINE m == g(f)
             h == HalStart(x.hal, j)
             y == [nfc |-> m, hal |-> h]
  <2>1. f \cup {"CONTROL_GRANTED"} \in SUBSET NFC_FL /\ 0 \in 0..NCI_MAX_CMD_WINDOW
    BY <1>1, BlockTypes, WindowAssumption DEF NFC_FL
  <2>2. m \in ControlBlock /\ h \in HalBlock
    BY <1>1, <2>1, FieldTypes, StartType, PairFields, Zenon
  <2>3. Keeps(n, m)
    BY <1>1 DEF Keeps, ControlBlock
  <2>4. Unmoved(x.hal, h)
    BY <1>1, PairFields DEF Unmoved, HalStart, HalBlock
  <2>5. y \in Pair /\ y.nfc = m /\ y.hal = h
    BY <2>2 DEF Pair
  <2> HIDE DEF m, h, y
  <2>6. Keeps(x.nfc, m)
    BY <1>2, <2>3 DEF Keeps
  <2> QED
    BY <2>4, <2>5, <2>6, AttendSame DEF y, m, h
<1>5. Attended(Nfc(x, n))
  BY <1>1, <1>2, AttendNfc
<1>6. Attended(SendDiscover(Nfc(x, n), ch))
  BY <1>5, AttendSendDiscover
<1> HIDE DEF r
<1> QED
  BY <1>3, <1>4, <1>5, <1>6

LEMMA AttendSend ==
  ASSUME Typed, NCI_MAX_CMD_WINDOW = 1, NEW x, Attended(x), NEW ch \in Choice
  PROVE  /\ Attended(CheckCmdQueue(x, ch))
         /\ \A c \in Cmd : Attended(SendCmd(x, c, ch))
         /\ \A op \in StackCmd : Attended(Send(x, op, ch))
<1>1. ASSUME NEW y, Attended(y) PROVE Attended(CheckCmdQueue(y, ch))
  BY <1>1, AttendWriteHead, AttendHandOver DEF CheckCmdQueue
<1>2. \A c \in Cmd : Attended(SendCmd(x, c, ch))
  BY <1>1, AttendEnqueue DEF SendCmd
<1>3. \A op \in StackCmd : Attended(Send(x, op, ch))
  BY <1>2, InternalType DEF Send
<1> QED
  BY <1>1, <1>2, <1>3

(* The pair keeps what matters while an answer is taken. *)
LEMMA TakingSame ==
  ASSUME NEW x, Taking(x), NEW y \in Pair, Unmoved(x.hal, y.hal),
         y.nfc.back.to = y.nfc.back.answers,
         "POWER_CYCLE_NFCC" \in y.nfc.flags => "POWER_CYCLE_NFCC" \in x.nfc.flags
  PROVE  Taking(y)
BY DEF Taking, Ours, Quiet, Unmoved, None

LEMMA TakenAttended == ASSUME NEW x, Taking(x), ~x.nfc.rawVsCbflag PROVE Attended(x)
BY DEF Taking, Attended, Matched

(* A response was taken: the window opens, and the next command may go. *)
LEMMA AttendUpdate ==
  ASSUME Typed, NCI_MAX_CMD_WINDOW = 1, NEW x, Taking(x), ~x.nfc.rawVsCbflag, NEW ch \in Choice
  PROVE  Attended(UpdateWindow(x, ch))
<1> DEFINE w == x.nfc.nci_cmd_window + 1
           n == [x.nfc EXCEPT !.nci_wait_rsp_timer = FALSE, !.p_vsc_cback = 0,
                              !.nci_cmd_window = w]
           y == Nfc(x, n)
<1>1. x \in Pair /\ x.nfc \in ControlBlock
  BY PairFields DEF Taking
<1>2. CASE x.nfc.nci_cmd_window = NCI_MAX_CMD_WINDOW
  BY <1>2, TakenAttended DEF UpdateWindow
<1>3. CASE x.nfc.nci_cmd_window # NCI_MAX_CMD_WINDOW
  <2>1. UpdateWindow(x, ch) = CheckCmdQueue(y, ch)
    BY <1>3 DEF UpdateWindow
  <2>2. w \in 0..NCI_MAX_CMD_WINDOW /\ 0 \in 0..MaxCmds
    BY <1>1, <1>3, BlockTypes, EnvTypes, WindowAssumption
  <2> HIDE DEF w
  <2>3. n \in ControlBlock
    BY <1>1, <2>2, FieldTypes, Zenon
  <2>4. n.back = x.nfc.back /\ n.flags = x.nfc.flags /\ n.rawVsCbflag = x.nfc.rawVsCbflag
    BY <1>1 DEF ControlBlock
  <2> HIDE DEF n
  <2>5. y \in Pair /\ y.nfc = n /\ y.hal = x.hal
    BY <1>1, <2>3, NfcType
  <2> HIDE DEF y
  <2>6. Taking(y)
    BY <2>4, <2>5, TakingSame DEF Unmoved, Taking, Ours
  <2>7. Attended(y)
    BY <2>4, <2>5, <2>6, TakenAttended
  <2> QED
    BY <2>1, <2>7, AttendSend
<1> QED
  BY <1>2, <1>3

(* The call-back of the command gets its answer. *)
LEMMA TakenBack ==
  ASSUME Typed, NEW x, Taking(x), NEW m \in Message, x.nfc.p_vsc_cback # 0 => m.id = x.nfc.p_vsc_cback
  PROVE  LET y == VendorCallback(x, m) IN
         Taking(y) /\ y.nfc.rawVsCbflag = x.nfc.rawVsCbflag
<1> DEFINE b == [to |-> x.nfc.p_vsc_cback, answers |-> m.id]
           n == [x.nfc EXCEPT !.back = b]
           y == VendorCallback(x, m)
<1>1. x \in Pair /\ x.nfc \in ControlBlock
  BY PairFields DEF Taking
<1>2. CASE x.nfc.p_vsc_cback = 0
  BY <1>2 DEF VendorCallback
<1>3. CASE x.nfc.p_vsc_cback # 0
  <2>1. y = Nfc(x, n) /\ y \in Pair
    BY <1>1, <1>3, VendorType DEF VendorCallback
  <2>2. b.to = b.answers
    BY <1>3
  <2> HIDE DEF b
  <2>3. n.back = b /\ n.flags = x.nfc.flags /\ n.rawVsCbflag = x.nfc.rawVsCbflag
    BY <1>1 DEF ControlBlock
  <2> HIDE DEF n
  <2>4. y.nfc = n /\ y.hal = x.hal
    BY <2>1 DEF Nfc
  <2> HIDE DEF y
  <2>5. Taking(y)
    BY <2>1, <2>2, <2>3, <2>4, TakingSame DEF Unmoved
  <2> QED
    BY <2>3, <2>4, <2>5 DEF y
<1> QED
  BY <1>2, <1>3

(* The answer of a raw vendor command. *)
LEMMA AttendRaw ==
  ASSUME Typed, NCI_MAX_CMD_WINDOW = 1, NEW x, Taking(x), NEW m \in Message, NEW ch \in Choice,
         x.nfc.rawVsCbflag, Mine(m, x.nfc)
  PROVE  Attended(RawVsRsp(x, m, ch))
<1> DEFINE y == VendorCallback(x, m)
           n == [y.nfc EXCEPT !.p_vsc_cback = 0, !.rawVsCbflag = FALSE]
           u == Nfc(y, n)
           z == UpdateWindow(u, ch)
           k == [z.nfc EXCEPT !.rawVsCbflag = FALSE]
           r == Nfc(z, k)
<1>1. RawVsRsp(x, m, ch) = r
  BY DEF RawVsRsp
<1>2. Taking(y)
  BY TakenBack DEF Mine
<1> HIDE DEF y
<1>3. y \in Pair /\ y.nfc \in ControlBlock /\ 0 \in 0..MaxCmds
  BY <1>2, PairFields, EnvTypes DEF Taking
<1>4. n \in ControlBlock
  BY <1>3, FieldTypes, Zenon
<1>5. n.back = y.nfc.back /\ n.flags = y.nfc.flags /\ ~n.rawVsCbflag
  BY <1>3 DEF ControlBlock
<1> HIDE DEF n
<1>6. u \in Pair /\ u.nfc = n /\ u.hal = y.hal
  BY <1>3, <1>4, NfcType
<1> HIDE DEF u
<1>7. Taking(u)
  BY <1>2, <1>5, <1>6, TakingSame DEF Unmoved, Taking, Ours
<1>8. Attended(z)
  BY <1>5, <1>6, <1>7, AttendUpdate
<1> HIDE DEF z
<1>9. z \in Pair /\ z.nfc \in ControlBlock
  BY <1>8, PairFields DEF Attended
<1>10. k \in ControlBlock
  BY <1>9, FieldTypes, Zenon
<1>11. /\ ~k.rawVsCbflag /\ k.p_vsc_cback = z.nfc.p_vsc_cback /\ k.back = z.nfc.back
       /\ k.flags = z.nfc.flags /\ k.nci_cmd_window = z.nfc.nci_cmd_window
  BY <1>9 DEF ControlBlock
<1> HIDE DEF k
<1>12. r \in Pair /\ r.nfc = k /\ r.hal = z.hal
  BY <1>9, <1>10, NfcType
<1> HIDE DEF r
<1>13. \A c : Mine(c, z.nfc) => Mine(c, k)
  BY <1>11 DEF Mine
<1>14. Ours(r)
  BY <1>8, <1>11, <1>12, <1>13 DEF Attended, Matched, Ours
<1>15. Attended(r)
  BY <1>8, <1>11, <1>12, <1>14 DEF Attended, Matched
<1> QED
  BY <1>1, <1>15

(* With the window shut a command waits in the queue. *)
LEMMA TakingSend ==
  ASSUME Typed, NCI_MAX_CMD_WINDOW = 1, NEW x, Taking(x), x.nfc.nci_cmd_window = 0,
         NEW ch \in Choice, NEW op \in StackCmd
  PROVE  LET y == Send(x, op, ch) IN Taking(y) /\ y.nfc.rawVsCbflag = x.nfc.rawVsCbflag
<1> DEFINE n == [x.nfc EXCEPT !.nci_cmd_xmit_q = Append(@, Internal(op))]
           y == Enqueue(x, Internal(op))
<1>1. x \in Pair /\ x.nfc \in ControlBlock
  BY PairFields DEF Taking
<1>2. /\ n.back = x.nfc.back /\ n.flags = x.nfc.flags /\ n.rawVsCbflag = x.nfc.rawVsCbflag
      /\ n.nci_cmd_window = 0
  BY <1>1 DEF ControlBlock
<1>3. y \in Pair /\ y.nfc = n /\ y.hal = x.hal
  BY <1>1, EnqueueType, InternalType DEF Enqueue, Nfc
<1> HIDE DEF n, y
<1>4. WriteHead(y) = y /\ HandOver(y, ch) = y
  BY <1>2, <1>3 DEF WriteHead, HandOver
<1>5. Send(x, op, ch) \in {x, y}
  BY <1>4 DEF Send, SendCmd, CheckCmdQueue, y
<1>6. Taking(y)
  BY <1>2, <1>3, TakingSame DEF Unmoved, Taking, Ours
<1> QED
  BY <1>2, <1>3, <1>5, <1>6

(* The answer of any other command. *)
LEMMA AttendRsp ==
  ASSUME Typed, NCI_MAX_CMD_WINDOW = 1, NEW x, Taking(x), NEW m \in Message, m.mt = "RSP",
         NEW ch \in Choice, ~x.nfc.rawVsCbflag, x.nfc.nci_cmd_window = 0,
         m.op = x.nfc.last_hdr, m.ok, Mine(m, x.nfc)
  PROVE  Attended(ProcRsp(x, m, ch))
<1> DEFINE d == [x.nfc EXCEPT !.disc_on = TRUE]
           o == x.nfc.disc_on /\ ~ch.idle
           e == [x.nfc EXCEPT !.disc_on = o]
           a == [x.nfc EXCEPT !.nci_wait_rsp_timer = TRUE]
           b == [x.nfc EXCEPT !.nci_version = "1_0"]
           i == [x.nfc EXCEPT !.nfc_state = "W4_POST_INIT_CPLT", !.p_nci_init_rsp = TRUE]
           h == HalStart(x.hal, "post_init")
           z == CASE m.op = "CORE_RESET" -> ProcResetRsp(x, m, ch)
                  [] m.op = "CORE_INIT"  -> ProcInitRsp(x, m, ch)
                  [] m.op \in UserCmds   -> VendorCallback(x, m)
                  [] m.op = "DISCOVER"   -> Nfc(x, d)
                  [] m.op = "DEACTIVATE" -> Nfc(x, e)
                  [] m.op = "DISCOVER_MAP" -> x
           k == [z.nfc EXCEPT !.last_hdr = "NONE"]
           Took(y) == Taking(y) /\ ~y.nfc.rawVsCbflag
<1>1. m.op \in StackCmd \cup UserCmds /\ UserCmds \subseteq {"VSC", "RAW"}
  BY MessageTypes, EnvTypes
<1>2. m.op # "NONE"
  BY <1>1 DEF StackCmd
<1>4. x \in Pair /\ x.nfc \in ControlBlock /\ x.hal \in HalBlock
  BY PairFields DEF Taking
<1>3. ProcRsp(x, m, ch) = UpdateWindow(Nfc(z, k), ch)
  BY <1>2 DEF ProcRsp
<1>0. o \in BOOLEAN
  BY <1>4 DEF ControlBlock
<1> HIDE DEF o
<1>5. d \in ControlBlock /\ e \in ControlBlock /\ a \in ControlBlock /\ b \in ControlBlock
      /\ i \in ControlBlock
  BY <1>0, <1>4, FieldTypes DEF NFC_STATE
<1>6. \A n \in {d, e, a, b, i} : /\ n.flags = x.nfc.flags /\ n.rawVsCbflag = x.nfc.rawVsCbflag
         /\ n.back = x.nfc.back
  BY <1>4 DEF ControlBlock
<1>7. b.nci_cmd_window = 0
  BY <1>4 DEF ControlBlock
<1>8. ProcResetRsp(x, m, ch) \in {Nfc(x, a), Send(Nfc(x, b), "CORE_INIT", ch)}
  BY DEF ProcResetRsp
<1>9. ProcInitRsp(x, m, ch) = [nfc |-> i, hal |-> h]
  BY DEF ProcInitRsp
<1> HIDE DEF d, e, a, b, i
<1>10. \A n \in {d, e, a, b} : Took(Nfc(x, n)) /\ Nfc(x, n).nfc = n
  <2>1. ASSUME NEW n \in {d, e, a, b} PROVE Took(Nfc(x, n)) /\ Nfc(x, n).nfc = n
    <3>1. Nfc(x, n) \in Pair /\ Nfc(x, n).nfc = n /\ Nfc(x, n).hal = x.hal
      BY <1>4, <1>5, NfcType
    <3> QED
      BY <1>6, <3>1, TakingSame DEF Unmoved, Taking, Ours
  <2> QED
    BY <2>1
<1>11. Took(Send(Nfc(x, b), "CORE_INIT", ch))
  <2>1. Nfc(x, b).nfc = b
    BY DEF Nfc
  <2> QED
    BY <1>7, <1>10, <2>1, TakingSend DEF StackCmd
<1>12. Took(ProcInitRsp(x, m, ch))
  <2>0. h \in HalBlock
    BY <1>4, StartType
  <2>1. Unmoved(x.hal, h)
    BY <1>4 DEF HalStart, HalBlock, Unmoved
  <2> HIDE DEF h
  <2>2. [nfc |-> i, hal |-> h] \in Pair
    BY <1>5, <2>0 DEF Pair
  <2> QED
    BY <1>6, <1>9, <2>1, <2>2, TakingSame DEF Taking, Ours
<1>13. m.op \in UserCmds => Took(VendorCallback(x, m))
  BY TakenBack DEF Mine
<1>14. Took(x)
  OBVIOUS
<1>15. Took(z)
  <2>1. \/ z \in {ProcResetRsp(x, m, ch), ProcInitRsp(x, m, ch), x, Nfc(x, d), Nfc(x, e)}
        \/ m.op \in UserCmds /\ z = VendorCallback(x, m)
    BY <1>1 DEF StackCmd
  <2> HIDE DEF z, Took
  <2> QED
    BY <1>8, <1>10, <1>11, <1>12, <1>13, <1>14, <2>1
<1> HIDE DEF z
<1>16. z \in Pair /\ z.nfc \in ControlBlock
  BY <1>15, PairFields DEF Taking
<1>17. k \in ControlBlock
  BY <1>16, FieldTypes, Zenon
<1>18. k.flags = z.nfc.flags /\ k.rawVsCbflag = z.nfc.rawVsCbflag /\ k.back = z.nfc.back
  BY <1>16 DEF ControlBlock
<1> HIDE DEF k
<1>19. Nfc(z, k) \in Pair /\ Nfc(z, k).nfc = k /\ Nfc(z, k).hal = z.hal
  BY <1>16, <1>17, NfcType
<1>20. Took(Nfc(z, k))
  BY <1>15, <1>18, <1>19, TakingSame DEF Unmoved, Taking, Ours
<1> QED
  BY <1>3, <1>20, AttendUpdate

(* A CORE_RESET notification of the boot. *)
LEMMA AttendResetNtf ==
  ASSUME Typed, NCI_MAX_CMD_WINDOW = 1, NEW x, Attended(x), NEW m \in Message, m.ok, NEW ch \in Choice
  PROVE  Attended(ProcResetNtf(x, m, ch))
<1> DEFINE n == [x.nfc EXCEPT !.nci_wait_rsp_timer = FALSE, !.nci_version = "2_0"]
           y == Nfc(x, n)
<1>1. ProcResetNtf(x, m, ch) = Send(y, "CORE_INIT", ch)
  BY DEF ProcResetNtf
<1>2. x.nfc \in ControlBlock
  BY PairFields DEF Attended
<1>3. n \in ControlBlock
  BY <1>2, FieldTypes, Zenon
<1>4. Keeps(x.nfc, n)
  BY <1>2 DEF Keeps, ControlBlock
<1> HIDE DEF n
<1>5. Attended(y)
  BY <1>3, <1>4, AttendNfc
<1> HIDE DEF y
<1> QED
  BY <1>1, <1>5, AttendSend DEF StackCmd

(* The handlers of a start, of its end, and of the time-out. *)
LEMMA AttendFields ==
  ASSUME NEW x, Attended(x)
  PROVE  /\ \A st \in NFC_STATE : Attended(SetState(x, st))
         /\ \A f \in SUBSET (NFC_FL \ {"POWER_CYCLE_NFCC"}) : Attended(Flagged(x, f))
         /\ Attended(Expired(x)) /\ Attended(Disabled(x))
         /\ \A r \in Request : Attended(Asked(x, r))
<1>1. x \in Pair /\ x.nfc \in ControlBlock
  BY PairFields DEF Attended
<1>2. ASSUME NEW st \in NFC_STATE PROVE Attended(SetState(x, st))
  <2> DEFINE n == [x.nfc EXCEPT !.nfc_state = st]
  <2>1. n \in ControlBlock
    BY <1>1, FieldTypes, Zenon
  <2>2. Keeps(x.nfc, n)
    BY <1>1 DEF Keeps, ControlBlock
  <2> HIDE DEF n
  <2>3. Attended(Nfc(x, n))
    BY <2>1, <2>2, AttendNfc
  <2> QED
    BY <2>3 DEF SetState, n
<1>3. ASSUME NEW f \in SUBSET (NFC_FL \ {"POWER_CYCLE_NFCC"}) PROVE Attended(Flagged(x, f))
  <2> DEFINE n == [x.nfc EXCEPT !.flags = @ \cup f]
  <2>1. n \in ControlBlock
    BY <1>1, FieldTypes, BlockTypes, Zenon
  <2>2. Keeps(x.nfc, n)
    BY <1>1 DEF Keeps, ControlBlock
  <2> HIDE DEF n
  <2>3. Attended(Nfc(x, n))
    BY <2>1, <2>2, AttendNfc
  <2> QED
    BY <2>3 DEF Flagged, n
<1>4. Attended(Expired(x))
  <2> DEFINE n == [x.nfc EXCEPT !.nci_wait_rsp_timer = FALSE]
  <2>1. n \in ControlBlock
    BY <1>1, FieldTypes, Zenon
  <2>2. Keeps(x.nfc, n)
    BY <1>1 DEF Keeps, ControlBlock
  <2> HIDE DEF n
  <2>3. Attended(Nfc(x, n))
    BY <2>1, <2>2, AttendNfc
  <2> QED
    BY <2>3 DEF Expired, n
<1>5. Attended(Disabled(x))
  <2> DEFINE n == [x.nfc EXCEPT !.nfc_state = "NONE", !.report = "DISABLE", !.p_resp_cback = FALSE]
  <2>1. n \in ControlBlock
    BY <1>1, FieldTypes, Zenon DEF NFC_STATE, Report
  <2>2. Keeps(x.nfc, n)
    BY <1>1 DEF Keeps, ControlBlock
  <2> HIDE DEF n
  <2>3. Attended(Nfc(x, n))
    BY <2>1, <2>2, AttendNfc
  <2> QED
    BY <2>3 DEF Disabled, n
<1>6. ASSUME NEW r \in Request PROVE Attended(Asked(x, r))
  <2> DEFINE n == [x.nfc EXCEPT !.asked = r, !.report = "none"]
  <2>1. n \in ControlBlock
    BY <1>1, FieldTypes, Zenon DEF Report
  <2>2. Keeps(x.nfc, n)
    BY <1>1 DEF Keeps, ControlBlock
  <2> HIDE DEF n
  <2>3. Attended(Nfc(x, n))
    BY <2>1, <2>2, AttendNfc
  <2> QED
    BY <2>3 DEF Asked, n
<1> QED
  BY <1>2, <1>3, <1>4, <1>5, <1>6

LEMMA AttendNotify ==
  ASSUME NEW x, Attended(x), NEW ok \in BOOLEAN
  PROVE  Attended(NotifyEnableStatus(x, ok))
<1> DEFINE kept == x.nfc.flags \ {"RESTARTING", "POWER_CYCLE_NFCC"}
           f == IF ok THEN kept ELSE kept \cup {"POWER_OFF_SLEEP"}
           r == IF ok THEN "RESTART_OK" ELSE "RESTART_FAILED"
           s == IF ok THEN "ENABLE_OK" ELSE "ENABLE_FAILED"
           a == [x.nfc EXCEPT !.flags = f, !.report = r]
           b == [x.nfc EXCEPT !.report = s]
<1>1. NotifyEnableStatus(x, ok) \in {x, Nfc(x, a), Nfc(x, b)}
  BY DEF NotifyEnableStatus
<1>2. x.nfc \in ControlBlock
  BY PairFields DEF Attended
<1>3. r \in Report /\ s \in Report /\ f \in SUBSET NFC_FL
  BY <1>2, BlockTypes DEF Report, NFC_FL
<1>4. "POWER_CYCLE_NFCC" \notin f
  OBVIOUS
<1> HIDE DEF f, r, s
<1>5. a \in ControlBlock /\ b \in ControlBlock
  BY <1>2, <1>3, FieldTypes, Zenon
<1>6. Keeps(x.nfc, a) /\ Keeps(x.nfc, b)
  BY <1>2, <1>4 DEF Keeps, ControlBlock
<1> HIDE DEF a, b
<1> QED
  BY <1>1, <1>5, <1>6, AttendNfc

LEMMA AttendClosed == ASSUME NEW x, Attended(x) PROVE Attended(HalClose(x))
<1> DEFINE y == HalClose(x)
<1>1. /\ y \in Pair /\ y.nfc = x.nfc /\ y.hal.mbox = x.hal.mbox /\ y.hal.link = "CLOSING"
      /\ y.hal.pending = <<>>
  BY CloseFacts DEF Attended
<1> HIDE DEF y
<1>2. Ours(y)
  BY <1>1 DEF Attended, Matched, Ours
<1>3. Attended(y)
  BY <1>1, <1>2 DEF Attended, Matched, Quiet
<1> QED
  BY <1>3 DEF y

LEMMA AttendEnabled ==
  ASSUME Typed, NCI_MAX_CMD_WINDOW = 1, NEW x, Attended(x), NEW ok \in BOOLEAN, NEW ch \in Choice
  PROVE  /\ Attended(Enabled(x, ok, ch))
         /\ ~ok /\ x.hal.pending = <<>> => Enabled(x, ok, ch).hal.pending = <<>>
<1> DEFINE s(st) == SetState(x, st)
           a == NotifyEnableStatus(Send(s("IDLE"), "DISCOVER_MAP", ch), TRUE)
           b == NotifyEnableStatus(s("NFCC_POWER_OFF_SLEEP"), FALSE)
           c == NotifyEnableStatus(s("NONE"), FALSE)
<1>1. /\ ok => Enabled(x, ok, ch) = a
      /\ ~ok => Enabled(x, ok, ch) \in {b, HalClose(x), c}
  BY DEF Enabled
<1>2. \A st \in {"IDLE", "NFCC_POWER_OFF_SLEEP", "NONE"} : Attended(s(st))
  BY AttendFields DEF NFC_STATE
<1>3. \A st : s(st).hal = x.hal
  BY DEF SetState, Nfc
<1> HIDE DEF s
<1>4. Attended(Send(s("IDLE"), "DISCOVER_MAP", ch))
  BY <1>2, AttendSend DEF StackCmd
<1>5. Attended(a) /\ Attended(b) /\ Attended(c)
  BY <1>2, <1>4, AttendNotify
<1>6. b.hal = x.hal /\ c.hal = x.hal
  BY <1>3 DEF NotifyEnableStatus, Nfc
<1>7. HalClose(x).hal.pending = <<>>
  BY CloseFacts DEF Attended
<1> HIDE DEF a, b, c
<1> QED
  BY <1>1, <1>5, <1>6, <1>7, AttendClosed

(* A time-out: nothing is outstanding. *)
LEMMA AttendTimeout ==
  ASSUME Typed, NCI_MAX_CMD_WINDOW = 1, NEW x, Attended(x), x.hal.pending = <<>>, NEW ch \in Choice
  PROVE  Attended(CmdTimeout(x, ch))
<1> DEFINE e == Expired(x)
           z == IF x.nfc.nfc_state = "CORE_INIT" /\ ~ch.fw THEN Enabled(e, FALSE, ch) ELSE e
           h(q) == [z.hal EXCEPT !.pending = <<>>, !.ntf = FALSE, !.recovered = q]
           y == CmdTimeout(x, ch)
<1>1. Attended(e) /\ e.hal = x.hal
  BY AttendFields DEF Expired, Nfc
<1>2. y \in Pair
  BY TimeoutType DEF Attended
<1>3. \E q : y = Resend(z, q)
  BY DEF CmdTimeout
<1> HIDE DEF e, y
<1>4. Attended(z) /\ z.hal.pending = <<>>
  BY <1>1, AttendEnabled
<1> HIDE DEF z
<1>5. PICK q : y = z \/ y = Hal(z, h(q))
  BY <1>3 DEF Resend
<1>6. CASE y = Hal(z, h(q))
  <2>1. z.hal \in HalBlock
    BY <1>4, PairFields DEF Attended
  <2>2. h(q).link = z.hal.link /\ h(q).mbox = z.hal.mbox /\ h(q).pending = <<>>
    BY <2>1 DEF HalBlock
  <2> HIDE DEF h
  <2>3. y.nfc = z.nfc /\ y.hal = h(q)
    BY <1>6 DEF Hal
  <2>4. Attended(y)
    BY <1>2, <1>4, <2>2, <2>3, AttendSame DEF Unmoved, Keeps
  <2> QED
    BY <2>4 DEF y
<1> QED
  BY <1>4, <1>5, <1>6 DEF y

LEMMA AttendHandleClose == ASSUME NEW x, Attended(x) PROVE Attended(HandleClose(x))
<1> DEFINE f == x.nfc.flags \ {"POWER_OFF_SLEEP"}
           n == [x.nfc EXCEPT !.nfc_state = "NFCC_POWER_OFF_SLEEP", !.flags = f, !.report = "POWER_OFF"]
<1>1. HandleClose(x) \in {x, NotifyEnableStatus(SetState(x, "NONE"), FALSE), Nfc(x, n), Disabled(x)}
  BY DEF HandleClose
<1>2. x.nfc \in ControlBlock /\ f \in SUBSET NFC_FL
  BY PairFields, BlockTypes DEF Attended
<1>3. "POWER_CYCLE_NFCC" \in f => "POWER_CYCLE_NFCC" \in x.nfc.flags
  OBVIOUS
<1> HIDE DEF f
<1>4. n \in ControlBlock
  BY <1>2, FieldTypes, Zenon DEF NFC_STATE, Report
<1>5. Keeps(x.nfc, n)
  BY <1>2, <1>3 DEF Keeps, ControlBlock
<1> HIDE DEF n
<1>6. Attended(SetState(x, "NONE")) /\ Attended(Disabled(x))
  BY AttendFields DEF NFC_STATE
<1>7. Attended(NotifyEnableStatus(SetState(x, "NONE"), FALSE))
  BY <1>6, AttendNotify
<1> QED
  BY <1>1, <1>4, <1>5, <1>6, <1>7, AttendNfc

LEMMA AttendPostInit ==
  ASSUME Typed, NCI_MAX_CMD_WINDOW = 1, NEW x, Attended(x), NEW ok \in BOOLEAN, NEW ch \in Choice
  PROVE  Attended(HandlePostInit(x, ok, ch))
<1> DEFINE y == IF x.nfc.nfc_state = "W4_POST_INIT_CPLT" THEN Enabled(x, ok, ch) ELSE x
           n == [y.nfc EXCEPT !.p_nci_init_rsp = FALSE]
<1>1. HandlePostInit(x, ok, ch) \in {x, Nfc(y, n)}
  BY DEF HandlePostInit
<1>2. Attended(y)
  BY AttendEnabled
<1> HIDE DEF y
<1>3. y.nfc \in ControlBlock
  BY <1>2, PairFields DEF Attended
<1>4. n \in ControlBlock
  BY <1>3, FieldTypes, Zenon
<1>5. Keeps(y.nfc, n)
  BY <1>3 DEF Keeps, ControlBlock
<1> HIDE DEF n
<1> QED
  BY <1>1, <1>2, <1>4, <1>5, AttendNfc

(* The HAL gives the window back: no command is outstanding. *)
LEMMA AttendGivenBack ==
  ASSUME Typed, NCI_MAX_CMD_WINDOW = 1, NEW x, Attended(x), Quiet(x.hal), NEW ch \in Choice
  PROVE  Attended(HandlePreDiscover(x, ch)) /\ Attended(HandleRelease(x, ch))
<1> DEFINE f == x.nfc.flags \ {"CONTROL_GRANTED"}
           n == [x.nfc EXCEPT !.nci_cmd_window = NCI_MAX_CMD_WINDOW, !.flags = f]
           u == GivenBack(x)
<1>1. /\ HandlePreDiscover(x, ch) \in {SendDiscover(u, ch), CheckCmdQueue(u, ch)}
      /\ HandleRelease(x, ch) \in {x, CheckCmdQueue(u, ch)}
  BY DEF HandlePreDiscover, HandleRelease
<1>2. x \in Pair /\ x.nfc \in ControlBlock
  BY PairFields DEF Attended
<1>3. NCI_MAX_CMD_WINDOW \in 0..NCI_MAX_CMD_WINDOW /\ f \in SUBSET NFC_FL
  BY <1>2, BlockTypes
<1>4. "POWER_CYCLE_NFCC" \in f => "POWER_CYCLE_NFCC" \in x.nfc.flags
  OBVIOUS
<1>5. u = Nfc(x, n)
  BY DEF GivenBack
<1> HIDE DEF f, u
<1>6. n \in ControlBlock
  BY <1>2, <1>3, FieldTypes, Zenon
<1>7. /\ n.p_vsc_cback = x.nfc.p_vsc_cback /\ n.rawVsCbflag = x.nfc.rawVsCbflag
      /\ n.back = x.nfc.back /\ n.flags = f
  BY <1>2 DEF ControlBlock
<1> HIDE DEF n
<1>8. u \in Pair /\ u.nfc = n /\ u.hal = x.hal
  BY <1>2, <1>5, <1>6, NfcType
<1>9. \A c : Mine(c, x.nfc) => Mine(c, n)
  BY <1>7 DEF Mine
<1>10. Ours(u)
  BY <1>4, <1>7, <1>8, <1>9 DEF Attended, Matched, Ours
<1>11. Attended(u)
  BY <1>7, <1>8, <1>10 DEF Attended, Matched
<1> QED
  BY <1>1, <1>11, AttendSend, AttendSendDiscover

-----------------------------------------------------------------------------
(* Each step keeps the call-backs matched.                                 *)
Vendor == Owned /\ Addressed /\ Matched(Here)

LEMMA Attained ==
  ASSUME NEW x \in Pair, Matched(x), Become(x)
  PROVE  Matched(There)
<1>1. There = x
  BY PairFields DEF There, Become
<1> QED
  BY <1>1

(* The pair a handler starts from. *)
LEMMA NowFields ==
  ASSUME Vendor, NEW h \in HalBlock
  PROVE  LET x == Hal(Now, h) IN
         /\ x \in Pair /\ x.hal = h /\ x.nfc \in ControlBlock
         /\ x.nfc.p_vsc_cback = nfc_cb.p_vsc_cback /\ x.nfc.rawVsCbflag = nfc_cb.rawVsCbflag
         /\ x.nfc.flags = nfc_cb.flags /\ x.nfc.nci_cmd_window = nfc_cb.nci_cmd_window
         /\ x.nfc.back.to = x.nfc.back.answers
<1> DEFINE n == [nfc_cb EXCEPT !.back = NoBack]
<1>1. Now \in Pair /\ Now.nfc = n /\ nfc_cb \in ControlBlock
  BY OwnedFacts, TypeFacts DEF Vendor, Owned
<1>2. /\ n.p_vsc_cback = nfc_cb.p_vsc_cback /\ n.rawVsCbflag = nfc_cb.rawVsCbflag
      /\ n.flags = nfc_cb.flags /\ n.nci_cmd_window = nfc_cb.nci_cmd_window /\ n.back = NoBack
  BY <1>1 DEF ControlBlock
<1> HIDE DEF n
<1>3. Hal(Now, h) \in Pair /\ Hal(Now, h).nfc = Now.nfc /\ Hal(Now, h).hal = h
  BY <1>1, HalType
<1>4. Hal(Now, h).nfc \in ControlBlock
  BY <1>3, PairFields
<1>5. NoBack.to = NoBack.answers
  BY DEF NoBack
<1> QED
  BY <1>1, <1>2, <1>3, <1>4, <1>5

LEMMA VendorFacts ==
  ASSUME Vendor
  PROVE  /\ Typed /\ NCI_MAX_CMD_WINDOW = 1 /\ Undisturbed
         /\ nfc_cb \in ControlBlock /\ hal \in HalBlock /\ Now = Hal(Now, hal)
         /\ Chan(Here) /\ Phase(Here) /\ Here \in Pair /\ Here.nfc = nfc_cb /\ Here.hal = hal
         /\ \A i \in DOMAIN hal.pending : Mine(hal.pending[i], nfc_cb)
         /\ \A i \in DOMAIN hal.mbox : hal.mbox[i] \in Answered => Mine(hal.mbox[i], nfc_cb)
         /\ "POWER_CYCLE_NFCC" \in nfc_cb.flags => "cycle" \in env.calls
         /\ nfc_cb.rawVsCbflag /\ hal.link = "OPEN" => ~Quiet(hal)
         /\ nfc_cb.rawVsCbflag => hal.link # "OPENING"
         /\ nfc_cb.nci_cmd_window # 0 => Quiet(hal)
<1>1. /\ Typed /\ NCI_MAX_CMD_WINDOW = 1 /\ Here \in Pair
      /\ Here.nfc = nfc_cb /\ Here.hal = hal /\ nfc_cb \in ControlBlock /\ hal \in HalBlock
  BY OwnedFacts DEF Vendor
<1>2. Undisturbed /\ Chan(Here) /\ Phase(Here) /\ Matched(Here)
  BY DEF Vendor, Owned, Calm
<1>3. Now = Hal(Now, hal)
  BY DEF Now, Hal
<1>4. nfc_cb.nci_cmd_window # 0 => Quiet(hal)
  BY <1>1, <1>2 DEF Chan, Free, Busy, Lent, Lost, Unused, Quiet
<1> QED
  BY <1>1, <1>2, <1>3, <1>4 DEF Matched, Ours

(* The transport does what it did. *)
LEMMA NowAttended ==
  ASSUME Vendor, NEW h \in HalBlock, Unmoved(hal, h), hal.link # "OPENING"
  PROVE  Attended(Hal(Now, h))
<1> DEFINE x == Hal(Now, h)
<1>1. /\ x \in Pair /\ x.hal = h
      /\ x.nfc.p_vsc_cback = nfc_cb.p_vsc_cback /\ x.nfc.rawVsCbflag = nfc_cb.rawVsCbflag
      /\ x.nfc.flags = nfc_cb.flags /\ x.nfc.nci_cmd_window = nfc_cb.nci_cmd_window
      /\ x.nfc.back.to = x.nfc.back.answers
  BY NowFields
<1> HIDE DEF x
<1>2. h.link = hal.link /\ h.pending = hal.pending /\ h.mbox = hal.mbox /\ (Quiet(h) <=> Quiet(hal))
  BY DEF Unmoved, Quiet
<1>3. Ours(x)
  BY <1>1, <1>2, VendorFacts DEF Ours, Mine
<1>4. Matched(x)
  BY <1>1, <1>2, <1>3, VendorFacts DEF Matched
<1>5. Attended(x)
  BY <1>1, <1>2, <1>4, VendorFacts DEF Attended
<1> QED
  BY <1>5 DEF x

LEMMA CallAttended ==
  ASSUME Vendor, hal.link # "OPENING"
  PROVE  /\ Attended(Now)
         /\ hal.calls < MaxCalls => Attended(Called(Now))
         /\ hal.cmds < MaxCmds => Attended(Hal(Now, [hal EXCEPT !.cmds = @ + 1]))
<1>1. Attended(Now)
  BY VendorFacts, NowAttended DEF Unmoved
<1>2. ASSUME hal.calls < MaxCalls PROVE Attended(Called(Now))
  <2> DEFINE k == hal.calls + 1
             h == [hal EXCEPT !.calls = k]
  <2>1. Called(Now) = Hal(Now, h)
    BY TypeFacts DEF Called, Vendor, Owned
  <2>2. k \in 0..MaxCalls
    BY <1>2, VendorFacts, EnvTypes, HalTypes
  <2> HIDE DEF k
  <2>3. h \in HalBlock
    BY <2>2, VendorFacts DEF HalBlock
  <2>4. Unmoved(hal, h)
    BY VendorFacts DEF HalBlock, Unmoved
  <2> HIDE DEF h
  <2> QED
    BY <2>1, <2>3, <2>4, NowAttended
<1>3. ASSUME hal.cmds < MaxCmds PROVE Attended(Hal(Now, [hal EXCEPT !.cmds = @ + 1]))
  <2> DEFINE k == hal.cmds + 1
             h == [hal EXCEPT !.cmds = k]
  <2>2. k \in 0..MaxCmds
    BY <1>3, VendorFacts, EnvTypes, HalTypes
  <2> HIDE DEF k
  <2>3. h \in HalBlock
    BY <2>2, VendorFacts DEF HalBlock
  <2>4. Unmoved(hal, h)
    BY VendorFacts DEF HalBlock, Unmoved
  <2> HIDE DEF h
  <2>5. Attended(Hal(Now, h))
    BY <2>3, <2>4, NowAttended
  <2> QED
    BY <2>5 DEF h, k
<1> QED
  BY <1>1, <1>2, <1>3

(* A message is taken out of the mailbox. *)
LEMMA Reading ==
  ASSUME Vendor, hal.mbox # <<>>
  PROVE  LET m == Head(hal.mbox)
             x == Hal(Now, [hal EXCEPT !.mbox = Tail(@)])
         IN  /\ m \in Message /\ Allowed(m) /\ x.nfc.rawVsCbflag = nfc_cb.rawVsCbflag
             /\ m \in Answered => /\ Taking(x) /\ Mine(m, x.nfc)
                                  /\ m.op = x.nfc.last_hdr /\ x.nfc.nci_cmd_window = 0
             /\ m \notin Answered => Attended(x)
             /\ m \in Returned => Quiet(x.hal)
<1> DEFINE m == Head(hal.mbox)
           q == Tail(hal.mbox)
           h == [hal EXCEPT !.mbox = q]
           x == Hal(Now, h)
<1>1. /\ q \in Seq(Message) /\ 1 \in DOMAIN hal.mbox /\ hal.mbox[1] = m /\ hal.mbox \in Seq(Message)
      /\ \A i \in DOMAIN q : i + 1 \in DOMAIN hal.mbox /\ q[i] = hal.mbox[i + 1]
      /\ \A j \in DOMAIN hal.mbox : j # 1 => j - 1 \in DOMAIN q /\ j = (j - 1) + 1
      /\ m \in Message
  <2>1. hal.mbox \in Seq(Message)
    BY VendorFacts, HalTypes
  <2>2. m \in Message
    BY <2>1, HeadTailProperties
  <2> QED
    BY <2>1, <2>2, TailIndex
<1> HIDE DEF q, m
<1>2. hal.link # "OPENING" /\ Allowed(m)
  <2>1. hal.link # "OPENING"
    BY VendorFacts DEF Phase, Opening, Opened, Failed, Closing, Off, Running
  <2>2. Allowed(hal.mbox[1])
    BY <1>1, VendorFacts DEF Phase
  <2> QED
    BY <1>1, <2>1, <2>2
<1>3. h \in HalBlock
  BY <1>1, VendorFacts DEF HalBlock
<1>4. /\ h.pending = hal.pending /\ h.job = hal.job /\ h.recovered = hal.recovered
      /\ h.link = hal.link /\ h.ready = hal.ready /\ h.ntf = hal.ntf /\ h.mbox = q
  BY VendorFacts DEF HalBlock
<1> HIDE DEF h
<1>5. /\ x \in Pair /\ x.hal = h
      /\ x.nfc.p_vsc_cback = nfc_cb.p_vsc_cback /\ x.nfc.rawVsCbflag = nfc_cb.rawVsCbflag
      /\ x.nfc.flags = nfc_cb.flags /\ x.nfc.nci_cmd_window = nfc_cb.nci_cmd_window
      /\ x.nfc.back.to = x.nfc.back.answers
  BY <1>3, NowFields
<1>6. Reads(Here, x)
  BY <1>3, <1>4, <1>5, HalTwin, VendorFacts DEF Reads, Vendor, Owned, q
<1> HIDE DEF x
<1>7. Ours(x)
  BY <1>1, <1>4, <1>5, VendorFacts DEF Ours, Mine
<1>8. ASSUME m \in Answered
      PROVE  /\ Taking(x) /\ Mine(m, x.nfc) /\ m.op = x.nfc.last_hdr /\ x.nfc.nci_cmd_window = 0
  <2>1. Idle(x) /\ m.op = x.nfc.last_hdr
    BY <1>2, <1>6, <1>8, ReadsAnswer, VendorFacts DEF m
  <2>2. Quiet(x.hal) /\ x.hal.link # "OPENING" /\ x.nfc.nci_cmd_window = 0
    BY <2>1 DEF Idle, Unused, Quiet
  <2>3. Mine(m, x.nfc)
    BY <1>1, <1>5, <1>8, VendorFacts DEF Mine
  <2> QED
    BY <1>5, <1>7, <2>1, <2>2, <2>3 DEF Taking
<1>9. ASSUME m \notin Answered PROVE Attended(x)
  <2>1. Quiet(x.hal) => Quiet(hal)
    BY <1>1, <1>4, <1>5, <1>9, ZenonT(40) DEF Quiet, None
  <2>2. Quiet(hal) => Quiet(x.hal)
    BY <1>1, <1>4, <1>5 DEF Quiet, None
  <2> QED
    BY <1>2, <1>4, <1>5, <1>7, <2>1, <2>2, VendorFacts DEF Attended, Matched
<1>10. ASSUME m \in Returned PROVE Quiet(x.hal)
  <2>1. Idle(x)
    BY <1>2, <1>6, <1>10, ReadsReturned, VendorFacts DEF m
  <2> QED
    BY <2>1 DEF Idle, Unused, Quiet
<1> QED
  BY <1>1, <1>2, <1>5, <1>8, <1>9, <1>10 DEF m, x, h, q

(* An event of the HAL. *)
LEMMA AttendEvent ==
  ASSUME Typed, NCI_MAX_CMD_WINDOW = 1, NEW x, Attended(x), NEW m \in Message, m.mt = "EVT",
         m \in Returned => Quiet(x.hal), NEW ch \in Choice
  PROVE  Attended(HandleHalEvt(x, m, ch))
<1> DEFINE y == HandleHalEvt(x, m, ch)
<1>1. m.op \in HalEvent /\ m.ok \in BOOLEAN
  BY MessageTypes
<1>2. ASSUME m.op \in {"OPEN_CPLT", "ERROR"} PROVE Attended(y)
  <2>1. y \in {x, Enabled(x, FALSE, ch)}
    BY <1>2 DEF HandleHalEvt
  <2>2. FALSE \in BOOLEAN
    OBVIOUS
  <2>3. Attended(Enabled(x, FALSE, ch))
    BY <2>2, AttendEnabled
  <2> QED
    BY <2>1, <2>3
<1>3. ASSUME m.op = "CLOSE_CPLT" PROVE Attended(y)
  BY <1>3, AttendHandleClose DEF HandleHalEvt
<1>4. ASSUME m.op = "POST_INIT_CPLT" PROVE Attended(y)
  BY <1>1, <1>4, AttendPostInit DEF HandleHalEvt
<1>5. ASSUME m.op \in {"PRE_DISCOVER_CPLT", "RELEASE_CONTROL"} PROVE Attended(y)
  <2>1. y \in {HandlePreDiscover(x, ch), HandleRelease(x, ch)}
    BY <1>5 DEF HandleHalEvt
  <2>2. Quiet(x.hal)
    BY <1>5 DEF Returned
  <2> QED
    BY <2>1, <2>2, AttendGivenBack
<1>6. ASSUME m.op = "REQUEST_CONTROL" PROVE Attended(y)
  <2> DEFINE f == {"CONTROL_REQUESTED", "HAL_REQUESTED"}
             u == Flagged(x, f)
  <2>1. y = CheckCmdQueue(u, ch)
    BY <1>6 DEF HandleHalEvt
  <2>2. f \in SUBSET (NFC_FL \ {"POWER_CYCLE_NFCC"})
    BY DEF NFC_FL
  <2> HIDE DEF f
  <2>3. Attended(u)
    BY <2>2, AttendFields
  <2> HIDE DEF u
  <2> QED
    BY <2>1, <2>3, AttendSend
<1> HIDE DEF y
<1>7. Attended(y)
  BY <1>1, <1>2, <1>3, <1>4, <1>5, <1>6 DEF HalEvent
<1> QED
  BY <1>7 DEF y

LEMMA ReadMatched == ASSUME Vendor, ReadMbox PROVE Matched(There)
<1> DEFINE m == Head(hal.mbox)
           x == Hal(Now, [hal EXCEPT !.mbox = Tail(@)])
           y(ch) == IF m.mt = "EVT" THEN HandleHalEvt(x, m, ch) ELSE ProcessEvent(x, m, ch)
<1>1. PICK ch \in Choice : Become(y(ch))
  BY DEF ReadMbox
<1>2. /\ m \in Message /\ Allowed(m) /\ x.nfc.rawVsCbflag = nfc_cb.rawVsCbflag
      /\ m \in Answered => /\ Taking(x) /\ Mine(m, x.nfc)
                           /\ m.op = x.nfc.last_hdr /\ x.nfc.nci_cmd_window = 0
      /\ m \notin Answered => Attended(x)
      /\ m \in Returned => Quiet(x.hal)
  BY Reading DEF ReadMbox
<1> HIDE DEF m, x
<1>3. CASE m.mt = "RSP"
  <2>1. m \in Answered
    BY <1>2, <1>3 DEF Answered
  <2>2. y(ch) = IF x.nfc.rawVsCbflag THEN RawVsRsp(x, m, ch) ELSE ProcRsp(x, m, ch)
    BY <1>3 DEF ProcessEvent
  <2>3. x.nfc.rawVsCbflag => Attended(RawVsRsp(x, m, ch))
    BY <1>2, <2>1, AttendRaw, VendorFacts
  <2>5. m.ok
    BY <1>2, <1>3 DEF Allowed
  <2>4. ~x.nfc.rawVsCbflag => Attended(ProcRsp(x, m, ch))
    BY <1>2, <1>3, <2>1, <2>5, AttendRsp, VendorFacts
  <2> HIDE DEF y
  <2> QED
    BY <1>1, <2>2, <2>3, <2>4, Attained DEF Attended
<1>4. CASE m.mt = "NTF"
  <2>1. m.op \in {"CORE_RESET", "OTHER"} /\ m.ok /\ m \notin Answered
    BY <1>2, <1>4, MessageTypes, VendorFacts DEF Allowed, Answered
  <2>2. m.op = "OTHER" => ~x.nfc.rawVsCbflag
    BY <1>2, <2>1, VendorFacts DEF Allowed, Phase, Undisturbed, NoRecovery, UserCmds
  <2>3. y(ch) = IF m.op = "CORE_RESET" THEN ProcResetNtf(x, m, ch) ELSE x
    BY <1>4, <2>1, <2>2 DEF ProcessEvent
  <2>4. Attended(ProcResetNtf(x, m, ch))
    BY <1>2, <2>1, AttendResetNtf, VendorFacts
  <2> HIDE DEF y
  <2> QED
    BY <1>1, <1>2, <2>1, <2>3, <2>4, Attained DEF Attended
<1>5. CASE m.mt = "EVT"
  <2>1. m \notin Answered
    BY <1>5 DEF Answered
  <2>2. y(ch) = HandleHalEvt(x, m, ch)
    BY <1>5
  <2>3. Attended(HandleHalEvt(x, m, ch))
    BY <1>2, <1>5, <2>1, AttendEvent, VendorFacts
  <2> HIDE DEF y
  <2> QED
    BY <1>1, <2>2, <2>3, Attained DEF Attended
<1> QED
  BY <1>2, <1>3, <1>4, <1>5, MessageTypes, VendorFacts

(* The transport is ready: nothing is outstanding. *)
LEMMA ReadyMatched == ASSUME Vendor, TransportReady PROVE Matched(There)
<1> DEFINE h == [hal EXCEPT !.ready = FALSE]
           x == Hal(Now, h)
           u == SetState(x, "CORE_INIT")
           y(ch) == Send(u, "CORE_RESET", ch)
<1>1. PICK ch \in Choice : Become(y(ch))
  BY DEF TransportReady
<1>2. hal.link # "OPENING"
  BY VendorFacts DEF TransportReady, Phase, Opening, Opened, Failed, Closing, Off, Running
<1>3. h \in HalBlock
  BY VendorFacts DEF HalBlock
<1>4. Unmoved(hal, h)
  BY VendorFacts DEF HalBlock, Unmoved
<1> HIDE DEF h
<1>5. Attended(x)
  BY <1>2, <1>3, <1>4, NowAttended
<1> HIDE DEF x
<1>6. Attended(u)
  BY <1>5, AttendFields DEF NFC_STATE
<1> HIDE DEF u
<1>7. Attended(y(ch))
  BY <1>6, AttendSend, VendorFacts DEF StackCmd
<1> HIDE DEF y
<1> QED
  BY <1>1, <1>7, Attained DEF Attended

(* A command times out only when the transport was closed under it. *)
LEMMA TimeoutMatched == ASSUME Vendor, WaitRspTimeout \/ EarlyTimeout PROVE Matched(There)
<1>1. WaitRspTimeout
  BY VendorFacts DEF EarlyTimeout, MayFail, Undisturbed, NoRecovery
<1> DEFINE x == Hal(Now, hal)
<1>2. PICK ch \in Choice : Become(CmdTimeout(x, ch))
  BY <1>1 DEF WaitRspTimeout, TimeoutBut
<1>3. hal.pending = <<>> /\ \A i \in DOMAIN hal.mbox : hal.mbox[i].mt = "EVT"
  BY <1>1 DEF WaitRspTimeout, Coming
<1>4. ~Once(hal.mbox, Answered)
  BY <1>3 DEF Once, Answered
<1>5. Lost(Here)
  <2>1. nfc_cb.nci_wait_rsp_timer
    BY <1>1 DEF WaitRspTimeout, TimeoutBut
  <2>2. ~(Len(<<>>) = 1)
    OBVIOUS
  <2> QED
    BY <1>3, <1>4, <2>1, <2>2, VendorFacts DEF Chan, Free, Busy, Lent
<1>6. hal.link # "OPENING"
  BY <1>5, VendorFacts DEF Lost
<1>7. Attended(x) /\ x.hal.pending = <<>>
  BY <1>3, <1>6, VendorFacts, NowAttended, NowFields DEF Unmoved
<1> HIDE DEF x
<1>8. Attended(CmdTimeout(x, ch))
  BY <1>7, AttendTimeout, VendorFacts
<1> QED
  BY <1>2, <1>8, Attained DEF Attended

(* A start of the stack forgets every command. *)
LEMMA EnableMatched == ASSUME Vendor, NfcEnable PROVE Matched(There)
<1> DEFINE n == [InitNfcCb EXCEPT !.p_resp_cback = TRUE, !.asked = "ENABLE"]
           k == hal.calls + 1
           h == [hal EXCEPT !.calls = k, !.mbox = <<>>, !.ready = FALSE]
           w == [nfc |-> n, hal |-> h]
           y == HalOpen(w)
<1>1. Become(y)
  BY DEF NfcEnable
<1>2. y.nfc = [n EXCEPT !.nfc_state = "W4_HAL_OPEN"] /\ y.hal = Transport(h, "OPENING")
  BY DEF HalOpen, SetState, Nfc, Hal
<1>3. y.nfc.flags = {} /\ ~y.nfc.rawVsCbflag /\ y.nfc.back = NoBack
  <2>1. n.flags = {} /\ ~n.rawVsCbflag /\ n.back = NoBack
    BY DEF InitNfcCb
  <2> HIDE DEF n, y
  <2> DEFINE p == [n EXCEPT !.nfc_state = "W4_HAL_OPEN"]
  <2>2. p.flags = n.flags /\ p.rawVsCbflag = n.rawVsCbflag /\ p.back = n.back
    OBVIOUS
  <2> QED
    BY <1>2, <2>1, <2>2
<1>4. y.hal.mbox = <<>> /\ y.hal.pending = <<>>
  <2> HIDE DEF k
  <2>1. h.mbox = <<>> /\ DOMAIN h = DOMAIN hal
    BY VendorFacts DEF HalBlock
  <2>2. "mbox" \in DOMAIN h /\ "pending" \in DOMAIN h
    BY <2>1, VendorFacts DEF HalBlock
  <2> HIDE DEF h
  <2>3. Transport(h, "OPENING").mbox = h.mbox /\ Transport(h, "OPENING").pending = <<>>
    BY <2>2 DEF Transport
  <2> QED
    BY <1>2, <2>1, <2>3
<1>5. There = y
  <2>1. y = [nfc |-> y.nfc, hal |-> y.hal]
    BY DEF HalOpen, Hal, SetState, Nfc
  <2> HIDE DEF y
  <2> QED
    BY <1>1, <2>1 DEF There, Become
<1> HIDE DEF y
<1>6. Matched(y)
  BY <1>3, <1>4 DEF Matched, Ours, NoBack
<1> QED
  BY <1>5, <1>6

(* A shutdown drops every command and answer. *)
LEMMA ShutMatched ==
  ASSUME Vendor, NEW x \in Pair, x.nfc.back.to = x.nfc.back.answers,
         x.nfc.rawVsCbflag => nfc_cb.rawVsCbflag,
         "POWER_CYCLE_NFCC" \in x.nfc.flags => "cycle" \in env.calls
  PROVE  ShutdownNfcc(x) \in Pair /\ Matched(ShutdownNfcc(x))
<1> DEFINE h == [x.hal EXCEPT !.mbox = <<>>]
           v == Hal(x, h)
           u == GenCleanup(v)
           z == SetState(u, "W4_HAL_CLOSE")
           y == ShutdownNfcc(x)
           n == [v.nfc EXCEPT
                   !.flags = @ \ {"DISCOVER_PENDING", "CONTROL_REQUESTED", "CONTROL_GRANTED",
                                  "HAL_REQUESTED"},
                   !.p_disc_pending = @ /\ "DISCOVER_PENDING" \notin v.nfc.flags,
                   !.disc_on = FALSE, !.p_nci_init_rsp = FALSE]
           k == [n EXCEPT !.nci_cmd_window = NCI_MAX_CMD_WINDOW,
                          !.nci_wait_rsp_timer = FALSE, !.nci_cmd_xmit_q = <<>>]
<1>1. \/ y = HalOpen(u) /\ "POWER_CYCLE_NFCC" \in x.nfc.flags
      \/ y = HalClose(z)
  BY DEF ShutdownNfcc
<1>2. y \in Pair
  BY ShutdownType
<1>3. h \in HalBlock /\ h.mbox = <<>>
  <2>1. <<>> \in Seq(Message)
    OBVIOUS
  <2> QED
    BY <2>1, PairFields DEF HalBlock
<1> HIDE DEF h
<1>4. v \in Pair /\ v.nfc = x.nfc /\ v.hal = h /\ x.nfc \in ControlBlock
  BY <1>3, HalType, PairFields
<1> HIDE DEF v
<1>5. /\ u \in Pair /\ u.hal = h /\ u.nfc.flags \subseteq x.nfc.flags
      /\ u.nfc.rawVsCbflag = x.nfc.rawVsCbflag
  BY <1>4, CleanupFacts
<1>6. u.nfc.back = x.nfc.back
  <2>1. u.nfc = k
    BY DEF GenCleanup, FlushCmdQueue, Nfc
  <2>2. n.back = v.nfc.back
    BY <1>4 DEF ControlBlock
  <2> HIDE DEF n
  <2>3. k.back = n.back
    OBVIOUS
  <2> QED
    BY <1>4, <2>1, <2>2, <2>3
<1> HIDE DEF u, n, k
<1>7. z \in Pair /\ z.hal = h /\ z.nfc = [u.nfc EXCEPT !.nfc_state = "W4_HAL_CLOSE"]
  BY <1>5, SetStateType DEF SetState, Nfc, NFC_STATE
<1>8. u.nfc \in ControlBlock
  BY <1>5, PairFields
<1> HIDE DEF z
<1> DEFINE Calls(m) == /\ m.back = x.nfc.back /\ m.rawVsCbflag = x.nfc.rawVsCbflag
                       /\ m.flags \subseteq x.nfc.flags
<1>9. Calls(z.nfc) /\ Calls([u.nfc EXCEPT !.nfc_state = "W4_HAL_OPEN"])
  BY <1>5, <1>6, <1>7, <1>8 DEF ControlBlock
<1>10. CASE y = HalOpen(u) /\ "POWER_CYCLE_NFCC" \in x.nfc.flags
  <2>1. y.nfc = [u.nfc EXCEPT !.nfc_state = "W4_HAL_OPEN"] /\ y.hal.mbox = <<>> /\ y.hal.pending = <<>>
    BY <1>3, <1>5, <1>10, OpenFacts
  <2>2. ~nfc_cb.rawVsCbflag
    BY <1>10, VendorFacts DEF Vendor, Addressed, Phase, UserCmds
  <2> HIDE DEF y
  <2>3. Calls(y.nfc)
    BY <1>9, <2>1
  <2>4. Matched(y)
    BY <2>1, <2>2, <2>3 DEF Matched, Ours
  <2> QED
    BY <1>2, <2>4 DEF y
<1>11. CASE y = HalClose(z)
  <2>1. y.nfc = z.nfc /\ y.hal.mbox = <<>> /\ y.hal.pending = <<>> /\ y.hal.link = "CLOSING"
    BY <1>3, <1>7, <1>11, CloseFacts
  <2> HIDE DEF y
  <2>2. Calls(y.nfc)
    BY <1>9, <2>1
  <2>3. Matched(y)
    BY <2>1, <2>2 DEF Matched, Ours
  <2> QED
    BY <1>2, <2>3 DEF y
<1> QED
  BY <1>1, <1>10, <1>11

LEMMA DisableMatched == ASSUME Vendor, NfcDisable PROVE Matched(There)
<1> DEFINE x == Asked(Now, "DISABLE")
<1>1. hal.link # "OPENING"
  <2>1. nfc_cb.report # "none"
    BY VendorFacts DEF NfcDisable, Undisturbed, NoRecovery
  <2> QED
    BY <2>1, VendorFacts DEF Phase, Opening, Opened, Failed, Closing, Off, Running
<1>2. Attended(Now)
  BY <1>1, CallAttended
<1>3. Attended(x)
  BY <1>2, AttendFields DEF Request
<1>4. x.nfc.rawVsCbflag = nfc_cb.rawVsCbflag
  <2>1. x.nfc.rawVsCbflag = Now.nfc.rawVsCbflag
    BY <1>2, AskedFacts DEF Attended, Request
  <2> QED
    BY <2>1, VendorFacts, NowFields
<1>5. Become(Disabled(x)) \/ Become(ShutdownNfcc(x))
  BY DEF NfcDisable, Disable
<1> HIDE DEF x
<1>6. Attended(Disabled(x))
  BY <1>3, AttendFields
<1>7. ShutdownNfcc(x) \in Pair /\ Matched(ShutdownNfcc(x))
  BY <1>3, <1>4, ShutMatched DEF Attended, Matched, Ours
<1> QED
  BY <1>5, <1>6, <1>7, Attained DEF Attended

(* The calls of an idle stack. *)
LEMMA IdleLink == ASSUME Vendor, nfc_cb.nfc_state = "IDLE" PROVE hal.link # "OPENING"
BY IdleRuns, VendorFacts DEF Vendor, Running

LEMMA DiscoveryMatched == ASSUME Vendor, NfcDiscoveryStart PROVE Matched(There)
<1> DEFINE c == Called(Now)
           f == {"DISCOVER_PENDING", "CONTROL_REQUESTED"}
           x == Flagged(c, f)
           n == [x.nfc EXCEPT !.p_disc_pending = TRUE]
           u == Nfc(x, n)
<1>1. PICK ch \in Choice : \/ Become(CheckCmdQueue(u, ch)) \/ Become(x)
  BY DEF NfcDiscoveryStart
<1>2. Attended(c)
  BY CallAttended, IdleLink DEF NfcDiscoveryStart, MayCall
<1>3. f \in SUBSET (NFC_FL \ {"POWER_CYCLE_NFCC"})
  BY DEF NFC_FL
<1> HIDE DEF c, f
<1>4. Attended(x)
  BY <1>2, <1>3, AttendFields
<1> HIDE DEF x
<1>5. x.nfc \in ControlBlock
  BY <1>4, PairFields DEF Attended
<1>6. n \in ControlBlock
  BY <1>5, BlockTypes, FieldTypes, Zenon
<1>7. Keeps(x.nfc, n)
  BY <1>5 DEF ControlBlock, Keeps
<1> HIDE DEF n
<1>8. Attended(u)
  BY <1>4, <1>6, <1>7, AttendNfc
<1> HIDE DEF u
<1>9. Attended(CheckCmdQueue(u, ch))
  BY <1>8, AttendSend, VendorFacts
<1> QED
  BY <1>1, <1>4, <1>9, Attained DEF Attended

LEMMA DeactivateMatched == ASSUME Vendor, NfcDeactivate PROVE Matched(There)
<1> DEFINE x == Called(Now)
           m == Now.nfc
           f == m.flags \ ({"DISCOVER_PENDING"} \cup
                            IF "HAL_REQUESTED" \in m.flags THEN {} ELSE {"CONTROL_REQUESTED"})
           n == [m EXCEPT !.flags = f, !.p_disc_pending = FALSE]
<1>1. PICK ch \in Choice : Become(Nfc(x, n)) \/ Become(Send(x, "DEACTIVATE", ch))
  BY DEF NfcDeactivate
<1>2. hal.calls < MaxCalls
  BY DEF NfcDeactivate, MayCall
<1>3. Attended(x) /\ x.nfc = m
  BY <1>2, CallAttended, CalledNow, IdleLink DEF NfcDeactivate, Vendor, Owned
<1>4. m \in ControlBlock /\ f \in SUBSET NFC_FL /\ f \subseteq m.flags
  BY OwnedFacts, PairFields, BlockTypes DEF Vendor
<1> HIDE DEF x, m, f
<1>5. n \in ControlBlock
  BY <1>4 DEF ControlBlock
<1>6. Keeps(m, n)
  BY <1>4 DEF ControlBlock, Keeps
<1> HIDE DEF n
<1>7. Attended(Nfc(x, n))
  BY <1>3, <1>5, <1>6, AttendNfc
<1>8. Attended(Send(x, "DEACTIVATE", ch))
  BY <1>3, AttendSend, VendorFacts DEF StackCmd
<1> QED
  BY <1>1, <1>7, <1>8, Attained DEF Attended

LEMMA VsCommandMatched == ASSUME Vendor, NfcSendVsCommand PROVE Matched(There)
<1> DEFINE k == hal.cmds + 1
           x == Hal(Now, [hal EXCEPT !.cmds = @ + 1])
<1>1. PICK op \in UserCmds, ch \in Choice : Become(SendCmd(x, [op |-> op, id |-> k], ch))
  BY DEF NfcSendVsCommand
<1>2. k \in 1..MaxCmds
  BY VendorFacts, EnvTypes, HalTypes DEF NfcSendVsCommand
<1>3. [op |-> op, id |-> k] \in Cmd
  BY <1>1, <1>2 DEF Cmd
<1> HIDE DEF k
<1>4. Attended(x)
  BY CallAttended, IdleLink DEF NfcSendVsCommand
<1> HIDE DEF x
<1>5. Attended(SendCmd(x, [op |-> op, id |-> k], ch))
  BY <1>1, <1>3, <1>4, AttendSend, VendorFacts
<1> QED
  BY <1>1, <1>5, Attained DEF Attended

(* No raw vendor command is outstanding when the NFCC is powered off. *)
LEMMA PowerMatched == ASSUME Vendor, NfcSetPowerOffSleep \/ NfcPowerCycleNFCC PROVE Matched(There)
<1> DEFINE c == Called(Now)
           u(f) == Flagged(c, {f})
           x(f, r) == Asked(u(f), r)
<1>1. \/ /\ nfc_cb.nfc_state = "IDLE"
         /\ \E f \in {"POWER_OFF_SLEEP", "POWER_CYCLE_NFCC"}, r \in Request :
              /\ f = "POWER_CYCLE_NFCC" => "cycle" \in env.calls
              /\ Become(ShutdownNfcc(x(f, r)))
      \/ /\ nfc_cb.nfc_state = "NFCC_POWER_OFF_SLEEP" /\ "sleep" \in env.calls
         /\ Become(HalOpen(x("RESTARTING", "RESTART")))
  BY DEF NfcSetPowerOffSleep, NfcPowerCycleNFCC, Request, MayCall
<1>2. hal.calls < MaxCalls /\ env.calls \cap {"sleep", "cycle"} # {}
  BY DEF NfcSetPowerOffSleep, NfcPowerCycleNFCC, MayCall
<1>3. ~nfc_cb.rawVsCbflag
  BY <1>2, VendorFacts DEF Vendor, Addressed, Phase, UserCmds
<1>4. hal.link # "OPENING"
  BY VendorFacts DEF NfcSetPowerOffSleep, NfcPowerCycleNFCC, Phase, Opening, Opened, Failed, Closing,
                     Off, Running
<1>5. Attended(c) /\ c.nfc = Now.nfc /\ c.hal.mbox = hal.mbox /\ c.hal.pending = hal.pending
  <2>1. Same(Here, c)
    BY <1>2, CalledTwin DEF Vendor, Owned
  <2> QED
    BY <1>2, <1>4, <2>1, CallAttended, CalledNow, VendorFacts DEF Vendor, Owned, Same, Twin
<1> HIDE DEF c
<1>6. c.nfc \in ControlBlock /\ c.nfc.back.to = c.nfc.back.answers /\ ~c.nfc.rawVsCbflag
      /\ c.nfc.flags = nfc_cb.flags /\ c \in Pair
  BY <1>3, <1>5, VendorFacts, NowFields, PairFields DEF Attended
<1>7. ASSUME NEW f \in {"POWER_OFF_SLEEP", "POWER_CYCLE_NFCC", "RESTARTING"}, NEW r \in Request
      PROVE  /\ x(f, r) \in Pair /\ x(f, r).hal = c.hal
             /\ x(f, r).nfc.back = c.nfc.back /\ ~x(f, r).nfc.rawVsCbflag
             /\ x(f, r).nfc.flags = nfc_cb.flags \cup {f}
  <2> DEFINE d == c.nfc.flags \cup {f}
             m == [c.nfc EXCEPT !.flags = d]
             n == [m EXCEPT !.asked = r, !.report = "none"]
  <2>1. {f} \in SUBSET NFC_FL
    BY DEF NFC_FL
  <2>2. u(f) \in Pair /\ u(f).nfc = m /\ u(f).hal = c.hal
    BY <1>6, <2>1, FlaggedType DEF Flagged, Nfc
  <2> HIDE DEF d
  <2>3. m.back = c.nfc.back /\ m.rawVsCbflag = c.nfc.rawVsCbflag /\ m.flags = d
    BY <1>6 DEF ControlBlock
  <2> HIDE DEF m, u
  <2>4. x(f, r) \in Pair /\ x(f, r).nfc = n /\ x(f, r).hal = u(f).hal
    BY <2>2, AskedType DEF Asked, Nfc
  <2>5. n.back = m.back /\ n.rawVsCbflag = m.rawVsCbflag /\ n.flags = m.flags
    OBVIOUS
  <2> QED
    BY <1>6, <2>2, <2>3, <2>4, <2>5 DEF d
<1> HIDE DEF x
<1>8. ASSUME NEW f \in {"POWER_OFF_SLEEP", "POWER_CYCLE_NFCC"}, NEW r \in Request,
             f = "POWER_CYCLE_NFCC" => "cycle" \in env.calls,
             Become(ShutdownNfcc(x(f, r)))
      PROVE  Matched(There)
  <2>1. /\ x(f, r) \in Pair /\ x(f, r).nfc.back.to = x(f, r).nfc.back.answers
        /\ ~x(f, r).nfc.rawVsCbflag
        /\ "POWER_CYCLE_NFCC" \in x(f, r).nfc.flags => "cycle" \in env.calls
    BY <1>6, <1>7, <1>8, VendorFacts
  <2>2. ShutdownNfcc(x(f, r)) \in Pair /\ Matched(ShutdownNfcc(x(f, r)))
    BY <2>1, ShutMatched
  <2> QED
    BY <1>8, <2>2, Attained
<1>9. ASSUME nfc_cb.nfc_state = "NFCC_POWER_OFF_SLEEP", Become(HalOpen(x("RESTARTING", "RESTART")))
      PROVE  Matched(There)
  <2> DEFINE w == x("RESTARTING", "RESTART")
             y == HalOpen(w)
             n == [w.nfc EXCEPT !.nfc_state = "W4_HAL_OPEN"]
  <2>1. /\ w \in Pair /\ w.nfc.back.to = w.nfc.back.answers /\ ~w.nfc.rawVsCbflag
        /\ w.nfc.flags = nfc_cb.flags \cup {"RESTARTING"} /\ w.hal = c.hal
    BY <1>6, <1>7 DEF Request
  <2>2. hal.mbox = <<>>
    BY <1>9, VendorFacts DEF Phase, Opening, Opened, Failed, Closing, Off, Running
  <2> HIDE DEF w
  <2>3. y \in Pair /\ y.nfc = n /\ y.hal.mbox = <<>> /\ y.hal.pending = <<>>
    BY <1>5, <2>1, <2>2, OpenFacts
  <2>4. n.back = w.nfc.back /\ n.rawVsCbflag = w.nfc.rawVsCbflag /\ n.flags = w.nfc.flags
    BY <2>1, PairFields DEF ControlBlock
  <2> HIDE DEF y, n
  <2>5. Matched(y)
    BY <2>1, <2>3, <2>4, VendorFacts DEF Matched, Ours
  <2> QED
    BY <1>9, <2>3, <2>5, Attained DEF y, w
<1> QED
  BY <1>1, <1>8, <1>9

(* The HAL posts a message that is no answer, or none. *)
Adds(g, h) == /\ h.pending = g.pending
              /\ \/ h.mbox = g.mbox
                 \/ \E m \in Message : m \notin Answered /\ h.mbox = Append(g.mbox, m)

LEMMA AddsMatched ==
  ASSUME Vendor, NEW h, HalIs(h), Adds(hal, h),
         nfc_cb.rawVsCbflag => h.link \in {hal.link, "CLOSED"}
  PROVE  Matched(There)
<1>1. There.nfc = nfc_cb /\ There.hal = h
  BY DEF There, HalIs
<1>2. /\ \A i \in DOMAIN h.mbox : h.mbox[i] \in Answered => i \in DOMAIN hal.mbox /\ h.mbox[i] = hal.mbox[i]
      /\ \A i \in DOMAIN hal.mbox : i \in DOMAIN h.mbox /\ h.mbox[i] = hal.mbox[i]
  <2>1. CASE h.mbox = hal.mbox
    BY <2>1
  <2>2. CASE \E m \in Message : m \notin Answered /\ h.mbox = Append(hal.mbox, m)
    <3>1. PICK m \in Message : m \notin Answered /\ h.mbox = Append(hal.mbox, m)
      BY <2>2
    <3>2. hal.mbox \in Seq(Message)
      BY VendorFacts, HalTypes
    <3> DEFINE q == hal.mbox
               r == h.mbox
    <3>3. /\ Len(r) = Len(q) + 1 /\ Len(q) \in Nat /\ DOMAIN r = 1..Len(r) /\ DOMAIN q = 1..Len(q)
          /\ \A i \in 1..Len(q) : r[i] = q[i]
          /\ r[Len(q) + 1] = m
      BY <3>1, <3>2, AppendProperties, LenProperties
    <3> HIDE DEF r, q
    <3>4. \A i \in DOMAIN r : i \in DOMAIN q \/ i = Len(q) + 1
      BY <3>3
    <3>5. /\ \A i \in DOMAIN r : r[i] \in Answered => i \in DOMAIN q /\ r[i] = q[i]
          /\ \A i \in DOMAIN q : i \in DOMAIN r /\ r[i] = q[i]
      BY <3>1, <3>3, <3>4
    <3> QED
      BY <3>5 DEF q, r
  <2> QED
    BY <2>1, <2>2 DEF Adds
<1>3. h.pending = hal.pending
  BY DEF Adds
<1>4. Quiet(h) => Quiet(hal)
  BY <1>2, <1>3 DEF Quiet, None
<1>5. nfc_cb.back.to = nfc_cb.back.answers
  BY VendorFacts DEF Vendor, Matched, Ours
<1>6. Ours(There)
  BY <1>1, <1>2, <1>3, <1>5, VendorFacts DEF Ours
<1> QED
  BY <1>1, <1>4, <1>6, VendorFacts DEF Matched

(* The events of the HAL. *)
LEMMA PostAdds ==
  ASSUME Vendor, NEW h \in HalBlock, h.pending = hal.pending, h.mbox = hal.mbox, NEW e \in HalEvent,
         NEW ok \in BOOLEAN
  PROVE  Adds(hal, PostHalEvt(h, e, ok)) /\ PostHalEvt(h, e, ok).link = h.link
<1> DEFINE m == Evt(e, ok)
           k == PostHalEvt(h, e, ok)
<1>1. /\ k.mbox = Append(h.mbox, m) /\ m \in Message /\ m.mt = "EVT"
      /\ k.pending = h.pending /\ k.link = h.link
  BY EventPosted DEF Vendor
<1> HIDE DEF m, k
<1>2. m \notin Answered
  BY <1>1 DEF Answered
<1> QED
  BY <1>1, <1>2 DEF Adds, k

LEMMA DataAdds ==
  ASSUME NEW h \in HalBlock, h.pending = hal.pending, h.mbox = hal.mbox, h.link = hal.link,
         NEW m \in Message, m \notin Answered
  PROVE  Adds(hal, HalDataCback(h, m)) /\ HalDataCback(h, m).link = hal.link
<1> DEFINE k == HalDataCback(h, m)
<1>1. CASE nfc_cb.nfc_state = "W4_HAL_CLOSE"
  BY <1>1 DEF HalDataCback, Adds
<1>2. CASE nfc_cb.nfc_state # "W4_HAL_CLOSE"
  <2>1. k.mbox = Append(h.mbox, m) /\ k.pending = h.pending /\ k.link = h.link
    BY <1>2, DataPosted
  <2> HIDE DEF k
  <2> QED
    BY <2>1 DEF Adds, k
<1> QED
  BY <1>1, <1>2

LEMMA OpenCpltMatched == ASSUME Vendor, HalOpenCplt PROVE Matched(There)
<1> DEFINE l(ok) == IF ok THEN "OPEN" ELSE "CLOSED"
           f(ok) == IF ok THEN hal.faults ELSE hal.faults + 1
           h(ok) == [hal EXCEPT !.link = l(ok), !.faults = f(ok)]
           k(ok) == [h(ok) EXCEPT !.ready = TRUE]
           z(ok) == PostHalEvt(h(ok), "OPEN_CPLT", FALSE)
<1>1. PICK ok \in BOOLEAN :
        /\ ok \/ MayFail("open")
        /\ HalIs(h(ok)) \/ HalIs(k(ok)) \/ HalIs(z(ok))
  BY DEF HalOpenCplt
<1>2. ~nfc_cb.rawVsCbflag
  BY VendorFacts DEF HalOpenCplt
<1>3. l(ok) \in {"CLOSED", "OPENING", "OPEN", "CLOSING"} /\ f(ok) \in 0..MaxFaults
  BY <1>1, FaultType, HalTypes, VendorFacts DEF Vendor, Owned
<1> HIDE DEF l, f
<1>4. h(ok) \in HalBlock
  BY <1>3, VendorFacts DEF HalBlock
<1>5. /\ h(ok).pending = hal.pending /\ h(ok).mbox = hal.mbox
      /\ k(ok).pending = hal.pending /\ k(ok).mbox = hal.mbox
  BY VendorFacts DEF HalBlock
<1> HIDE DEF h, k
<1>6. Adds(hal, h(ok)) /\ Adds(hal, k(ok))
  BY <1>5 DEF Adds
<1>7. Adds(hal, z(ok))
  <2>1. "OPEN_CPLT" \in HalEvent /\ FALSE \in BOOLEAN
    BY DEF HalEvent
  <2> QED
    BY <1>4, <1>5, <2>1, PostAdds
<1> HIDE DEF z
<1> QED
  BY <1>1, <1>2, <1>6, <1>7, AddsMatched

LEMMA CloseCpltMatched == ASSUME Vendor, HalCloseCplt PROVE Matched(There)
<1> DEFINE h == [hal EXCEPT !.link = "CLOSED"]
           z == PostHalEvt(h, "CLOSE_CPLT", TRUE)
<1>1. HalIs(z)
  BY DEF HalCloseCplt
<1>2. h \in HalBlock /\ h.pending = hal.pending /\ h.mbox = hal.mbox /\ h.link = "CLOSED"
  BY VendorFacts DEF HalBlock
<1> HIDE DEF h
<1>3. "CLOSE_CPLT" \in HalEvent /\ TRUE \in BOOLEAN
  BY DEF HalEvent
<1>4. Adds(hal, z) /\ z.link = "CLOSED"
  BY <1>2, <1>3, PostAdds
<1> HIDE DEF z
<1> QED
  BY <1>1, <1>4, AddsMatched

(* The answer of the command that was written goes to its call-back. *)
LEMMA RspMatched == ASSUME Vendor, HalRsp \/ HalRecovered PROVE Matched(There)
<1>0. hal.recovered = <<>>
  BY VendorFacts DEF Chan
<1>1. HalRsp /\ hal.link = "OPEN" /\ hal.pending # <<>>
  BY <1>0 DEF HalRecovered, HalRsp
<1>2. nfc_cb.nfc_state # "W4_HAL_CLOSE"
  BY <1>1, OpenRuns DEF Vendor
<1>3. ~MayFail("lost_rsp")
  BY VendorFacts DEF Undisturbed, NoRecovery, MayFail
<1> DEFINE c == Head(hal.pending)
           p == Tail(hal.pending)
           h == [hal EXCEPT !.pending = p]
           b == h.ntf \/ (TRUE /\ c.op = "CORE_RESET" /\ NciVersion = "2_0")
           k == [h EXCEPT !.ntf = b]
           m == Rsp(c, TRUE)
           z == HalDataCback(k, m)
<1>3a. ~MayFail("reset_refused") /\ ~MayFail("init_refused")
  BY VendorFacts DEF Undisturbed, NoRecovery, MayFail
<1>4. HalIs(z)
  BY <1>1, <1>3, <1>3a DEF HalRsp, Answer, Refusal
<1>5. /\ 1 \in DOMAIN hal.pending /\ hal.pending[1] = c /\ p \in Seq(Cmd) /\ c \in Cmd
      /\ \A i \in DOMAIN p : i + 1 \in DOMAIN hal.pending /\ p[i] = hal.pending[i + 1]
  <2>1. hal.pending \in Seq(Cmd)
    BY VendorFacts, HalTypes
  <2>2. c \in Cmd
    BY <1>1, <2>1, HeadTailProperties
  <2> QED
    BY <1>1, <2>1, <2>2, TailIndex
<1>6. c.op \in StackCmd \cup UserCmds /\ c.id \in 0..MaxCmds
  BY <1>5, VendorFacts, EnvTypes DEF Cmd
<1> HIDE DEF c, p
<1>7. m \in Message /\ m \in Answered /\ m.op = c.op /\ m.id = c.id
  BY <1>6 DEF Rsp, Message, Answered
<1> HIDE DEF m
<1>8. h \in HalBlock /\ h.pending = p /\ h.link = hal.link /\ h.mbox = hal.mbox
  BY <1>5, VendorFacts DEF HalBlock
<1>9. b \in BOOLEAN
  BY <1>8, HalTypes
<1> HIDE DEF h, b
<1>10. k \in HalBlock /\ k.pending = p /\ k.link = hal.link /\ k.mbox = hal.mbox
  BY <1>8, <1>9 DEF HalBlock
<1> HIDE DEF k
<1>11. z.mbox = Append(hal.mbox, m) /\ z.pending = p /\ z.link = hal.link
  BY <1>2, <1>10, DataPosted
<1> HIDE DEF z
<1>12. There.nfc = nfc_cb /\ There.hal = z
  BY <1>4 DEF There, HalIs
<1> DEFINE q == hal.mbox
           r == z.mbox
<1>13. /\ Len(r) = Len(q) + 1 /\ Len(q) \in Nat /\ DOMAIN r = 1..Len(r) /\ DOMAIN q = 1..Len(q)
       /\ \A i \in 1..Len(q) : r[i] = q[i]
       /\ r[Len(q) + 1] = m
  <2>1. q \in Seq(Message)
    BY VendorFacts, HalTypes
  <2> QED
    BY <1>7, <1>11, <2>1, AppendProperties, LenProperties
<1>14. \A i \in DOMAIN q : q[i] \in Answered => Mine(q[i], nfc_cb)
  BY VendorFacts
<1>15. Mine(c, nfc_cb)
  BY <1>5, VendorFacts
<1> HIDE DEF q, r
<1>16. Mine(m, nfc_cb)
  BY <1>7, <1>15 DEF Mine
<1>17. \A i \in DOMAIN r : r[i] \in Answered => Mine(r[i], nfc_cb)
  <2>1. \A i \in DOMAIN r : i \in DOMAIN q \/ i = Len(q) + 1
    BY <1>13
  <2> QED
    BY <1>13, <1>14, <1>16, <2>1
<1>18. ~None(r, Answered)
  <2>1. Len(q) + 1 \in DOMAIN r
    BY <1>13
  <2> QED
    BY <1>7, <1>13, <2>1 DEF None
<1>19. \A i \in DOMAIN p : Mine(p[i], nfc_cb)
  BY <1>5, VendorFacts
<1>20. nfc_cb.back.to = nfc_cb.back.answers
  BY VendorFacts DEF Vendor, Matched, Ours
<1>21. Ours(There)
  BY <1>11, <1>12, <1>17, <1>19, <1>20, VendorFacts DEF Ours, r
<1>22. ~Quiet(There.hal) /\ There.hal.link = "OPEN"
  BY <1>1, <1>11, <1>12, <1>18 DEF Quiet, r
<1> QED
  BY <1>21, <1>22 DEF Matched

(* Notifications are no answers. *)
LEMMA NotificationMatched == ASSUME Vendor, HalResetNtf \/ HalStrayNtf PROVE Matched(There)
<1>1. ~MayFail("reset")
  BY VendorFacts DEF Undisturbed, NoRecovery, MayFail
<1> DEFINE a == [hal EXCEPT !.ntf = FALSE]
           k == hal.faults + 1
           b == [hal EXCEPT !.ntf = FALSE, !.faults = k]
           d == [hal EXCEPT !.faults = k]
           r == Ntf("CORE_RESET", TRUE)
           s == Ntf("OTHER", TRUE)
<1>2. \/ HalIs(HalDataCback(a, r))
      \/ HalIs(b)
      \/ k \in 0..MaxFaults /\ HalIs(HalDataCback(d, s))
  BY <1>1, FaultType, VendorFacts DEF HalResetNtf, HalStrayNtf, Vendor, Owned
<1> HIDE DEF k
<1>3. a \in HalBlock /\ (k \in 0..MaxFaults => d \in HalBlock)
  BY VendorFacts DEF HalBlock
<1>4. \A h \in {a, b, d} : h.pending = hal.pending /\ h.link = hal.link /\ h.mbox = hal.mbox
  BY VendorFacts DEF HalBlock
<1>5. r \in Message /\ r \notin Answered /\ s \in Message /\ s \notin Answered
  <2>1. r.mt = "NTF" /\ s.mt = "NTF"
    BY DEF Ntf
  <2> QED
    BY <2>1, NtfType DEF Answered
<1> HIDE DEF a, b, d, r, s
<1>6. Adds(hal, HalDataCback(a, r)) /\ HalDataCback(a, r).link = hal.link
  BY <1>3, <1>4, <1>5, DataAdds
<1>7. k \in 0..MaxFaults => Adds(hal, HalDataCback(d, s)) /\ HalDataCback(d, s).link = hal.link
  BY <1>3, <1>4, <1>5, DataAdds
<1>8. Adds(hal, b) /\ b.link = hal.link
  BY <1>4 DEF Adds
<1> QED
  BY <1>2, <1>6, <1>7, <1>8, AddsMatched

LEMMA EventsMatched == ASSUME Vendor, HalJobDone \/ HalRequestControl \/ HalError PROVE Matched(There)
<1> DEFINE Quietly(h) == h \in HalBlock /\ h.pending = hal.pending /\ h.mbox = hal.mbox /\ h.link = hal.link
<1>1. ASSUME NEW h, Quietly(h), NEW e \in HalEvent, NEW ok \in BOOLEAN, HalIs(PostHalEvt(h, e, ok))
      PROVE  Matched(There)
  BY <1>1, PostAdds, AddsMatched
<1>2. CASE HalJobDone
  <2> DEFINE f(ok) == IF ok THEN hal.faults ELSE hal.faults + 1
             h(ok) == [hal EXCEPT !.job = "none", !.faults = f(ok)]
             e == JobDone(hal.job)
  <2>1. PICK ok \in BOOLEAN : /\ ok \/ (hal.job = "post_init" /\ MayFail("post_init"))
                              /\ HalIs(PostHalEvt(h(ok), e, ok))
    BY <1>2 DEF HalJobDone
  <2>2. f(ok) \in 0..MaxFaults /\ "none" \in {"none", "post_init", "prediscover", "granted"}
    BY <2>1, FaultType, HalTypes, VendorFacts DEF Vendor, Owned
  <2> HIDE DEF f
  <2>3. Quietly(h(ok))
    BY <2>2, VendorFacts DEF HalBlock
  <2>4. e \in HalEvent
    BY <1>2, VendorFacts, HalTypes DEF HalJobDone, JobDone, HalEvent
  <2> HIDE DEF h, e, Quietly
  <2> QED
    BY <1>1, <2>1, <2>3, <2>4
<1>3. CASE HalRequestControl
  <2> DEFINE k == hal.calls + 1
             h == [hal EXCEPT !.calls = k]
  <2>1. HalIs(PostHalEvt(h, "REQUEST_CONTROL", TRUE)) /\ hal.calls < MaxCalls
    BY <1>3 DEF HalRequestControl, MayCall
  <2>2. k \in 0..MaxCalls
    BY <2>1, VendorFacts, EnvTypes, HalTypes
  <2> HIDE DEF k
  <2>3. Quietly(h)
    BY <2>2, VendorFacts DEF HalBlock
  <2>4. "REQUEST_CONTROL" \in HalEvent /\ TRUE \in BOOLEAN
    BY DEF HalEvent
  <2> HIDE DEF h, Quietly
  <2> QED
    BY <1>1, <2>1, <2>3, <2>4
<1>4. CASE HalError
  <2> DEFINE k == hal.faults + 1
             h == [hal EXCEPT !.faults = k]
  <2>1. HalIs(PostHalEvt(h, "ERROR", TRUE)) /\ MayFail("error")
    BY <1>4 DEF HalError
  <2>2. k \in 0..MaxFaults
    BY <2>1, FaultType, VendorFacts DEF Vendor, Owned
  <2> HIDE DEF k
  <2>3. Quietly(h)
    BY <2>2, VendorFacts DEF HalBlock
  <2>4. "ERROR" \in HalEvent /\ TRUE \in BOOLEAN
    BY DEF HalEvent
  <2> HIDE DEF h, Quietly
  <2> QED
    BY <1>1, <2>1, <2>3, <2>4
<1> QED
  BY <1>2, <1>3, <1>4

LEMMA NextMatched == ASSUME Vendor, [Next]_vars PROVE Matched(There)
<1>1. CASE UNCHANGED vars
  BY <1>1 DEF vars, There, Here, Vendor
<1>2. CASE Task
  BY <1>2, ReadyMatched, ReadMatched, TimeoutMatched DEF Task
<1>3. CASE EarlyTimeout
  BY <1>3, TimeoutMatched
<1>4. CASE Api
  BY <1>4, EnableMatched, DisableMatched, DiscoveryMatched, DeactivateMatched, VsCommandMatched,
     PowerMatched DEF Api
<1>5. CASE Answers
  BY <1>5, OpenCpltMatched, CloseCpltMatched, RspMatched, NotificationMatched, EventsMatched DEF Answers
<1>6. CASE HalStrayNtf \/ HalRequestControl \/ HalError
  BY <1>6, NotificationMatched, EventsMatched
<1> QED
  BY <1>1, <1>2, <1>3, <1>4, <1>5, <1>6 DEF Next

(* Who owns the command channel, and whose the answers are. *)
VendorKept == IInv /\ (Addressed => Matched(Here))

LEMMA VendorInit == Init => VendorKept
<1> SUFFICES ASSUME Init PROVE Matched(Here)
  BY InvInit DEF VendorKept
<1>1. Here.nfc = InitNfcCb /\ Here.hal = InitHal
  BY DEF Init, Here
<1> QED
  BY <1>1 DEF Matched, Ours, InitNfcCb, InitHal, NoBack

LEMMA VendorNext == VendorKept /\ [Next]_vars => VendorKept'
<1> SUFFICES ASSUME VendorKept, [Next]_vars PROVE VendorKept'
  OBVIOUS
<1>1. IInv'
  BY InvNext DEF VendorKept
<1>2. env' = env
  BY NextEnv
<1>3. ASSUME Addressed' PROVE Matched(Here)'
  <2>1. Addressed
    BY <1>2, <1>3 DEF Addressed, Undisturbed, NoRecovery
  <2>2. Vendor
    BY <2>1 DEF VendorKept, IInv, Vendor, Owned, Calm, Addressed
  <2>3. Matched(There)
    BY <2>2, NextMatched
  <2>4. Message' = Message /\ UserCmds' = UserCmds
    BY <1>2 DEF Message, MaxCmds, UserCmds
  <2>5. Quiet(There.hal) <=> Quiet(Here.hal)'
    BY <2>4 DEF There, Here, Quiet, None, Answered
  <2>6. Ours(There) => Ours(Here)'
    BY <1>2, <2>4 DEF There, Here, Ours, Mine, Answered
  <2>7. There.nfc = Here.nfc' /\ There.hal = Here.hal'
    BY DEF There, Here
  <2> QED
    BY <2>3, <2>5, <2>6, <2>7 DEF Matched
<1> QED
  BY <1>1, <1>3 DEF VendorKept

(* The answer to a vendor command goes to the call-back given with it       *)
(* (NFC_SendVsCommand, NFC_SendRawVsCommand, nfc_ncif_proc_vs_rsp,          *)
(* nfc_ncif_proc_proprietary_rsp), and what is reported to the application  *)
(* answers what it asked, with the HAL closed when it says so, each in the  *)
(* environments that its definition names.                                  *)
THEOREM AnswersAreMatched == Spec => []AnswersMatch
<1>1. Init => CourseKept /\ VendorKept
  BY CourseInit, VendorInit
<1>2. (CourseKept /\ VendorKept) /\ [Next]_vars => (CourseKept /\ VendorKept)'
  BY CourseNext, VendorNext
<1>3. CourseKept /\ VendorKept => AnswersMatch
  <2>1. CourseKept => (Timely => ReportMatches /\ ClosedWhenReported)
    BY CourseReports DEF CourseKept
  <2>2. VendorKept => (Addressed => VendorAnswer)
    BY DEF VendorKept, Matched, Ours, VendorAnswer, Here
  <2> QED
    BY <2>1, <2>2 DEF AnswersMatch
<1> QED
  BY <1>1, <1>2, <1>3, PTL DEF Spec
=============================================================================
