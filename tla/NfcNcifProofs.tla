---------------------------- MODULE NfcNcifProofs ----------------------------
(***************************************************************************)
(* Proofs about NfcNcif, for every command window, every environment and    *)
(* every number of commands, calls and faults.                              *)
(*                                                                          *)
(* TypeCorrect: every handler, API function and step of the HAL keeps the   *)
(* types of the control block, of the mailbox and of the transport.         *)
(*                                                                          *)
(* ChannelIsOwned: with a window of one command, without a recovery of the  *)
(* HAL and where no start is refused (Undisturbed), the command channel     *)
(* always has one owner.  The invariant is                                  *)
(* Chan (nobody, the stack, the HAL, or nobody for good because it was      *)
(* closed) together with Phase (what the stack and the transport are doing, *)
(* from which follows which messages can still come).  A handler is a       *)
(* function from pairs to pairs, so each lemma about one says what it does  *)
(* to the owner, in terms of Near, Step and Idle; the steps of the HAL are  *)
(* compared with Kin, Twin and Same, which leave the other messages out.    *)
(***************************************************************************)
EXTENDS NfcNcif, SequenceTheorems, FiniteSetTheorems, TLAPS

(* The pair that a handler changes. *)
Pair == [nfc : ControlBlock, hal : HalBlock]
Here == [nfc |-> nfc_cb, hal |-> hal]

(* No message of q, or one, is in S. *)
None(q, S) == \A i \in DOMAIN q : q[i] \notin S
Once(q, S) == \E i \in DOMAIN q : \A j \in DOMAIN q : q[j] \in S <=> j = i

(* Answers of the NFCC, with the last command op; the end of the HAL's     *)
(* control.                                                                *)
Answered == {m \in Message : m.mt = "RSP"}
AnswerOf(op) == {m \in Message : m.mt = "RSP" /\ m.op = op}
Returned == {m \in Message : m.op \in {"PRE_DISCOVER_CPLT", "RELEASE_CONTROL"}}
Control == {"prediscover", "granted"}

-----------------------------------------------------------------------------
(* Who has the command channel, in an environment without recovery.        *)

(* Nobody. *)
Unused(x) ==
    /\ x.hal.pending = <<>> /\ None(x.hal.mbox, Answered)
    /\ x.hal.job \notin Control /\ None(x.hal.mbox, Returned)

(* Nobody, and the stack may take it. *)
Free(x) == x.nfc.nci_cmd_window = 1 /\ ~x.nfc.nci_wait_rsp_timer /\ Unused(x)

(* The stack: the command it wrote last is not answered, or its answer is  *)
(* not read.                                                               *)
Busy(x) ==
    /\ x.nfc.nci_cmd_window = 0
    /\ x.hal.job \notin Control /\ None(x.hal.mbox, Returned)
    /\ \/ /\ Len(x.hal.pending) = 1 /\ x.hal.pending[1].op = x.nfc.last_hdr
          /\ None(x.hal.mbox, Answered)
       \/ /\ x.hal.pending = <<>> /\ Once(x.hal.mbox, Answered)
          /\ Once(x.hal.mbox, AnswerOf(x.nfc.last_hdr))

(* The HAL: it is at work, or the event that ends it is not read. *)
Lent(x) ==
    /\ x.nfc.nci_cmd_window = 0 /\ ~x.nfc.nci_wait_rsp_timer
    /\ "CONTROL_GRANTED" \in x.nfc.flags
    /\ x.hal.pending = <<>> /\ None(x.hal.mbox, Answered)
    /\ \/ x.hal.job \in Control /\ None(x.hal.mbox, Returned)
       \/ x.hal.job \notin Control /\ Once(x.hal.mbox, Returned)

(* Nobody, and no command can be written: one was, or control was handed   *)
(* over, when the transport was closed.                                    *)
Lost(x) ==
    x.nfc.nci_cmd_window = 0 /\ Unused(x) /\ x.hal.link \in {"CLOSED", "CLOSING"}

Chan(x) == x.hal.recovered = <<>> /\ (Free(x) \/ Busy(x) \/ Lent(x) \/ Lost(x))

-----------------------------------------------------------------------------
(* What the stack and the transport are doing, in such an environment.     *)

Fresh(x) == x.nfc.nci_cmd_window = 1 /\ x.nfc.nci_cmd_xmit_q = <<>>

(* The transport is opening, is open, failed to open. *)
Opening(x) ==
    /\ x.nfc.nfc_state = "W4_HAL_OPEN" /\ Fresh(x) /\ x.nfc.report = "none"
    /\ x.hal.link = "OPENING" /\ ~x.hal.ready /\ x.hal.mbox = <<>>
Opened(x) ==
    /\ \/ x.nfc.nfc_state = "W4_HAL_OPEN" /\ x.nfc.report = "none"
       \/ x.nfc.nfc_state = "NONE"
    /\ Fresh(x) /\ x.hal.link = "OPEN" /\ x.hal.ready /\ x.hal.job = "none" /\ ~x.hal.ntf
    /\ \A i \in DOMAIN x.hal.mbox : x.hal.mbox[i].op = "ERROR"
Failed(x) ==
    /\ x.nfc.nfc_state = "W4_HAL_OPEN" /\ Fresh(x) /\ x.nfc.report = "none"
    /\ x.hal.link = "CLOSED" /\ ~x.hal.ready /\ x.hal.mbox = <<Evt("OPEN_CPLT", FALSE)>>

(* The transport closes, and has closed. *)
Closing(x) ==
    /\ x.nfc.nfc_state = "W4_HAL_CLOSE" /\ Fresh(x) /\ ~x.hal.ready
    /\ \/ x.hal.link \in {"CLOSED", "CLOSING"} /\ x.hal.mbox = <<>>
       \/ x.hal.link = "CLOSED" /\ x.hal.mbox = <<Evt("CLOSE_CPLT", TRUE)>>
Off(x) ==
    /\ x.nfc.nfc_state \in {"NONE", "NFCC_POWER_OFF_SLEEP"} /\ Fresh(x)
    /\ x.hal.link = "CLOSED" /\ ~x.hal.ready /\ x.hal.mbox = <<>>

(* The stack runs, or has given up with messages still to come. *)
Running(x) ==
    /\ x.nfc.nfc_state \in {"CORE_INIT", "W4_POST_INIT_CPLT", "IDLE", "NONE"}
    /\ x.hal.link # "OPENING" /\ ~x.hal.ready
    /\ "sleep" \in env.calls => x.hal.link = "OPEN"
    /\ \A i \in DOMAIN x.hal.mbox : x.hal.mbox[i].op # "OPEN_CPLT"

(* What the environment may send. *)
Allowed(m) ==
    /\ m.op = "OTHER" => "stray" \in env.faults
    /\ m.mt \in {"RSP", "NTF"} => m.ok
    /\ m.op = "ERROR" => "error" \in env.faults
    /\ (m.op = "POST_INIT_CPLT" /\ ~m.ok) => "post_init" \in env.faults

Phase(x) ==
    /\ x.hal.link # "OPEN" => x.hal.pending = <<>> /\ x.hal.job = "none" /\ ~x.hal.ntf
    /\ "RESTARTING" \in x.nfc.flags => "sleep" \in env.calls
    /\ x.nfc.rawVsCbflag => "RAW" \in UserCmds
    /\ \A i \in DOMAIN x.hal.mbox : Allowed(x.hal.mbox[i])
    /\ Opening(x) \/ Opened(x) \/ Failed(x) \/ Closing(x) \/ Off(x) \/ Running(x)

Calm == NCI_MAX_CMD_WINDOW = 1 /\ Undisturbed
IInv == TypeOK /\ (Calm => Chan(Here) /\ Phase(Here))

-----------------------------------------------------------------------------
(* Types. *)
Typed == env \in Environment

(* What the environments offer. *)
LEMMA EnvTypes ==
  ASSUME Typed
  PROVE  /\ UserCmds \subseteq {"VSC", "RAW"} /\ MaxCmds \in Nat /\ MaxCalls \in Nat
         /\ MaxFaults \in Nat /\ NciVersion \in {"1_0", "2_0"}
         /\ env.faults \subseteq Fault /\ env.calls \subseteq Call
BY DEF Typed, Environment, UserCmds, MaxCmds, MaxCalls, MaxFaults, NciVersion

(* The parts of a pair. *)
LEMMA PairFields ==
  ASSUME NEW x \in Pair
  PROVE  /\ x.nfc \in ControlBlock /\ x.hal \in HalBlock
         /\ x = [nfc |-> x.nfc, hal |-> x.hal]
BY DEF Pair

(* Replacing the control block of a pair. *)
LEMMA NfcType ==
  ASSUME NEW x \in Pair, NEW n \in ControlBlock
  PROVE  Nfc(x, n) \in Pair /\ Nfc(x, n).nfc = n /\ Nfc(x, n).hal = x.hal
BY PairFields DEF Pair, Nfc

(* Replacing the HAL of a pair. *)
LEMMA HalType ==
  ASSUME NEW x \in Pair, NEW h \in HalBlock
  PROVE  Hal(x, h) \in Pair /\ Hal(x, h).nfc = x.nfc /\ Hal(x, h).hal = h
BY PairFields DEF Pair, Hal

(* The fields of nfc_cb. *)
LEMMA BlockTypes ==
  ASSUME NEW n \in ControlBlock
  PROVE  /\ n.nfc_state \in NFC_STATE /\ n.flags \in SUBSET NFC_FL
         /\ n.nci_cmd_window \in 0..NCI_MAX_CMD_WINDOW /\ n.nci_cmd_window \in Int
         /\ n.nci_cmd_xmit_q \in Seq(Cmd)
         /\ n.last_hdr \in StackCmd \cup UserCmds \cup {"NONE"} /\ n.p_vsc_cback \in 0..MaxCmds
         /\ n.nci_wait_rsp_timer \in BOOLEAN /\ n.rawVsCbflag \in BOOLEAN
         /\ n.p_disc_pending \in BOOLEAN /\ n.disc_on \in BOOLEAN /\ n.p_resp_cback \in BOOLEAN
         /\ n.p_nci_init_rsp \in BOOLEAN /\ n.asked \in Request /\ n.report \in Report
BY WindowAssumption DEF ControlBlock

(* Assigning to fields of the control block. *)
LEMMA FieldTypes ==
  ASSUME NEW n \in ControlBlock
  PROVE  /\ \A b \in BOOLEAN : [n EXCEPT !.disc_on = b] \in ControlBlock
         /\ \A b \in BOOLEAN : [n EXCEPT !.rawVsCbflag = b] \in ControlBlock
         /\ \A b \in BOOLEAN : [n EXCEPT !.p_nci_init_rsp = b] \in ControlBlock
         /\ \A b \in BOOLEAN : [n EXCEPT !.nci_wait_rsp_timer = b] \in ControlBlock
         /\ \A b \in BOOLEAN : [n EXCEPT !.p_disc_pending = b] \in ControlBlock
         /\ \A v \in {"UNKNOWN", "1_0", "2_0"} : [n EXCEPT !.nci_version = v] \in ControlBlock
         /\ \A c \in StackCmd \cup UserCmds \cup {"NONE"} :
               [n EXCEPT !.last_hdr = c] \in ControlBlock
         /\ \A s \in NFC_STATE : [n EXCEPT !.nfc_state = s] \in ControlBlock
         /\ \A f \in SUBSET NFC_FL : [n EXCEPT !.flags = f] \in ControlBlock
         /\ \A w \in 0..NCI_MAX_CMD_WINDOW : [n EXCEPT !.nci_cmd_window = w] \in ControlBlock
         /\ \A q \in Seq(Cmd) : [n EXCEPT !.nci_cmd_xmit_q = q] \in ControlBlock
         /\ \A r \in Report : [n EXCEPT !.report = r] \in ControlBlock
         /\ \A k \in [to : 0..MaxCmds, answers : 0..MaxCmds] :
               [n EXCEPT !.back = k] \in ControlBlock
         /\ \A w \in 0..NCI_MAX_CMD_WINDOW, f \in SUBSET NFC_FL :
               [n EXCEPT !.nci_cmd_window = w, !.flags = f] \in ControlBlock
         /\ \A f \in SUBSET NFC_FL, w \in 0..NCI_MAX_CMD_WINDOW :
               [n EXCEPT !.flags = f, !.nci_cmd_window = w] \in ControlBlock
         /\ \A f \in SUBSET NFC_FL, b \in BOOLEAN :
               [n EXCEPT !.flags = f, !.p_disc_pending = b] \in ControlBlock
         /\ \A f \in SUBSET NFC_FL, r \in Report :
               [n EXCEPT !.flags = f, !.report = r] \in ControlBlock
         /\ \A i \in 0..MaxCmds, b \in BOOLEAN :
               [n EXCEPT !.p_vsc_cback = i, !.rawVsCbflag = b] \in ControlBlock
         /\ \A q \in Request, r \in Report : [n EXCEPT !.asked = q, !.report = r] \in ControlBlock
         /\ \A b \in BOOLEAN, v \in {"UNKNOWN", "1_0", "2_0"} :
               [n EXCEPT !.nci_wait_rsp_timer = b, !.nci_version = v] \in ControlBlock
         /\ \A s \in NFC_STATE, b \in BOOLEAN :
               [n EXCEPT !.nfc_state = s, !.p_nci_init_rsp = b] \in ControlBlock
         /\ \A s \in NFC_STATE, r \in Report, b \in BOOLEAN :
               [n EXCEPT !.nfc_state = s, !.report = r, !.p_resp_cback = b] \in ControlBlock
         /\ \A s \in NFC_STATE, f \in SUBSET NFC_FL, r \in Report :
               [n EXCEPT !.nfc_state = s, !.flags = f, !.report = r] \in ControlBlock
         /\ \A b \in BOOLEAN, i \in 0..MaxCmds, w \in 0..NCI_MAX_CMD_WINDOW :
               [n EXCEPT !.nci_wait_rsp_timer = b, !.p_vsc_cback = i, !.nci_cmd_window = w] \in ControlBlock
         /\ \A w \in 0..NCI_MAX_CMD_WINDOW, b \in BOOLEAN, q \in Seq(Cmd) :
               [n EXCEPT !.nci_cmd_window = w, !.nci_wait_rsp_timer = b, !.nci_cmd_xmit_q = q] \in ControlBlock
<1>1. \A b \in BOOLEAN : [n EXCEPT !.disc_on = b] \in ControlBlock
  BY DEF ControlBlock
<1>2. \A b \in BOOLEAN : [n EXCEPT !.rawVsCbflag = b] \in ControlBlock
  BY DEF ControlBlock
<1>3. \A b \in BOOLEAN : [n EXCEPT !.p_nci_init_rsp = b] \in ControlBlock
  BY DEF ControlBlock
<1>4. \A b \in BOOLEAN : [n EXCEPT !.nci_wait_rsp_timer = b] \in ControlBlock
  BY DEF ControlBlock
<1>5. \A b \in BOOLEAN : [n EXCEPT !.p_disc_pending = b] \in ControlBlock
  BY DEF ControlBlock
<1>6. \A v \in {"UNKNOWN", "1_0", "2_0"} : [n EXCEPT !.nci_version = v] \in ControlBlock
  BY DEF ControlBlock
<1>7. \A c \in StackCmd \cup UserCmds \cup {"NONE"} : [n EXCEPT !.last_hdr = c] \in ControlBlock
  BY DEF ControlBlock
<1>8. \A s \in NFC_STATE : [n EXCEPT !.nfc_state = s] \in ControlBlock
  BY DEF ControlBlock
<1>9. \A f \in SUBSET NFC_FL : [n EXCEPT !.flags = f] \in ControlBlock
  BY DEF ControlBlock
<1>10. \A w \in 0..NCI_MAX_CMD_WINDOW : [n EXCEPT !.nci_cmd_window = w] \in ControlBlock
  BY DEF ControlBlock
<1>11. \A q \in Seq(Cmd) : [n EXCEPT !.nci_cmd_xmit_q = q] \in ControlBlock
  BY DEF ControlBlock
<1>12. \A r \in Report : [n EXCEPT !.report = r] \in ControlBlock
  BY DEF ControlBlock
<1>13. \A k \in [to : 0..MaxCmds, answers : 0..MaxCmds] : [n EXCEPT !.back = k] \in ControlBlock
  BY DEF ControlBlock
<1>14. \A w \in 0..NCI_MAX_CMD_WINDOW, f \in SUBSET NFC_FL :
         [n EXCEPT !.nci_cmd_window = w, !.flags = f] \in ControlBlock
  BY DEF ControlBlock
<1>15. \A f \in SUBSET NFC_FL, w \in 0..NCI_MAX_CMD_WINDOW :
         [n EXCEPT !.flags = f, !.nci_cmd_window = w] \in ControlBlock
  BY DEF ControlBlock
<1>16. \A f \in SUBSET NFC_FL, b \in BOOLEAN :
         [n EXCEPT !.flags = f, !.p_disc_pending = b] \in ControlBlock
  BY DEF ControlBlock
<1>17. \A f \in SUBSET NFC_FL, r \in Report : [n EXCEPT !.flags = f, !.report = r] \in ControlBlock
  BY DEF ControlBlock
<1>18. \A i \in 0..MaxCmds, b \in BOOLEAN :
         [n EXCEPT !.p_vsc_cback = i, !.rawVsCbflag = b] \in ControlBlock
  BY DEF ControlBlock
<1>19. \A q \in Request, r \in Report : [n EXCEPT !.asked = q, !.report = r] \in ControlBlock
  BY DEF ControlBlock
<1>20. \A b \in BOOLEAN, v \in {"UNKNOWN", "1_0", "2_0"} :
         [n EXCEPT !.nci_wait_rsp_timer = b, !.nci_version = v] \in ControlBlock
  BY DEF ControlBlock
<1>21. \A s \in NFC_STATE, b \in BOOLEAN :
         [n EXCEPT !.nfc_state = s, !.p_nci_init_rsp = b] \in ControlBlock
  BY DEF ControlBlock
<1>22. \A s \in NFC_STATE, r \in Report, b \in BOOLEAN :
         [n EXCEPT !.nfc_state = s, !.report = r, !.p_resp_cback = b] \in ControlBlock
  BY DEF ControlBlock
<1>23. \A s \in NFC_STATE, f \in SUBSET NFC_FL, r \in Report :
         [n EXCEPT !.nfc_state = s, !.flags = f, !.report = r] \in ControlBlock
  BY DEF ControlBlock
<1>24. \A b \in BOOLEAN, i \in 0..MaxCmds, w \in 0..NCI_MAX_CMD_WINDOW :
         [n EXCEPT !.nci_wait_rsp_timer = b, !.p_vsc_cback = i, !.nci_cmd_window = w] \in ControlBlock
  BY DEF ControlBlock
<1>25. \A w \in 0..NCI_MAX_CMD_WINDOW, b \in BOOLEAN, q \in Seq(Cmd) :
         [n EXCEPT !.nci_cmd_window = w, !.nci_wait_rsp_timer = b, !.nci_cmd_xmit_q = q] \in ControlBlock
  BY DEF ControlBlock
<1> QED
  BY <1>1, <1>2, <1>3, <1>4, <1>5, <1>6, <1>7, <1>8, <1>9, <1>10, <1>11, <1>12, <1>13,
     <1>14, <1>15, <1>16, <1>17, <1>18, <1>19, <1>20, <1>21, <1>22, <1>23, <1>24, <1>25

(* The fields of the HAL. *)
LEMMA HalTypes ==
  ASSUME NEW h \in HalBlock
  PROVE  /\ h.link \in {"CLOSED", "OPENING", "OPEN", "CLOSING"} /\ h.pending \in Seq(Cmd)
         /\ h.ntf \in BOOLEAN /\ h.job \in {"none", "post_init", "prediscover", "granted"}
         /\ h.recovered \in Seq([op : StackCmd \cup UserCmds, id : 0..MaxCmds])
         /\ h.mbox \in Seq(Message) /\ h.ready \in BOOLEAN /\ h.cmds \in 0..MaxCmds
         /\ h.calls \in 0..MaxCalls /\ h.faults \in 0..MaxFaults
BY DEF HalBlock

(* The fields of a message of the mailbox. *)
LEMMA MessageTypes ==
  ASSUME Typed, NEW m \in Message
  PROVE  /\ m.id \in 0..MaxCmds /\ m.ok \in BOOLEAN
         /\ m.mt = "RSP" => m.op \in StackCmd \cup UserCmds
         /\ m.mt = "NTF" => m.op \in {"CORE_RESET", "OTHER"}
         /\ m.mt = "EVT" => m.op \in HalEvent
         /\ m.mt \in {"RSP", "NTF", "EVT"}
<1>0. 0 \in 0..MaxCmds
  BY EnvTypes
<1>1. CASE m \in [mt : {"RSP"}, op : StackCmd \cup UserCmds, id : 0..MaxCmds, ok : BOOLEAN]
  BY <1>1
<1>2. CASE m \in [mt : {"NTF"}, op : {"CORE_RESET", "OTHER"}, id : {0}, ok : BOOLEAN]
  BY <1>0, <1>2
<1>3. CASE m \in [mt : {"EVT"}, op : HalEvent, id : {0}, ok : BOOLEAN]
  BY <1>0, <1>3
<1> QED
  BY <1>1, <1>2, <1>3 DEF Message

(* nfc_set_state keeps the types. *)
LEMMA SetStateType ==
  ASSUME NEW x \in Pair, NEW st \in NFC_STATE
  PROVE  SetState(x, st) \in Pair
<1>1. [x.nfc EXCEPT !.nfc_state = st] \in ControlBlock
  BY PairFields, BlockTypes, FieldTypes
<1> QED
  BY <1>1, NfcType DEF SetState

(* A command put at the end of nci_cmd_xmit_q keeps the types. *)
LEMMA EnqueueType ==
  ASSUME NEW x \in Pair, NEW c \in Cmd
  PROVE  Enqueue(x, c) \in Pair
<1> DEFINE q == Append(x.nfc.nci_cmd_xmit_q, c)
<1>1. q \in Seq(Cmd)
  BY PairFields, BlockTypes
<1> HIDE DEF q
<1>2. [x.nfc EXCEPT !.nci_cmd_xmit_q = q] \in ControlBlock
  BY <1>1, PairFields, BlockTypes, FieldTypes
<1> QED
  BY <1>2, NfcType DEF Enqueue, q

(* HAL_WRITE keeps the types. *)
LEMMA WriteType ==
  ASSUME NEW h \in HalBlock, NEW c \in Cmd
  PROVE  HalWrite(h, c) \in HalBlock
<1> DEFINE q == Append(h.pending, c)
<1>1. q \in Seq(Cmd)
  BY DEF HalBlock
<1> HIDE DEF q
<1>2. [h EXCEPT !.pending = q] \in HalBlock
  BY <1>1 DEF HalBlock
<1> QED
  BY <1>2 DEF HalWrite, q

(* A job given to the HAL keeps the types. *)
LEMMA StartType ==
  ASSUME NEW h \in HalBlock, NEW j \in {"none", "post_init", "prediscover", "granted"}
  PROVE  HalStart(h, j) \in HalBlock
BY DEF HalStart, HalBlock

(* Writing the head of nci_cmd_xmit_q keeps the types. *)
LEMMA WriteHeadType ==
  ASSUME Typed, NEW x \in Pair
  PROVE  WriteHead(x) \in Pair
<1> DEFINE n == x.nfc
           c == Head(n.nci_cmd_xmit_q)
           q == Tail(n.nci_cmd_xmit_q)
           m == [n EXCEPT !.nci_cmd_xmit_q = q, !.last_hdr = c.op,
                            !.p_vsc_cback = IF c.id # 0 THEN c.id ELSE @,
                            !.rawVsCbflag = @ \/ c.op = "RAW",
                            !.nci_cmd_window = @ - 1, !.nci_wait_rsp_timer = TRUE]
<1> SUFFICES ASSUME n.nci_cmd_window # 0, n.nci_cmd_xmit_q # <<>>
             PROVE  [nfc |-> m, hal |-> HalWrite(x.hal, c)] \in Pair
  BY DEF WriteHead
<1>1. n \in ControlBlock /\ x.hal \in HalBlock
  BY PairFields
<1>3. c \in Cmd /\ q \in Seq(Cmd) /\ n.nci_cmd_window - 1 \in 0..NCI_MAX_CMD_WINDOW
  BY <1>1, BlockTypes, WindowAssumption
<1>4. c.op \in StackCmd \cup UserCmds \cup {"NONE"} /\ c.id \in 0..MaxCmds
  BY <1>3, EnvTypes DEF Cmd
<1>6. (IF c.id # 0 THEN c.id ELSE n.p_vsc_cback) \in 0..MaxCmds /\ (n.rawVsCbflag \/ c.op = "RAW") \in BOOLEAN
  BY <1>1, <1>4, BlockTypes
<1> HIDE DEF c, q
<1>5. m \in ControlBlock
  <2> DEFINE id == IF c.id # 0 THEN c.id ELSE n.p_vsc_cback
             raw == n.rawVsCbflag \/ c.op = "RAW"
             w == n.nci_cmd_window - 1
             a == [n EXCEPT !.nci_cmd_xmit_q = q, !.last_hdr = c.op, !.p_vsc_cback = id]
             b == [a EXCEPT !.rawVsCbflag = raw, !.nci_cmd_window = w, !.nci_wait_rsp_timer = TRUE]
  <2>1. m = b
    BY <1>1 DEF ControlBlock
  <2>2. id \in 0..MaxCmds /\ raw \in BOOLEAN /\ w \in 0..NCI_MAX_CMD_WINDOW
    BY <1>3, <1>6
  <2> HIDE DEF n, id, raw, w
  <2>3. a \in ControlBlock
    BY <1>1, <1>3, <1>4, <2>2 DEF ControlBlock
  <2> HIDE DEF a
  <2>4. b \in ControlBlock
    BY <2>3, <2>2 DEF ControlBlock
  <2> QED
    BY <2>1, <2>4
<1> HIDE DEF m
<1> QED
  BY <1>5, <1>1, <1>3, WriteType DEF Pair

(* nfc_ncif_cmd_timeout and nfc_gen_cleanup empty the queue: the types are *)
(* kept.                                                                   *)
LEMMA FlushType ==
  ASSUME NEW x \in Pair
  PROVE  FlushCmdQueue(x) \in Pair
<1>1. [x.nfc EXCEPT !.nci_cmd_window = NCI_MAX_CMD_WINDOW,
                    !.nci_wait_rsp_timer = FALSE, !.nci_cmd_xmit_q = <<>>] \in ControlBlock
  <2>1. <<>> \in Seq(Cmd) /\ NCI_MAX_CMD_WINDOW \in 0..NCI_MAX_CMD_WINDOW
    BY WindowAssumption
  <2> QED
    BY <2>1, PairFields, BlockTypes, FieldTypes
<1> QED
  BY <1>1, NfcType DEF FlushCmdQueue

(* Setting flags of nfc_cb keeps the types. *)
LEMMA FlaggedType ==
  ASSUME NEW x \in Pair, NEW f \in SUBSET NFC_FL
  PROVE  Flagged(x, f) \in Pair
<1>1. [x.nfc EXCEPT !.flags = @ \cup f] \in ControlBlock
  BY PairFields, BlockTypes, FieldTypes
<1> QED
  BY <1>1, NfcType DEF Flagged

(* A command of the stack itself is a command. *)
LEMMA InternalType ==
  ASSUME NEW op \in StackCmd
  PROVE  Internal(op) \in Cmd
BY DEF Internal, Cmd

(* The DISCOVER sent after HAL_PRE_DISCOVER keeps the types. *)
LEMMA SendDiscoverType ==
  ASSUME Typed, NEW x \in Pair, NEW ch \in Choice
  PROVE  SendDiscover(x, ch) \in Pair
<1> DEFINE n == [x.nfc EXCEPT !.flags = @ \ {"DISCOVER_PENDING"}, !.p_disc_pending = FALSE]
           y == Nfc(x, n)
<1>1. n \in ControlBlock
  BY PairFields, BlockTypes, FieldTypes
<1> HIDE DEF n
<1>2. y \in Pair
  BY <1>1, NfcType
<1> HIDE DEF y
<1>3. Enqueue(y, Internal("DISCOVER")) \in Pair
  BY <1>2, EnqueueType, InternalType DEF StackCmd
<1>4. SendDiscover(x, ch) = IF ch.buf THEN WriteHead(Enqueue(y, Internal("DISCOVER"))) ELSE y
  BY DEF SendDiscover, y, n
<1> QED
  BY <1>2, <1>3, <1>4, WriteHeadType

(* Granting the HAL the command window keeps the types. *)
LEMMA HandOverType ==
  ASSUME Typed, NEW x \in Pair, NEW ch \in Choice
  PROVE  HandOver(x, ch) \in Pair
<1> DEFINE n == [x.nfc EXCEPT !.flags = @ \ {"CONTROL_REQUESTED"}]
           g(f) == [n EXCEPT !.flags = f \cup {"CONTROL_GRANTED"}, !.nci_cmd_window = 0]
           r(f, j) == [nfc |-> g(f), hal |-> HalStart(x.hal, j)]
<1>1. n \in ControlBlock
  BY PairFields, BlockTypes, FieldTypes
<1> HIDE DEF n
<1>2. \A f \in SUBSET NFC_FL : g(f) \in ControlBlock
  <2> TAKE f \in SUBSET NFC_FL
  <2> DEFINE u == f \cup {"CONTROL_GRANTED"}
  <2>1. u \in SUBSET NFC_FL /\ 0 \in 0..NCI_MAX_CMD_WINDOW
    BY WindowAssumption DEF NFC_FL
  <2> HIDE DEF u
  <2>2. [n EXCEPT !.flags = u, !.nci_cmd_window = 0] \in ControlBlock
    BY <1>1, <2>1, FieldTypes
  <2> QED
    BY <2>2 DEF u
<1>3. n.flags \in SUBSET NFC_FL /\ n.flags \ {"HAL_REQUESTED"} \in SUBSET NFC_FL
  BY <1>1, BlockTypes
<1> HIDE DEF g
<1>4. r(n.flags, "prediscover") \in Pair /\ r(n.flags \ {"HAL_REQUESTED"}, "granted") \in Pair
  BY <1>2, <1>3, PairFields, StartType DEF Pair
<1> HIDE DEF r
<1>5. Nfc(x, n) \in Pair
  BY <1>1, NfcType
<1>6. HandOver(x, ch) \in {x, r(n.flags, "prediscover"), r(n.flags \ {"HAL_REQUESTED"}, "granted"),
                           SendDiscover(Nfc(x, n), ch), Nfc(x, n)}
  BY DEF HandOver, r, g, n
<1> QED
  BY <1>4, <1>5, <1>6, SendDiscoverType

(* nfc_ncif_check_cmd_queue keeps the types. *)
LEMMA CheckType ==
  ASSUME Typed, NEW x \in Pair, NEW ch \in Choice
  PROVE  CheckCmdQueue(x, ch) \in Pair
BY WriteHeadType, HandOverType DEF CheckCmdQueue

(* nfc_ncif_send_cmd keeps the types. *)
LEMMA SendCmdType ==
  ASSUME Typed, NEW x \in Pair, NEW ch \in Choice, NEW c \in Cmd
  PROVE  SendCmd(x, c, ch) \in Pair
BY EnqueueType, CheckType DEF SendCmd

(* Sending a command of the stack itself keeps the types. *)
LEMMA SendType ==
  ASSUME Typed, NEW x \in Pair, NEW ch \in Choice, NEW op \in StackCmd
  PROVE  Send(x, op, ch) \in Pair
BY SendCmdType, InternalType DEF Send

(* nfc_ncif_update_window keeps the types. *)
LEMMA UpdateWindowType ==
  ASSUME Typed, NEW x \in Pair, NEW ch \in Choice
  PROVE  UpdateWindow(x, ch) \in Pair
<1> DEFINE n == [x.nfc EXCEPT !.nci_wait_rsp_timer = FALSE, !.p_vsc_cback = 0,
                              !.nci_cmd_window = @ + 1]
<1> SUFFICES ASSUME x.nfc.nci_cmd_window # NCI_MAX_CMD_WINDOW
             PROVE  CheckCmdQueue(Nfc(x, n), ch) \in Pair
  BY DEF UpdateWindow
<1>1. x.nfc.nci_cmd_window + 1 \in 0..NCI_MAX_CMD_WINDOW /\ 0 \in 0..MaxCmds
  BY PairFields, BlockTypes, WindowAssumption, EnvTypes
<1>2. n \in ControlBlock
  BY <1>1, PairFields, FieldTypes
<1> HIDE DEF n
<1> QED
  BY <1>2, NfcType, CheckType

(* nfc_main_notify_enable_status keeps the types. *)
LEMMA NotifyType ==
  ASSUME NEW x \in Pair, NEW ok \in BOOLEAN
  PROVE  NotifyEnableStatus(x, ok) \in Pair
<1> DEFINE kept == x.nfc.flags \ {"RESTARTING", "POWER_CYCLE_NFCC"}
           f == IF ok THEN kept ELSE kept \cup {"POWER_OFF_SLEEP"}
           r == IF ok THEN "RESTART_OK" ELSE "RESTART_FAILED"
           a == [x.nfc EXCEPT !.flags = f, !.report = r]
           b == [x.nfc EXCEPT !.report = IF ok THEN "ENABLE_OK" ELSE "ENABLE_FAILED"]
<1>1. f \in SUBSET NFC_FL
  BY PairFields, BlockTypes DEF NFC_FL
<1>2. a \in ControlBlock
  <2>1. r \in Report
    BY DEF Report
  <2> HIDE DEF f, r
  <2> QED
    BY <1>1, <2>1, PairFields, BlockTypes, FieldTypes
<1>3. b \in ControlBlock
  <2> DEFINE e == IF ok THEN "ENABLE_OK" ELSE "ENABLE_FAILED"
  <2>1. e \in Report
    BY DEF Report
  <2> HIDE DEF e
  <2>2. [x.nfc EXCEPT !.report = e] \in ControlBlock
    BY <2>1, PairFields, FieldTypes
  <2> QED
    BY <2>2 DEF e
<1>4. NotifyEnableStatus(x, ok) \in {x, Nfc(x, a), Nfc(x, b)}
  BY DEF NotifyEnableStatus
<1> HIDE DEF a, b
<1> QED
  BY <1>2, <1>3, <1>4, NfcType

(* A new state of the transport keeps the types. *)
LEMMA TransportType ==
  ASSUME NEW h \in HalBlock, NEW l \in {"CLOSED", "OPENING", "OPEN", "CLOSING"}
  PROVE  Transport(h, l) \in HalBlock
<1> DEFINE a == [h EXCEPT !.link = l, !.pending = <<>>, !.ntf = FALSE]
           b == [a EXCEPT !.job = "none", !.recovered = <<>>]
<1>0. /\ <<>> \in Seq(Cmd) /\ "none" \in {"none", "post_init", "prediscover", "granted"}
      /\ <<>> \in Seq([op : StackCmd \cup UserCmds, id : 0..MaxCmds]) /\ FALSE \in BOOLEAN
  OBVIOUS
<1>1. Transport(h, l) = b
  BY DEF Transport, HalBlock
<1>2. a \in HalBlock
  BY <1>0 DEF HalBlock
<1> HIDE DEF a
<1>3. b \in HalBlock
  BY <1>2, <1>0 DEF HalBlock
<1> QED
  BY <1>1, <1>3

(* The HAL's open and close keep the types. *)
LEMMA OpenCloseType ==
  ASSUME NEW x \in Pair
  PROVE  HalOpen(x) \in Pair /\ HalClose(x) \in Pair
<1>1. SetState(x, "W4_HAL_OPEN") \in Pair /\ SetState(x, "W4_HAL_OPEN").hal = x.hal
  BY SetStateType, PairFields DEF SetState, Nfc, NFC_STATE
<1>2. Transport(x.hal, "OPENING") \in HalBlock /\ Transport(x.hal, "CLOSING") \in HalBlock
  BY PairFields, TransportType
<1> QED
  BY <1>1, <1>2, HalType DEF HalOpen, HalClose

(* nfc_enabled keeps the types. *)
LEMMA EnabledType ==
  ASSUME Typed, NEW x \in Pair, NEW ok \in BOOLEAN, NEW ch \in Choice
  PROVE  Enabled(x, ok, ch) \in Pair
<1>1. /\ SetState(x, "IDLE") \in Pair /\ SetState(x, "NONE") \in Pair
      /\ SetState(x, "NFCC_POWER_OFF_SLEEP") \in Pair
  BY SetStateType DEF NFC_STATE
<1>2. Send(SetState(x, "IDLE"), "DISCOVER_MAP", ch) \in Pair
  BY <1>1, SendType DEF StackCmd
<1> QED
  BY <1>1, <1>2, NotifyType, OpenCloseType DEF Enabled

(* nfc_gen_cleanup keeps the types. *)
LEMMA CleanupType ==
  ASSUME NEW x \in Pair
  PROVE  GenCleanup(x) \in Pair
<1> DEFINE n == [x.nfc EXCEPT
        !.flags = @ \ {"DISCOVER_PENDING", "CONTROL_REQUESTED", "CONTROL_GRANTED", "HAL_REQUESTED"},
        !.p_disc_pending = @ /\ "DISCOVER_PENDING" \notin x.nfc.flags,
        !.disc_on = FALSE, !.p_nci_init_rsp = FALSE]
<1>1. n \in ControlBlock
  <2> DEFINE m == x.nfc
             f == m.flags \ {"DISCOVER_PENDING", "CONTROL_REQUESTED", "CONTROL_GRANTED", "HAL_REQUESTED"}
             d == m.p_disc_pending /\ "DISCOVER_PENDING" \notin m.flags
  <2>1. m \in ControlBlock /\ f \in SUBSET NFC_FL /\ d \in BOOLEAN
    BY PairFields, BlockTypes
  <2> HIDE DEF m, f, d
  <2>2. [m EXCEPT !.flags = f, !.p_disc_pending = d, !.disc_on = FALSE, !.p_nci_init_rsp = FALSE]
          \in ControlBlock
    BY <2>1 DEF ControlBlock
  <2> QED
    BY <2>2 DEF m, f, d
<1> HIDE DEF n
<1> QED
  BY <1>1, NfcType, FlushType DEF GenCleanup, n

(* nfc_task_shutdown_nfcc keeps the types. *)
LEMMA ShutdownType ==
  ASSUME NEW x \in Pair
  PROVE  ShutdownNfcc(x) \in Pair
<1> DEFINE h == [x.hal EXCEPT !.mbox = <<>>]
           y == GenCleanup(Hal(x, h))
<1>1. h \in HalBlock
  <2>1. <<>> \in Seq(Message)
    OBVIOUS
  <2> QED
    BY <2>1, PairFields DEF HalBlock
<1> HIDE DEF h
<1>2. y \in Pair
  BY <1>1, HalType, CleanupType
<1>3. ShutdownNfcc(x) \in {HalOpen(y), HalClose(SetState(y, "W4_HAL_CLOSE"))}
  BY DEF ShutdownNfcc, h
<1> HIDE DEF y
<1> QED
  BY <1>2, <1>3, OpenCloseType, SetStateType DEF NFC_STATE

(* Stopping the response timer keeps the types. *)
LEMMA ExpiredType ==
  ASSUME NEW x \in Pair
  PROVE  Expired(x) \in Pair
<1>1. [x.nfc EXCEPT !.nci_wait_rsp_timer = FALSE] \in ControlBlock
  BY PairFields, BlockTypes, FieldTypes
<1> QED
  BY <1>1, NfcType DEF Expired

(* nfc_ncif_cmd_timeout keeps the types. *)
LEMMA TimeoutType ==
  ASSUME Typed, NEW x \in Pair, NEW ch \in Choice
  PROVE  CmdTimeout(x, ch) \in Pair
<1> DEFINE Resent == [op : StackCmd \cup UserCmds, id : 0..MaxCmds]
           n == x.nfc
           disc == IF n.disc_on THEN <<Internal("DISCOVER")>> ELSE <<>>
           again == \/ n.last_hdr = "DEACTIVATE" /\ (ch.idle \/ ~n.disc_on)
                    \/ n.last_hdr \notin {"NONE", "DEACTIVATE"}
           last == IF again
                   THEN <<[op |-> n.last_hdr,
                           id |-> IF n.last_hdr \in UserCmds THEN n.p_vsc_cback ELSE 0]>>
                   ELSE <<>>
           z == IF n.nfc_state = "CORE_INIT" /\ ~ch.fw THEN Enabled(Expired(x), FALSE, ch)
                ELSE Expired(x)
           cmds == disc \o last
           h == [z.hal EXCEPT !.pending = <<>>, !.ntf = FALSE, !.recovered = cmds]
<1>1. z \in Pair
  BY ExpiredType, EnabledType
<1>2. cmds \in Seq(Resent)
  <2>1. Internal("DISCOVER") \in Resent
    BY EnvTypes DEF Internal, StackCmd
  <2>2. again =>
          [op |-> n.last_hdr, id |-> IF n.last_hdr \in UserCmds THEN n.p_vsc_cback ELSE 0] \in Resent
    <3>1. n.last_hdr \in StackCmd \cup UserCmds \cup {"NONE"} /\ n.p_vsc_cback \in 0..MaxCmds
      BY PairFields, BlockTypes
    <3> QED
      BY <3>1, EnvTypes
  <2> HIDE DEF Resent, n, again
  <2>3. disc \in Seq(Resent) /\ last \in Seq(Resent)
    BY <2>1, <2>2
  <2> HIDE DEF disc, last
  <2> QED
    BY <2>3
<1> HIDE DEF z, cmds
<1>3. h \in HalBlock
  <2>1. <<>> \in Seq(Cmd) /\ FALSE \in BOOLEAN /\ z.hal \in HalBlock
    BY <1>1, PairFields
  <2> QED
    BY <2>1, <1>2 DEF HalBlock
<1> HIDE DEF h
<1>4. Hal(z, h) \in Pair
  BY <1>1, <1>3, HalType
<1>5. CmdTimeout(x, ch) \in {z, Hal(z, h)}
  BY DEF CmdTimeout, Resend, z, h, cmds
<1> QED
  BY <1>1, <1>4, <1>5

(* The callback of a vendor command keeps the types. *)
LEMMA VendorType ==
  ASSUME Typed, NEW x \in Pair, NEW m \in Message
  PROVE  VendorCallback(x, m) \in Pair
<1> DEFINE b == [to |-> x.nfc.p_vsc_cback, answers |-> m.id]
<1>1. b \in [to : 0..MaxCmds, answers : 0..MaxCmds]
  <2>1. m.id \in 0..MaxCmds
    BY MessageTypes
  <2> QED
    BY <2>1, PairFields, BlockTypes
<1> HIDE DEF b
<1>2. [x.nfc EXCEPT !.back = b] \in ControlBlock
  BY <1>1, PairFields, BlockTypes, FieldTypes
<1> QED
  BY <1>2, NfcType DEF VendorCallback, b

(* The response to a raw vendor command keeps the types. *)
LEMMA RawType ==
  ASSUME Typed, NEW x \in Pair, NEW m \in Message, NEW ch \in Choice
  PROVE  RawVsRsp(x, m, ch) \in Pair
<1> DEFINE y == VendorCallback(x, m)
           n == [y.nfc EXCEPT !.p_vsc_cback = 0, !.rawVsCbflag = FALSE]
           z == UpdateWindow(Nfc(y, n), ch)
           k == [z.nfc EXCEPT !.rawVsCbflag = FALSE]
<1>1. y \in Pair
  BY VendorType
<1> HIDE DEF y
<1>2. n \in ControlBlock
  <2>1. 0 \in 0..MaxCmds
    BY EnvTypes
  <2> QED
    BY <2>1, <1>1, PairFields, BlockTypes, FieldTypes
<1> HIDE DEF n
<1>3. z \in Pair
  BY <1>1, <1>2, NfcType, UpdateWindowType
<1> HIDE DEF z
<1>4. k \in ControlBlock
  BY <1>3, PairFields, BlockTypes, FieldTypes
<1> HIDE DEF k
<1>5. RawVsRsp(x, m, ch) = Nfc(z, k)
  BY DEF RawVsRsp, z, n, y, k
<1> QED
  BY <1>3, <1>4, <1>5, NfcType

(* Reporting NFC_DISABLE keeps the types. *)
LEMMA DisabledType ==
  ASSUME NEW x \in Pair
  PROVE  Disabled(x) \in Pair
<1> DEFINE s == "NONE"
           r == "DISABLE"
<1>1. s \in NFC_STATE /\ r \in Report /\ FALSE \in BOOLEAN
  BY DEF NFC_STATE, Report
<1> HIDE DEF s, r
<1>2. [x.nfc EXCEPT !.nfc_state = s, !.report = r, !.p_resp_cback = FALSE] \in ControlBlock
  BY <1>1, PairFields, FieldTypes
<1> QED
  BY <1>2, NfcType DEF Disabled, s, r

(* NFC_Disable keeps the types. *)
LEMMA StopType ==
  ASSUME NEW x \in Pair
  PROVE  Disable(x) \in Pair
BY DisabledType, ShutdownType DEF Disable

(* nfc_ncif_proc_reset_rsp keeps the types. *)
LEMMA ResetRspType ==
  ASSUME Typed, NEW x \in Pair, NEW ch \in Choice, NEW m
  PROVE  ProcResetRsp(x, m, ch) \in Pair
<1> DEFINE a == [x.nfc EXCEPT !.nci_wait_rsp_timer = TRUE]
           b == [x.nfc EXCEPT !.nci_version = "1_0"]
<1>1. a \in ControlBlock /\ b \in ControlBlock
  BY PairFields, BlockTypes, FieldTypes
<1> HIDE DEF a, b
<1>2. Nfc(x, a) \in Pair /\ Nfc(x, b) \in Pair
  BY <1>1, NfcType
<1>3. \E y \in {x, Nfc(x, b)} :
        ProcResetRsp(x, m, ch) \in {y, Enabled(y, FALSE, ch), Enabled(Disable(y), FALSE, ch), Nfc(x, a),
                                    Send(y, "CORE_INIT", ch)}
  BY DEF ProcResetRsp, a, b
<1> QED
  BY <1>2, <1>3, StopType, EnabledType, SendType DEF StackCmd

(* The CORE_RESET notification keeps the types. *)
LEMMA ResetNtfType ==
  ASSUME Typed, NEW x \in Pair, NEW ch \in Choice, NEW m
  PROVE  ProcResetNtf(x, m, ch) \in Pair
<1> DEFINE a == [x.nfc EXCEPT !.nci_wait_rsp_timer = FALSE, !.nci_version = "2_0"]
<1>1. a \in ControlBlock
  BY PairFields, BlockTypes, FieldTypes
<1> HIDE DEF a
<1>2. Nfc(x, a) \in Pair
  BY <1>1, NfcType
<1>3. ProcResetNtf(x, m, ch) \in {Send(Nfc(x, a), "CORE_INIT", ch), CmdTimeout(x, ch), x}
  BY DEF ProcResetNtf, a
<1> QED
  BY <1>2, <1>3, SendType, TimeoutType DEF StackCmd

(* nfc_ncif_proc_init_rsp keeps the types. *)
LEMMA InitRspType ==
  ASSUME Typed, NEW x \in Pair, NEW ch \in Choice, NEW m
  PROVE  ProcInitRsp(x, m, ch) \in Pair
<1> DEFINE a == [x.nfc EXCEPT !.nfc_state = "W4_POST_INIT_CPLT", !.p_nci_init_rsp = TRUE]
           h == [x.hal EXCEPT !.ready = TRUE]
           g == HalStart(x.hal, "post_init")
<1>1. a \in ControlBlock
  <2>1. "W4_POST_INIT_CPLT" \in NFC_STATE
    BY DEF NFC_STATE
  <2> QED
    BY <2>1, PairFields, BlockTypes, FieldTypes
<1> HIDE DEF a
<1>2. h \in HalBlock
  BY PairFields DEF HalBlock
<1> HIDE DEF h
<1>3. g \in HalBlock
  BY PairFields, StartType
<1> HIDE DEF g
<1>4. ProcInitRsp(x, m, ch) \in {Hal(x, h), Enabled(x, FALSE, ch), [nfc |-> a, hal |-> g]}
  BY DEF ProcInitRsp, a, g, h
<1>5. Hal(x, h) \in Pair /\ [nfc |-> a, hal |-> g] \in Pair
  BY <1>1, <1>2, <1>3, HalType DEF Pair
<1> QED
  BY <1>4, <1>5, EnabledType

(* A response keeps the types. *)
LEMMA RspType ==
  ASSUME Typed, NEW x \in Pair, NEW ch \in Choice, NEW m \in Message, m.mt = "RSP"
  PROVE  ProcRsp(x, m, ch) \in Pair
<1> DEFINE expected == m.op = IF x.nfc.last_hdr = "NONE" THEN "CORE_RESET" ELSE x.nfc.last_hdr
           stray == m.op = "DISCOVER" /\ x.nfc.nci_cmd_window = 0
           y == IF expected THEN x ELSE Nfc(x, [x.nfc EXCEPT !.nci_cmd_window = @ + 1])
           d == Nfc(y, [y.nfc EXCEPT !.disc_on = TRUE])
           e == Nfc(y, [y.nfc EXCEPT !.disc_on = @ /\ ~ch.idle])
           z == CASE m.op = "CORE_RESET" -> ProcResetRsp(y, m, ch)
                  [] m.op = "CORE_INIT"  -> ProcInitRsp(y, m, ch)
                  [] m.op \in UserCmds   -> VendorCallback(y, m)
                  [] m.op = "DISCOVER"   -> d
                  [] m.op = "DEACTIVATE" -> e
                  [] m.op = "DISCOVER_MAP" -> y
           k == [z.nfc EXCEPT !.last_hdr = "NONE"]
<1> SUFFICES ASSUME expected \/ stray
             PROVE  UpdateWindow(Nfc(z, k), ch) \in Pair
  BY DEF ProcRsp
<1>1. y \in Pair
  <2>1. CASE expected
    BY <2>1
  <2>2. CASE ~expected
    <3>1. x.nfc.nci_cmd_window + 1 \in 0..NCI_MAX_CMD_WINDOW
      BY <2>2, WindowAssumption
    <3>2. [x.nfc EXCEPT !.nci_cmd_window = @ + 1] \in ControlBlock
      BY <3>1, PairFields, BlockTypes, FieldTypes
    <3> QED
      BY <2>2, <3>2, NfcType
  <2> QED
    BY <2>1, <2>2
<1> HIDE DEF y
<1>2. d \in Pair /\ e \in Pair
  <2> DEFINE o == y.nfc.disc_on /\ ~ch.idle
  <2>0. o \in BOOLEAN /\ e = Nfc(y, [y.nfc EXCEPT !.disc_on = o])
    OBVIOUS
  <2> HIDE DEF o, e
  <2>1. [y.nfc EXCEPT !.disc_on = TRUE] \in ControlBlock /\ [y.nfc EXCEPT !.disc_on = o] \in ControlBlock
    BY <1>1, <2>0, PairFields, FieldTypes
  <2> QED
    BY <2>0, <2>1, <1>1, NfcType
<1> HIDE DEF d, e
<1>3. m.op \in {"CORE_RESET", "CORE_INIT", "DISCOVER_MAP", "DISCOVER", "DEACTIVATE", "VSC", "RAW"}
      /\ (m.op \in {"VSC", "RAW"} => m.op \in UserCmds)
      /\ (m.op \in UserCmds => m.op \in {"VSC", "RAW"})
  BY EnvTypes DEF Message, StackCmd
<1>4. z \in {ProcResetRsp(y, m, ch), ProcInitRsp(y, m, ch), VendorCallback(y, m), d, e, y}
  BY <1>3
<1>5. z \in Pair
  <2> HIDE DEF z
  <2> QED
    BY <1>1, <1>2, <1>4, ResetRspType, InitRspType, VendorType
<1> HIDE DEF z
<1>6. k \in ControlBlock
  BY <1>5, PairFields, BlockTypes, FieldTypes
<1> HIDE DEF k
<1> QED
  BY <1>5, <1>6, NfcType, UpdateWindowType

(* nfc_ncif_process_event keeps the types. *)
LEMMA ProcessType ==
  ASSUME Typed, NEW x \in Pair, NEW ch \in Choice, NEW m \in Message
  PROVE  ProcessEvent(x, m, ch) \in Pair
BY RawType, RspType, ResetNtfType DEF ProcessEvent

(* HAL_NFC_CLOSE_CPLT_EVT keeps the types. *)
LEMMA CloseType ==
  ASSUME NEW x \in Pair
  PROVE  HandleClose(x) \in Pair
<1> DEFINE n == [x.nfc EXCEPT !.nfc_state = "NFCC_POWER_OFF_SLEEP",
                              !.flags = @ \ {"POWER_OFF_SLEEP"}, !.report = "POWER_OFF"]
<1>1. "NFCC_POWER_OFF_SLEEP" \in NFC_STATE /\ "POWER_OFF" \in Report /\ "NONE" \in NFC_STATE
  BY DEF NFC_STATE, Report
<1>2. n \in ControlBlock
  <2> DEFINE f == x.nfc.flags \ {"POWER_OFF_SLEEP"}
             s == "NFCC_POWER_OFF_SLEEP"
             r == "POWER_OFF"
  <2>1. f \in SUBSET NFC_FL /\ s \in NFC_STATE /\ r \in Report
    BY <1>1, PairFields, BlockTypes
  <2> HIDE DEF f, s, r
  <2>2. [x.nfc EXCEPT !.nfc_state = s, !.flags = f, !.report = r] \in ControlBlock
    BY <2>1, PairFields, FieldTypes
  <2> QED
    BY <2>2 DEF f, s, r
<1> HIDE DEF n
<1>3. HandleClose(x) \in {x, NotifyEnableStatus(SetState(x, "NONE"), FALSE), Nfc(x, n), Disabled(x)}
  BY DEF HandleClose, n
<1> QED
  BY <1>1, <1>2, <1>3, NotifyType, SetStateType, NfcType, DisabledType

(* HAL_NFC_POST_INIT_CPLT_EVT keeps the types. *)
LEMMA PostInitType ==
  ASSUME Typed, NEW x \in Pair, NEW ok \in BOOLEAN, NEW ch \in Choice
  PROVE  HandlePostInit(x, ok, ch) \in Pair
<1> DEFINE y == IF x.nfc.nfc_state = "W4_POST_INIT_CPLT" THEN Enabled(x, ok, ch) ELSE x
           n == [y.nfc EXCEPT !.p_nci_init_rsp = FALSE]
<1>1. y \in Pair
  BY EnabledType
<1> HIDE DEF y
<1>2. n \in ControlBlock
  BY <1>1, PairFields, BlockTypes, FieldTypes
<1> HIDE DEF n
<1> QED
  BY <1>1, <1>2, NfcType DEF HandlePostInit, n, y

(* Taking the command window back keeps the types. *)
LEMMA GivenBackType ==
  ASSUME NEW x \in Pair
  PROVE  GivenBack(x) \in Pair
<1>1. NCI_MAX_CMD_WINDOW \in 0..NCI_MAX_CMD_WINDOW
  BY WindowAssumption
<1>2. [x.nfc EXCEPT !.nci_cmd_window = NCI_MAX_CMD_WINDOW, !.flags = @ \ {"CONTROL_GRANTED"}]
        \in ControlBlock
  BY <1>1, PairFields, BlockTypes, FieldTypes
<1> QED
  BY <1>2, NfcType DEF GivenBack

(* nfc_main_handle_hal_evt keeps the types. *)
LEMMA HalEvtType ==
  ASSUME Typed, NEW x \in Pair, NEW ch \in Choice, NEW m \in Message, m.mt = "EVT"
  PROVE  HandleHalEvt(x, m, ch) \in Pair
<1>1. m.op \in {"OPEN_CPLT", "CLOSE_CPLT", "POST_INIT_CPLT", "PRE_DISCOVER_CPLT",
                "REQUEST_CONTROL", "RELEASE_CONTROL", "ERROR"} /\ m.ok \in BOOLEAN
  BY MessageTypes DEF HalEvent
<1>2. Flagged(x, {"CONTROL_REQUESTED", "HAL_REQUESTED"}) \in Pair
  BY FlaggedType DEF NFC_FL
<1>3. HandlePreDiscover(x, ch) \in Pair
  BY GivenBackType, SendDiscoverType, CheckType DEF HandlePreDiscover
<1>4. HandleRelease(x, ch) \in Pair
  BY GivenBackType, CheckType DEF HandleRelease
<1>5. /\ Enabled(x, FALSE, ch) \in Pair /\ HandleClose(x) \in Pair
      /\ HandlePostInit(x, m.ok, ch) \in Pair
      /\ CheckCmdQueue(Flagged(x, {"CONTROL_REQUESTED", "HAL_REQUESTED"}), ch) \in Pair
  BY <1>1, <1>2, EnabledType, CloseType, PostInitType, CheckType
<1> QED
  BY <1>1, <1>3, <1>4, <1>5 DEF HandleHalEvt

(* Counting a call of the API keeps the types. *)
LEMMA CalledType ==
  ASSUME Typed, NEW x \in Pair, x.hal.calls < MaxCalls
  PROVE  Called(x) \in Pair
<1> DEFINE k == x.hal.calls + 1
<1>1. k \in 0..MaxCalls
  BY PairFields, HalTypes, EnvTypes
<1> HIDE DEF k
<1>2. [x.hal EXCEPT !.calls = k] \in HalBlock
  BY <1>1, PairFields DEF HalBlock
<1> QED
  BY <1>2, HalType DEF Called, k

(* Noting the request keeps the types. *)
LEMMA AskedType ==
  ASSUME NEW x \in Pair, NEW r \in Request
  PROVE  Asked(x, r) \in Pair
<1>1. [x.nfc EXCEPT !.asked = r, !.report = "none"] \in ControlBlock
  <2>1. "none" \in Report
    BY DEF Report
  <2> QED
    BY <2>1, PairFields, FieldTypes
<1> QED
  BY <1>1, NfcType DEF Asked

(* The first values are of the types. *)
LEMMA InitTypes ==
  ASSUME Typed
  PROVE  InitNfcCb \in ControlBlock /\ InitHal \in HalBlock
<1>1. InitNfcCb \in ControlBlock
  <2>1. /\ "NONE" \in NFC_STATE /\ {} \in SUBSET NFC_FL /\ NCI_MAX_CMD_WINDOW \in 0..NCI_MAX_CMD_WINDOW
        /\ <<>> \in Seq(Cmd) /\ 0 \in 0..MaxCmds /\ "none" \in Request /\ "none" \in Report
        /\ NoBack \in [to : 0..MaxCmds, answers : 0..MaxCmds]
    BY EnvTypes, WindowAssumption DEF NFC_STATE, Request, Report, NoBack
  <2> HIDE DEF NoBack
  <2> QED
    BY <2>1 DEF InitNfcCb, ControlBlock
<1>2. InitHal \in HalBlock
  BY EnvTypes DEF InitHal, HalBlock
<1> QED
  BY <1>1, <1>2

-----------------------------------------------------------------------------
(* The types hold in every state. *)
LEMMA TypeFacts ==
  ASSUME TypeOK
  PROVE  /\ Typed /\ Here \in Pair /\ Now \in Pair
         /\ Now.hal = hal /\ Now.nfc = [nfc_cb EXCEPT !.back = NoBack]
<1>1. Typed
  BY EnvAssumption DEF TypeOK, Typed
<1>2. NoBack \in [to : 0..MaxCmds, answers : 0..MaxCmds]
  BY <1>1, EnvTypes DEF NoBack
<1>3. [nfc_cb EXCEPT !.back = NoBack] \in ControlBlock
  BY <1>2 DEF TypeOK, ControlBlock
<1> QED
  BY <1>1, <1>3 DEF TypeOK, Pair, Here, Now

(* A pair that a handler returns is written back. *)
LEMMA BecomeType ==
  ASSUME TypeOK, NEW x \in Pair, Become(x)
  PROVE  TypeOK'
<1>1. env' = env /\ nfc_cb' = x.nfc /\ hal' = x.hal
  BY DEF Become
<1>2. ControlBlock' = ControlBlock
  BY <1>1 DEF ControlBlock, Cmd, UserCmds, MaxCmds
<1>3. HalBlock' = HalBlock
  BY <1>1 DEF HalBlock, Cmd, Message, UserCmds, MaxCmds, MaxCalls, MaxFaults
<1> QED
  BY <1>1, <1>2, <1>3, PairFields DEF TypeOK

(* A HAL that a step returns is written back. *)
LEMMA HalIsType ==
  ASSUME TypeOK, NEW h \in HalBlock, HalIs(h)
  PROVE  TypeOK'
<1>1. env' = env /\ nfc_cb' = nfc_cb /\ hal' = h
  BY DEF HalIs
<1>2. ControlBlock' = ControlBlock
  BY <1>1 DEF ControlBlock, Cmd, UserCmds, MaxCmds
<1>3. HalBlock' = HalBlock
  BY <1>1 DEF HalBlock, Cmd, Message, UserCmds, MaxCmds, MaxCalls, MaxFaults
<1> QED
  BY <1>1, <1>2, <1>3 DEF TypeOK

(* nfc_main_post_hal_evt keeps the types. *)
LEMMA EventType ==
  ASSUME Typed, NEW h \in HalBlock, NEW e \in HalEvent, NEW ok \in BOOLEAN
  PROVE  PostHalEvt(h, e, ok) \in HalBlock
<1> DEFINE q == Append(h.mbox, Evt(e, ok))
<1>1. Evt(e, ok) \in Message
  BY DEF Evt, Message
<1>2. q \in Seq(Message)
  BY <1>1, HalTypes
<1> HIDE DEF q
<1>3. [h EXCEPT !.mbox = q] \in HalBlock
  BY <1>2 DEF HalBlock
<1> QED
  BY <1>3 DEF PostHalEvt, q

(* nfc_main_hal_data_cback keeps the types. *)
LEMMA DataType ==
  ASSUME Typed, NEW h \in HalBlock, NEW m \in Message
  PROVE  HalDataCback(h, m) \in HalBlock
<1> DEFINE q == Append(h.mbox, m)
<1>2. q \in Seq(Message)
  BY HalTypes
<1> HIDE DEF q
<1>3. [h EXCEPT !.mbox = q] \in HalBlock
  BY <1>2 DEF HalBlock
<1> QED
  BY <1>3 DEF HalDataCback, q

(* The NFCC's response keeps the types. *)
LEMMA AnswerType ==
  ASSUME Typed, NEW h \in HalBlock, NEW c \in [op : StackCmd \cup UserCmds, id : 0..MaxCmds],
         NEW ok \in BOOLEAN
  PROVE  Answer(h, c, ok) \in HalBlock
<1> DEFINE b == h.ntf \/ (ok /\ c.op = "CORE_RESET" /\ NciVersion = "2_0")
<1>1. b \in BOOLEAN
  BY HalTypes
<1> HIDE DEF b
<1>2. [h EXCEPT !.ntf = b] \in HalBlock
  BY <1>1 DEF HalBlock
<1>3. Rsp(c, ok) \in Message
  BY DEF Rsp, Message
<1> QED
  BY <1>2, <1>3, DataType DEF Answer, b

(* A fault is counted, within the bound. *)
LEMMA FaultType ==
  ASSUME TypeOK, NEW f, MayFail(f), NEW h \in HalBlock, h.faults = hal.faults
  PROVE  [h EXCEPT !.faults = @ + 1] \in HalBlock /\ hal.faults + 1 \in 0..MaxFaults
<1> DEFINE k == hal.faults + 1
<1>1. k \in 0..MaxFaults
  BY TypeFacts, EnvTypes, HalTypes DEF MayFail, TypeOK
<1> HIDE DEF k
<1>2. [h EXCEPT !.faults = k] \in HalBlock
  BY <1>1 DEF HalBlock
<1> QED
  BY <1>1, <1>2 DEF k

-----------------------------------------------------------------------------
(* Each action keeps the types. *)
LEMMA ReadyType == ASSUME TypeOK, TransportReady PROVE TypeOK'
<1> PICK ch \in Choice :
      Become(Send(SetState(Hal(Now, [hal EXCEPT !.ready = FALSE]), "CORE_INIT"), "CORE_RESET", ch))
  BY DEF TransportReady
<1>1. [hal EXCEPT !.ready = FALSE] \in HalBlock
  BY DEF TypeOK, HalBlock
<1>2. SetState(Hal(Now, [hal EXCEPT !.ready = FALSE]), "CORE_INIT") \in Pair
  BY <1>1, TypeFacts, HalType, SetStateType DEF NFC_STATE
<1> QED
  BY <1>2, TypeFacts, SendType, BecomeType DEF StackCmd

(* NFC_TASK reads a message of its mailbox. *)
LEMMA ReadMboxType == ASSUME TypeOK, ReadMbox PROVE TypeOK'
<1> DEFINE m == Head(hal.mbox)
           x == Hal(Now, [hal EXCEPT !.mbox = Tail(@)])
<1> PICK ch \in Choice :
      Become(IF m.mt = "EVT" THEN HandleHalEvt(x, m, ch) ELSE ProcessEvent(x, m, ch))
  BY DEF ReadMbox
<1>1. m \in Message /\ [hal EXCEPT !.mbox = Tail(@)] \in HalBlock
  <2> DEFINE q == Tail(hal.mbox)
  <2>1. m \in Message /\ q \in Seq(Message)
    BY HalTypes DEF TypeOK, ReadMbox
  <2> HIDE DEF q
  <2>2. [hal EXCEPT !.mbox = q] \in HalBlock
    BY <2>1 DEF TypeOK, HalBlock
  <2> QED
    BY <2>1, <2>2 DEF q
<1>2. x \in Pair
  BY <1>1, TypeFacts, HalType
<1> HIDE DEF x, m
<1> QED
  BY <1>1, <1>2, TypeFacts, HalEvtType, ProcessType, BecomeType

(* The response timer expires, whatever else the HAL has done. *)
LEMMA TimerType == ASSUME TypeOK, NEW h \in HalBlock, TimeoutBut(h) PROVE TypeOK'
<1> PICK ch \in Choice : Become(CmdTimeout(Hal(Now, h), ch))
  BY DEF TimeoutBut
<1> QED
  BY TypeFacts, HalType, TimeoutType, BecomeType

(* The timeouts of NFC_TASK. *)
LEMMA TimeoutsType == ASSUME TypeOK, WaitRspTimeout \/ EarlyTimeout PROVE TypeOK'
<1>1. hal \in HalBlock
  BY DEF TypeOK
<1>2. CASE WaitRspTimeout
  BY <1>1, <1>2, TimerType DEF WaitRspTimeout
<1>3. CASE EarlyTimeout
  BY <1>1, <1>3, FaultType, TimerType DEF EarlyTimeout
<1> QED
  BY <1>2, <1>3

(* NFC_Enable. *)
LEMMA EnableType == ASSUME TypeOK, NfcEnable PROVE TypeOK'
<1> DEFINE n == [InitNfcCb EXCEPT !.p_resp_cback = TRUE, !.asked = "ENABLE"]
           k == hal.calls + 1
           h == [hal EXCEPT !.calls = @ + 1, !.mbox = <<>>, !.ready = FALSE]
<1>1. n \in ControlBlock
  <2> DEFINE a == InitNfcCb
             r == "ENABLE"
  <2>1. a \in ControlBlock /\ r \in Request
    BY TypeFacts, InitTypes DEF Request
  <2> HIDE DEF a, r
  <2>2. [a EXCEPT !.p_resp_cback = TRUE, !.asked = r] \in ControlBlock
    BY <2>1 DEF ControlBlock
  <2> QED
    BY <2>2 DEF a, r
<1>2. h \in HalBlock
  <2>1. k \in 0..MaxCalls /\ <<>> \in Seq(Message)
    BY TypeFacts, HalTypes, EnvTypes DEF TypeOK, NfcEnable
  <2> HIDE DEF k
  <2>2. [hal EXCEPT !.calls = k, !.mbox = <<>>, !.ready = FALSE] \in HalBlock
    BY <2>1 DEF TypeOK, HalBlock
  <2> QED
    BY <2>2 DEF k
<1>3. Become(HalOpen([nfc |-> n, hal |-> h]))
  BY DEF NfcEnable
<1> HIDE DEF n, h
<1>4. [nfc |-> n, hal |-> h] \in Pair
  BY <1>1, <1>2 DEF Pair
<1> QED
  BY <1>3, <1>4, OpenCloseType, BecomeType

(* NFC_Disable. *)
LEMMA DisableType == ASSUME TypeOK, NfcDisable PROVE TypeOK'
<1> DEFINE x == Asked(Now, "DISABLE")
<1>1. x \in Pair
  BY TypeFacts, AskedType DEF Request
<1>2. Become(Disable(x))
  BY DEF NfcDisable
<1> HIDE DEF x
<1> QED
  BY <1>1, <1>2, StopType, BecomeType

(* A call of the API leaves the control block to the call. *)
LEMMA CalledNow == ASSUME TypeOK, hal.calls < MaxCalls PROVE Called(Now) \in Pair /\ Called(Now).nfc = Now.nfc
BY TypeFacts, CalledType DEF Called, Hal

(* NFC_DiscoveryStart. *)
LEMMA DiscoveryType == ASSUME TypeOK, NfcDiscoveryStart PROVE TypeOK'
<1> DEFINE x == Flagged(Called(Now), {"DISCOVER_PENDING", "CONTROL_REQUESTED"})
           n == [x.nfc EXCEPT !.p_disc_pending = TRUE]
<1>1. PICK ch \in Choice : \/ Become(CheckCmdQueue(Nfc(x, n), ch)) \/ Become(x)
  BY DEF NfcDiscoveryStart
<1>2. x \in Pair
  BY CalledNow, FlaggedType DEF NfcDiscoveryStart, MayCall, NFC_FL
<1> HIDE DEF x
<1>3. n \in ControlBlock
  BY <1>2, PairFields, BlockTypes, FieldTypes
<1> HIDE DEF n
<1> QED
  BY <1>1, <1>2, <1>3, NfcType, TypeFacts, CheckType, BecomeType

(* NFC_Deactivate. *)
LEMMA DeactivateType == ASSUME TypeOK, NfcDeactivate PROVE TypeOK'
<1> DEFINE x == Called(Now)
           m == Now.nfc
           f == m.flags \ ({"DISCOVER_PENDING"} \cup
                            IF "HAL_REQUESTED" \in m.flags THEN {} ELSE {"CONTROL_REQUESTED"})
           n == [m EXCEPT !.flags = f, !.p_disc_pending = FALSE]
<1>1. PICK ch \in Choice : \/ Become(Nfc(x, n)) \/ Become(Send(x, "DEACTIVATE", ch))
  BY DEF NfcDeactivate
<1>2. x \in Pair /\ m \in ControlBlock
  BY TypeFacts, PairFields, CalledNow DEF NfcDeactivate, MayCall
<1>3. f \in SUBSET NFC_FL
  BY <1>2, BlockTypes
<1> HIDE DEF x, m, f
<1>4. n \in ControlBlock
  BY <1>2, <1>3, FieldTypes
<1> HIDE DEF n
<1>5. Nfc(x, n) \in Pair
  BY <1>2, <1>4, NfcType
<1> QED
  BY <1>1, <1>2, <1>5, TypeFacts, SendType, BecomeType DEF StackCmd

(* NFC_SendVsCommand and NFC_SendRawVsCommand. *)
LEMMA VsCommandType == ASSUME TypeOK, NfcSendVsCommand PROVE TypeOK'
<1> DEFINE k == hal.cmds + 1
           h == [hal EXCEPT !.cmds = k]
<1>1. PICK op \in UserCmds, ch \in Choice : Become(SendCmd(Hal(Now, h), [op |-> op, id |-> k], ch))
  BY DEF NfcSendVsCommand
<1>2. k \in 0..MaxCmds /\ k \in 1..MaxCmds
  BY TypeFacts, HalTypes, EnvTypes DEF TypeOK, NfcSendVsCommand
<1> HIDE DEF k
<1>3. h \in HalBlock
  BY <1>2 DEF TypeOK, HalBlock
<1> HIDE DEF h
<1>4. Hal(Now, h) \in Pair /\ [op |-> op, id |-> k] \in Cmd
  BY <1>2, <1>3, TypeFacts, HalType DEF Cmd
<1> QED
  BY <1>1, <1>4, TypeFacts, SendCmdType, BecomeType

(* NFC_SetPowerOffSleep and NFC_PowerCycleNFCC. *)
LEMMA PowerType == ASSUME TypeOK, NfcSetPowerOffSleep \/ NfcPowerCycleNFCC PROVE TypeOK'
<1> DEFINE x(f, r) == Asked(Flagged(Called(Now), {f}), r)
<1>1. hal.calls < MaxCalls
  BY DEF NfcSetPowerOffSleep, NfcPowerCycleNFCC, MayCall
<1>2. \A f \in NFC_FL, r \in Request : x(f, r) \in Pair
  BY <1>1, CalledNow, FlaggedType, AskedType
<1>3. \/ Become(HalOpen(x("RESTARTING", "RESTART")))
      \/ Become(ShutdownNfcc(x("POWER_OFF_SLEEP", "POWER_OFF")))
      \/ Become(ShutdownNfcc(x("POWER_CYCLE_NFCC", "RESTART")))
  BY DEF NfcSetPowerOffSleep, NfcPowerCycleNFCC
<1> HIDE DEF x
<1>4. /\ x("RESTARTING", "RESTART") \in Pair /\ x("POWER_OFF_SLEEP", "POWER_OFF") \in Pair
      /\ x("POWER_CYCLE_NFCC", "RESTART") \in Pair
  BY <1>2 DEF NFC_FL, Request
<1> QED
  BY <1>3, <1>4, OpenCloseType, ShutdownType, BecomeType

(* The HAL reports that the transport is open, or is not. *)
LEMMA OpenCpltType == ASSUME TypeOK, HalOpenCplt PROVE TypeOK'
<1> DEFINE l(ok) == IF ok THEN "OPEN" ELSE "CLOSED"
           f(ok) == IF ok THEN hal.faults ELSE hal.faults + 1
           h(ok) == [hal EXCEPT !.link = l(ok), !.faults = f(ok)]
<1>1. PICK ok \in BOOLEAN :
        /\ ok \/ MayFail("open")
        /\ HalIs(IF nfc_cb.nfc_state # "W4_HAL_OPEN" THEN h(ok)
                 ELSE IF ok THEN [h(ok) EXCEPT !.ready = TRUE]
                 ELSE PostHalEvt(h(ok), "OPEN_CPLT", FALSE))
  BY DEF HalOpenCplt
<1>2. l(ok) \in {"CLOSED", "OPENING", "OPEN", "CLOSING"} /\ f(ok) \in 0..MaxFaults
  BY <1>1, FaultType, HalTypes DEF TypeOK
<1> HIDE DEF l, f
<1>3. h(ok) \in HalBlock
  BY <1>2 DEF TypeOK, HalBlock
<1> HIDE DEF h
<1>4. [h(ok) EXCEPT !.ready = TRUE] \in HalBlock
  BY <1>3 DEF HalBlock
<1>5. PostHalEvt(h(ok), "OPEN_CPLT", FALSE) \in HalBlock
  BY <1>3, TypeFacts, EventType DEF HalEvent
<1> QED
  BY <1>1, <1>3, <1>4, <1>5, HalIsType

(* The HAL reports that the transport is closed. *)
LEMMA CloseCpltType == ASSUME TypeOK, HalCloseCplt PROVE TypeOK'
<1>1. [hal EXCEPT !.link = "CLOSED"] \in HalBlock
  BY DEF TypeOK, HalBlock
<1>2. PostHalEvt([hal EXCEPT !.link = "CLOSED"], "CLOSE_CPLT", TRUE) \in HalBlock
  BY <1>1, TypeFacts, EventType DEF HalEvent
<1> QED
  BY <1>2, HalIsType DEF HalCloseCplt

(* The NFCC answers a command, of the stack or of a recovery. *)
LEMMA AnswersType == ASSUME TypeOK, HalRsp \/ HalRecovered PROVE TypeOK'
<1> DEFINE p == Tail(hal.pending)
           r == Tail(hal.recovered)
           h == [hal EXCEPT !.pending = p]
           k == [hal EXCEPT !.recovered = r]
           Resent == [op : StackCmd \cup UserCmds, id : 0..MaxCmds]
<1>1. CASE HalRsp
  <2>1. p \in Seq(Cmd) /\ Head(hal.pending) \in Cmd
    BY <1>1, HalTypes DEF TypeOK, HalRsp
  <2>2. Head(hal.pending) \in Resent
    BY <2>1, TypeFacts, EnvTypes DEF Cmd
  <2> HIDE DEF p
  <2>3. h \in HalBlock /\ h.faults = hal.faults
    BY <2>1 DEF TypeOK, HalBlock
  <2>4. \/ HalIs(Answer(h, Head(hal.pending), TRUE))
        \/ \E f : MayFail(f) /\ HalIs(Answer([h EXCEPT !.faults = @ + 1], Head(hal.pending), FALSE))
        \/ MayFail("lost_rsp") /\ HalIs([h EXCEPT !.faults = @ + 1])
    BY <1>1 DEF HalRsp, p
  <2> HIDE DEF h
  <2> QED
    BY <2>2, <2>3, <2>4, TypeFacts, AnswerType, FaultType, HalIsType
<1>2. CASE HalRecovered
  <2>0. hal.recovered \in Seq(Resent) /\ hal.recovered # <<>>
    BY <1>2, HalTypes DEF TypeOK, HalRecovered
  <2>1. r \in Seq(Resent) /\ Head(hal.recovered) \in Resent
    <3> HIDE DEF Resent
    <3> QED
      BY <2>0
  <2>2. HalIs(Answer(k, Head(hal.recovered), TRUE))
    BY <1>2 DEF HalRecovered
  <2> HIDE DEF r
  <2>3. k \in HalBlock
    BY <2>1 DEF TypeOK, HalBlock
  <2> HIDE DEF k
  <2> QED
    BY <2>1, <2>2, <2>3, TypeFacts, AnswerType, HalIsType
<1> QED
  BY <1>1, <1>2

(* Notifications are messages. *)
LEMMA NtfType ==
  ASSUME NEW op \in {"CORE_RESET", "OTHER"}, NEW ok \in BOOLEAN
  PROVE  Ntf(op, ok) \in Message
BY DEF Ntf, Message

(* The NFCC's notifications. *)
LEMMA NotificationsType == ASSUME TypeOK, HalResetNtf \/ HalStrayNtf PROVE TypeOK'
<1> DEFINE k == hal.faults + 1
<1>1. CASE HalResetNtf
  <2> DEFINE h == [hal EXCEPT !.ntf = FALSE]
  <2>1. h \in HalBlock /\ h.faults = hal.faults
    BY DEF TypeOK, HalBlock
  <2>2. \/ HalIs(HalDataCback(h, Ntf("CORE_RESET", TRUE)))
        \/ MayFail("lost_ntf") /\ HalIs([h EXCEPT !.faults = @ + 1])
    BY <1>1 DEF HalResetNtf, TypeOK, HalBlock
  <2> HIDE DEF h
  <2> QED
    BY <2>1, <2>2, NtfType, DataType, FaultType, HalIsType, TypeFacts
<1>2. CASE HalStrayNtf
  <2> DEFINE a == [hal EXCEPT !.faults = k]
             b == [hal EXCEPT !.faults = k, !.pending = <<>>]
  <2>1. \/ HalIs(HalDataCback(a, Ntf("OTHER", TRUE)))
        \/ HalIs(HalDataCback(b, Ntf("CORE_RESET", FALSE)))
    BY <1>2 DEF HalStrayNtf
  <2>2. k \in 0..MaxFaults /\ <<>> \in Seq(Cmd)
    <3>1. PICK f \in {"stray", "reset"} : MayFail(f)
      BY <1>2 DEF HalStrayNtf
    <3>2. hal \in HalBlock /\ <<>> \in Seq(Cmd)
      BY DEF TypeOK
    <3> QED
      BY <3>1, <3>2, FaultType
  <2> HIDE DEF k
  <2>3. a \in HalBlock /\ b \in HalBlock
    BY <2>2 DEF TypeOK, HalBlock
  <2> HIDE DEF a, b
  <2> QED
    BY <2>1, <2>3, NtfType, DataType, HalIsType, TypeFacts
<1> QED
  BY <1>1, <1>2

(* The other events of the HAL. *)
LEMMA HalEventsType == ASSUME TypeOK, HalJobDone \/ HalRequestControl \/ HalError PROVE TypeOK'
<1>1. CASE HalJobDone
  <2> DEFINE f(ok) == IF ok THEN hal.faults ELSE hal.faults + 1
             h(ok) == [hal EXCEPT !.job = "none", !.faults = f(ok)]
  <2>1. PICK ok \in BOOLEAN : /\ ok \/ MayFail("post_init")
                              /\ HalIs(PostHalEvt(h(ok), JobDone(hal.job), ok))
    BY <1>1 DEF HalJobDone
  <2>2. f(ok) \in 0..MaxFaults /\ "none" \in {"none", "post_init", "prediscover", "granted"}
    BY <2>1, FaultType, HalTypes DEF TypeOK
  <2> HIDE DEF f
  <2>3. h(ok) \in HalBlock
    BY <2>2 DEF TypeOK, HalBlock
  <2>4. JobDone(hal.job) \in HalEvent
    BY <1>1, HalTypes DEF TypeOK, HalJobDone, JobDone, HalEvent
  <2> HIDE DEF h
  <2> QED
    BY <2>1, <2>3, <2>4, EventType, HalIsType, TypeFacts
<1>2. CASE HalRequestControl
  <2> DEFINE k == hal.calls + 1
             h == [hal EXCEPT !.calls = k]
  <2>1. HalIs(PostHalEvt(h, "REQUEST_CONTROL", TRUE))
    BY <1>2 DEF HalRequestControl
  <2>2. k \in 0..MaxCalls
    BY <1>2, TypeFacts, HalTypes, EnvTypes DEF TypeOK, HalRequestControl, MayCall
  <2> HIDE DEF k
  <2>3. h \in HalBlock
    BY <2>2 DEF TypeOK, HalBlock
  <2> HIDE DEF h
  <2> QED
    BY <2>1, <2>3, EventType, HalIsType, TypeFacts DEF HalEvent
<1>3. CASE HalError
  <2>1. [hal EXCEPT !.faults = @ + 1] \in HalBlock
    BY <1>3, FaultType DEF HalError, TypeOK
  <2> QED
    BY <1>3, <2>1, EventType, HalIsType, TypeFacts DEF HalError, HalEvent
<1> QED
  BY <1>1, <1>2, <1>3

(* Every step keeps the types. *)
LEMMA NextType == TypeOK /\ [Next]_vars => TypeOK'
<1> SUFFICES ASSUME TypeOK, [Next]_vars PROVE TypeOK'
  OBVIOUS
<1>1. CASE UNCHANGED vars
  BY <1>1 DEF vars, TypeOK, ControlBlock, HalBlock, Cmd, Message, UserCmds, MaxCmds, MaxCalls, MaxFaults
<1>2. CASE Task
  BY <1>2, ReadyType, ReadMboxType, TimeoutsType DEF Task
<1>3. CASE EarlyTimeout
  BY <1>3, TimeoutsType
<1>4. CASE Api
  BY <1>4, EnableType, DisableType, DiscoveryType, DeactivateType, VsCommandType, PowerType DEF Api
<1>5. CASE Answers
  BY <1>5, OpenCpltType, CloseCpltType, AnswersType, NotificationsType, HalEventsType DEF Answers
<1>6. CASE HalStrayNtf \/ HalRequestControl \/ HalError
  BY <1>6, NotificationsType, HalEventsType
<1> QED
  BY <1>1, <1>2, <1>3, <1>4, <1>5, <1>6 DEF Next

(* The types hold at first. *)
LEMMA InitType == Init => TypeOK
BY InitTypes, EnvAssumption DEF Init, TypeOK, Typed

-----------------------------------------------------------------------------
(* Messages of a kind in a mailbox. *)
LEMMA NoneAppend ==
  ASSUME NEW T, NEW S, NEW q \in Seq(T), NEW m \in T, None(q, S)
  PROVE  /\ m \notin S => None(Append(q, m), S)
         /\ m \in S => Once(Append(q, m), S)
<1> DEFINE r == Append(q, m)
<1>1. /\ Len(r) = Len(q) + 1 /\ Len(q) \in Nat /\ DOMAIN r = 1..Len(r) /\ DOMAIN q = 1..Len(q)
      /\ \A i \in 1..Len(q) : r[i] = q[i]
      /\ r[Len(q) + 1] = m
  BY AppendProperties, LenProperties
<1> HIDE DEF r
<1>2. \A i \in DOMAIN r : i \in DOMAIN q \/ i = Len(q) + 1
  BY <1>1
<1>3. ASSUME m \notin S PROVE None(r, S)
  BY <1>1, <1>2, <1>3 DEF None
<1>4. ASSUME m \in S PROVE Once(r, S)
  <2>1. Len(q) + 1 \in DOMAIN r /\ Len(q) + 1 \notin DOMAIN q
    BY <1>1
  <2>2. \A j \in DOMAIN r : r[j] \in S <=> j = Len(q) + 1
    BY <1>1, <1>2, <1>4, <2>1 DEF None
  <2> QED
    BY <2>1, <2>2 DEF Once
<1> QED
  BY <1>3, <1>4 DEF r

(* A message of another kind leaves the one of a kind alone. *)
LEMMA OnceAppend ==
  ASSUME NEW T, NEW S, NEW q \in Seq(T), NEW m \in T, Once(q, S), m \notin S
  PROVE  Once(Append(q, m), S)
<1> DEFINE r == Append(q, m)
<1>1. /\ Len(r) = Len(q) + 1 /\ Len(q) \in Nat /\ DOMAIN r = 1..Len(r) /\ DOMAIN q = 1..Len(q)
      /\ \A i \in 1..Len(q) : r[i] = q[i]
      /\ r[Len(q) + 1] = m
  BY AppendProperties, LenProperties
<1> HIDE DEF r
<1>2. \A i \in DOMAIN r : i \in DOMAIN q \/ i = Len(q) + 1
  BY <1>1
<1>3. PICK i \in DOMAIN q : \A j \in DOMAIN q : q[j] \in S <=> j = i
  BY DEF Once
<1>4. i \in DOMAIN r /\ i # Len(q) + 1
  BY <1>1
<1>5. \A j \in DOMAIN r : r[j] \in S <=> j = i
  BY <1>1, <1>2, <1>3, <1>4
<1> QED
  BY <1>4, <1>5 DEF Once, r

(* The messages left when the first is read. *)
LEMMA TailIndex ==
  ASSUME NEW T, NEW q \in Seq(T), q # <<>>
  PROVE  /\ 1 \in DOMAIN q /\ q[1] = Head(q) /\ Tail(q) \in Seq(T)
         /\ \A i \in DOMAIN Tail(q) : i + 1 \in DOMAIN q /\ Tail(q)[i] = q[i + 1] /\ i \in Nat /\ i # 0
         /\ \A j \in DOMAIN q : j # 1 => j - 1 \in DOMAIN Tail(q) /\ j = (j - 1) + 1
<1> DEFINE r == Tail(q)
<1>1. /\ Len(q) \in Nat /\ Len(q) # 0 /\ DOMAIN q = 1..Len(q) /\ r \in Seq(T) /\ Len(r) = Len(q) - 1
      /\ DOMAIN r = 1..Len(r) /\ \A i \in 1..Len(r) : r[i] = q[i + 1]
  BY LenProperties, EmptySeq, HeadTailProperties
<1>2. q[1] = Head(q)
  BY HeadTailProperties
<1> DEFINE k == Len(q)
<1>3. k \in Nat /\ k # 0 /\ DOMAIN q = 1..k /\ DOMAIN r = 1..(k - 1) /\ \A i \in 1..(k - 1) : r[i] = q[i + 1]
  BY <1>1
<1> HIDE DEF k, r
<1>4. /\ 1 \in DOMAIN q
      /\ \A i \in DOMAIN r : i + 1 \in DOMAIN q /\ r[i] = q[i + 1] /\ i \in Nat /\ i # 0
      /\ \A j \in DOMAIN q : j # 1 => j - 1 \in DOMAIN r /\ j = (j - 1) + 1
  BY <1>3
<1> QED
  BY <1>1, <1>2, <1>4 DEF r

(* Reading a message when none is of the kind. *)
LEMMA NoneTail ==
  ASSUME NEW T, NEW S, NEW q \in Seq(T), q # <<>>, None(q, S)
  PROVE  Head(q) \notin S /\ None(Tail(q), S)
BY TailIndex DEF None

(* Reading a message when one is of the kind. *)
LEMMA OnceTail ==
  ASSUME NEW T, NEW S, NEW q \in Seq(T), q # <<>>, Once(q, S)
  PROVE  /\ Head(q) \in S => None(Tail(q), S)
         /\ Head(q) \notin S => Once(Tail(q), S)
<1>1. PICK i \in DOMAIN q : \A j \in DOMAIN q : q[j] \in S <=> j = i
  BY DEF Once
<1>2. ASSUME Head(q) \in S PROVE None(Tail(q), S)
  <2>1. i = 1
    BY <1>1, <1>2, TailIndex
  <2>2. \A j \in DOMAIN Tail(q) : j + 1 \in DOMAIN q /\ j + 1 # 1 /\ Tail(q)[j] = q[j + 1]
    BY TailIndex
  <2> QED
    BY <1>1, <2>1, <2>2 DEF None
<1>3. ASSUME Head(q) \notin S PROVE Once(Tail(q), S)
  <2>1. i # 1 /\ i - 1 \in DOMAIN Tail(q) /\ i = (i - 1) + 1
    BY <1>1, <1>3, TailIndex
  <2>2. \A j \in DOMAIN Tail(q) : (j + 1 = i) <=> (j = i - 1)
    BY <2>1, TailIndex
  <2>3. \A j \in DOMAIN Tail(q) : Tail(q)[j] \in S <=> j = i - 1
    BY <1>1, <2>2, TailIndex
  <2> QED
    BY <2>1, <2>3 DEF Once
<1> QED
  BY <1>2, <1>3

(* None and one exclude each other. *)
LEMMA NotBoth ==
  ASSUME NEW q, NEW S
  PROVE  ~(None(q, S) /\ Once(q, S)) /\ None(<<>>, S)
BY DEF None, Once

-----------------------------------------------------------------------------
(* A step of the stack on the channel. *)
Ran == {"CORE_INIT", "W4_POST_INIT_CPLT", "IDLE", "NONE"}

(* It touches neither the mailbox nor the transport. *)
Near(x, y) ==
    /\ y \in Pair
    /\ "RESTARTING" \in y.nfc.flags => "RESTARTING" \in x.nfc.flags
    /\ y.nfc.rawVsCbflag => (x.nfc.rawVsCbflag \/ "RAW" \in UserCmds)
    /\ y.hal.mbox = x.hal.mbox /\ y.hal.link = x.hal.link /\ y.hal.ready = x.hal.ready
    /\ y.hal.recovered = x.hal.recovered
    /\ x.nfc.nfc_state \in Ran => y.nfc.nfc_state \in Ran
    /\ x.hal.link # "OPEN" => y.hal = x.hal

(* It leaves the state alone, and the channel with one owner. *)
Step(x, y) ==
    /\ Near(x, y) /\ y.nfc.nfc_state = x.nfc.nfc_state
    /\ (NCI_MAX_CMD_WINDOW = 1 /\ Chan(x) /\ x.hal.link # "OPENING") => Chan(y)

(* No change is a step. *)
LEMMA NearRefl == ASSUME NEW x \in Pair PROVE Near(x, x) /\ Step(x, x)
BY DEF Near, Step

(* Steps follow one another. *)
LEMMA NearTrans == ASSUME NEW x, NEW y, NEW z, Near(x, y), Near(y, z) PROVE Near(x, z)
BY DEF Near

(* Steps that keep the state follow one another. *)
LEMMA StepTrans == ASSUME NEW x, NEW y, NEW z, Step(x, y), Step(y, z) PROVE Step(x, z)
<1>1. Near(x, z) /\ y.hal.link = x.hal.link
  BY NearTrans DEF Step, Near
<1> QED
  BY <1>1 DEF Step

(* The control block changes in what the owner does not depend on. *)
Alike(m, n) ==
    /\ n.nci_cmd_window = m.nci_cmd_window /\ (n.nci_wait_rsp_timer => m.nci_wait_rsp_timer)
    /\ n.last_hdr = m.last_hdr /\ ("CONTROL_GRANTED" \in n.flags <=> "CONTROL_GRANTED" \in m.flags)

(* Who has the channel depends on a few fields of nfc_cb. *)
LEMMA AlikeChan ==
  ASSUME NEW x, NEW y, y.hal = x.hal, Alike(x.nfc, y.nfc), Chan(x),
         x.nfc.nci_wait_rsp_timer \in BOOLEAN, y.nfc.nci_wait_rsp_timer \in BOOLEAN
  PROVE  Chan(y)
<1>1. CASE Free(x)
  BY <1>1 DEF Chan, Free, Unused, Alike
<1>2. CASE Busy(x)
  BY <1>2 DEF Chan, Busy, Alike
<1>3. CASE Lent(x)
  BY <1>3 DEF Chan, Lent, Alike
<1>4. CASE Lost(x)
  BY <1>4 DEF Chan, Lost, Unused, Alike
<1> QED
  BY <1>1, <1>2, <1>3, <1>4 DEF Chan

(* Changing the other fields is a step. *)
LEMMA NfcStep ==
  ASSUME NEW x \in Pair, NEW n \in ControlBlock, Alike(x.nfc, n),
         n.nfc_state = x.nfc.nfc_state,
         "RESTARTING" \in n.flags => "RESTARTING" \in x.nfc.flags,
         n.rawVsCbflag => x.nfc.rawVsCbflag
  PROVE  Step(x, Nfc(x, n))
<1>1. Nfc(x, n) \in Pair /\ Nfc(x, n).nfc = n /\ Nfc(x, n).hal = x.hal
  BY NfcType
<1>2. Near(x, Nfc(x, n))
  BY <1>1 DEF Near
<1>3. x.nfc.nci_wait_rsp_timer \in BOOLEAN /\ n.nci_wait_rsp_timer \in BOOLEAN
  BY PairFields, BlockTypes
<1>4. Chan(x) => Chan(Nfc(x, n))
  BY <1>1, <1>3, AlikeChan
<1> QED
  BY <1>1, <1>2, <1>4 DEF Step

(* Queueing a command is a step. *)
LEMMA EnqueueStep ==
  ASSUME NEW x \in Pair, NEW c \in Cmd
  PROVE  Step(x, Enqueue(x, c)) /\ Enqueue(x, c).hal = x.hal
         /\ Enqueue(x, c).nfc.nci_cmd_window = x.nfc.nci_cmd_window
<1> DEFINE q == Append(x.nfc.nci_cmd_xmit_q, c)
           n == [x.nfc EXCEPT !.nci_cmd_xmit_q = q]
<1>1. q \in Seq(Cmd)
  BY PairFields, BlockTypes
<1> HIDE DEF q
<1>2. n \in ControlBlock
  BY <1>1, PairFields, BlockTypes, FieldTypes
<1>3. /\ Alike(x.nfc, n) /\ n.nfc_state = x.nfc.nfc_state /\ n.flags = x.nfc.flags
      /\ n.rawVsCbflag = x.nfc.rawVsCbflag /\ n.nci_cmd_window = x.nfc.nci_cmd_window
  BY PairFields DEF ControlBlock, Alike
<1> HIDE DEF n
<1> QED
  BY <1>2, <1>3, NfcStep, NfcType DEF Enqueue, n, q

(* With the window open, the command written leaves the channel with the   *)
(* stack.                                                                  *)
LEMMA WriteHeadStep ==
  ASSUME Typed, NEW x \in Pair
  PROVE  Step(x, WriteHead(x))
<1> DEFINE n == x.nfc
           c == Head(n.nci_cmd_xmit_q)
           m == [n EXCEPT !.nci_cmd_xmit_q = Tail(@), !.last_hdr = c.op,
                            !.p_vsc_cback = IF c.id # 0 THEN c.id ELSE @,
                            !.rawVsCbflag = @ \/ c.op = "RAW",
                            !.nci_cmd_window = @ - 1, !.nci_wait_rsp_timer = TRUE]
           h == HalWrite(x.hal, c)
<1>0. CASE n.nci_cmd_window = 0 \/ n.nci_cmd_xmit_q = <<>>
  BY <1>0, NearRefl DEF WriteHead
<1> SUFFICES ASSUME n.nci_cmd_window # 0, n.nci_cmd_xmit_q # <<>>
             PROVE  Step(x, WriteHead(x))
  BY <1>0
<1>1. WriteHead(x) = [nfc |-> m, hal |-> h]
  BY DEF WriteHead
<1>2. n \in ControlBlock /\ x.hal \in HalBlock /\ WriteHead(x) \in Pair
  BY PairFields, WriteHeadType
<1>3. c \in Cmd
  BY <1>2, BlockTypes
<1>4. c.op \in StackCmd \cup UserCmds /\ (c.op = "RAW" => "RAW" \in UserCmds)
  BY <1>3 DEF Cmd, StackCmd
<1> HIDE DEF c
<1>5. /\ m.last_hdr = c.op /\ m.rawVsCbflag = (n.rawVsCbflag \/ c.op = "RAW")
      /\ m.nci_cmd_window = n.nci_cmd_window - 1 /\ m.flags = n.flags /\ m.nfc_state = n.nfc_state
  BY <1>2 DEF ControlBlock
<1>6. /\ h.mbox = x.hal.mbox /\ h.link = x.hal.link /\ h.ready = x.hal.ready /\ h.job = x.hal.job
      /\ h.recovered = x.hal.recovered /\ (x.hal.link # "OPEN" => h = x.hal)
      /\ (x.hal.link = "OPEN" => h.pending = Append(x.hal.pending, c))
  BY <1>2 DEF HalWrite, HalBlock
<1> HIDE DEF m, h
<1>7. Near(x, WriteHead(x)) /\ WriteHead(x).nfc.nfc_state = x.nfc.nfc_state
  <2> DEFINE y == WriteHead(x)
  <2>1. y \in Pair /\ y.nfc = m /\ y.hal = h
    BY <1>1, <1>2
  <2>2. /\ n.rawVsCbflag \in BOOLEAN /\ m.rawVsCbflag \in BOOLEAN
        /\ (m.rawVsCbflag => (n.rawVsCbflag \/ "RAW" \in UserCmds))
    BY <1>2, <1>4, <1>5, BlockTypes
  <2> HIDE DEF y
  <2>3. Near(x, y)
    BY <1>5, <1>6, <2>1, <2>2 DEF Near
  <2> QED
    BY <1>5, <2>1, <2>3 DEF y
<1>8. ASSUME NCI_MAX_CMD_WINDOW = 1, Chan(x), x.hal.link # "OPENING"
      PROVE  Chan(WriteHead(x))
  <2>1. n.nci_cmd_window = 1 /\ m.nci_cmd_window = 0
    BY <1>2, <1>5, <1>8, BlockTypes
  <2>2. Free(x) /\ x.hal.recovered = <<>>
    BY <1>8, <2>1 DEF Chan, Busy, Lent, Lost
  <2>3. CASE x.hal.link = "OPEN"
    <3>1. h.pending = Append(<<>>, c)
      BY <1>6, <2>2, <2>3 DEF Free, Unused
    <3>2. Len(h.pending) = 1 /\ h.pending[1] = c
      BY <3>1
    <3> QED
      BY <1>1, <1>5, <1>6, <2>1, <2>2, <3>2 DEF Chan, Busy, Free, Unused
  <2>4. CASE x.hal.link # "OPEN"
    <3>1. x.hal.link \in {"CLOSED", "CLOSING"}
      BY <1>2, <1>8, <2>4, HalTypes
    <3> QED
      BY <1>1, <1>6, <2>1, <2>2, <2>4, <3>1 DEF Chan, Lost, Free, Unused
  <2> QED
    BY <2>3, <2>4
<1> QED
  BY <1>7, <1>8 DEF Step

(* The DISCOVER sent after HAL_PRE_DISCOVER takes an open window only. *)
LEMMA SendDiscoverStep ==
  ASSUME Typed, NEW x \in Pair, NEW ch \in Choice
  PROVE  Step(x, SendDiscover(x, ch))
<1> DEFINE n == [x.nfc EXCEPT !.flags = @ \ {"DISCOVER_PENDING"}, !.p_disc_pending = FALSE]
           y == Nfc(x, n)
<1>1. n \in ControlBlock
  BY PairFields, BlockTypes, FieldTypes
<1>2. /\ Alike(x.nfc, n) /\ n.nfc_state = x.nfc.nfc_state /\ n.rawVsCbflag = x.nfc.rawVsCbflag
      /\ ("RESTARTING" \in n.flags => "RESTARTING" \in x.nfc.flags)
  BY PairFields DEF ControlBlock, Alike
<1> HIDE DEF n
<1>3. y \in Pair /\ Step(x, y)
  BY <1>1, <1>2, NfcType, NfcStep
<1> HIDE DEF y
<1>4. Enqueue(y, Internal("DISCOVER")) \in Pair /\ Step(y, Enqueue(y, Internal("DISCOVER")))
  BY <1>3, EnqueueType, EnqueueStep, InternalType DEF StackCmd
<1>5. Step(Enqueue(y, Internal("DISCOVER")), WriteHead(Enqueue(y, Internal("DISCOVER"))))
  BY <1>4, WriteHeadStep
<1>6. SendDiscover(x, ch) = IF ch.buf THEN WriteHead(Enqueue(y, Internal("DISCOVER"))) ELSE y
  BY DEF SendDiscover, y, n
<1> HIDE DEF Step
<1>7. Step(x, WriteHead(Enqueue(y, Internal("DISCOVER"))))
  BY <1>3, <1>4, <1>5, StepTrans
<1> QED
  BY <1>3, <1>6, <1>7

(* The HAL is granted an open window only, with the timer stopped. *)
LEMMA HandOverStep ==
  ASSUME Typed, NEW x \in Pair, NEW ch \in Choice
  PROVE  Step(x, HandOver(x, ch))
<1> DEFINE n == [x.nfc EXCEPT !.flags = @ \ {"CONTROL_REQUESTED"}]
           g(f) == [n EXCEPT !.flags = f \cup {"CONTROL_GRANTED"}, !.nci_cmd_window = 0]
           r(f, j) == [nfc |-> g(f), hal |-> HalStart(x.hal, j)]
<1>1. n \in ControlBlock
  BY PairFields, BlockTypes, FieldTypes
<1>2. /\ Alike(x.nfc, n) /\ n.nfc_state = x.nfc.nfc_state /\ n.rawVsCbflag = x.nfc.rawVsCbflag
      /\ n.nci_wait_rsp_timer = x.nfc.nci_wait_rsp_timer
      /\ n.flags = x.nfc.flags \ {"CONTROL_REQUESTED"}
  BY PairFields DEF ControlBlock, Alike
<1>3. \A f : /\ g(f).flags = f \cup {"CONTROL_GRANTED"} /\ g(f).nci_cmd_window = 0
             /\ g(f).nfc_state = n.nfc_state /\ g(f).rawVsCbflag = n.rawVsCbflag
             /\ g(f).nci_wait_rsp_timer = n.nci_wait_rsp_timer
  BY <1>1 DEF ControlBlock
<1>4. \A j : /\ HalStart(x.hal, j).mbox = x.hal.mbox /\ HalStart(x.hal, j).link = x.hal.link
             /\ HalStart(x.hal, j).ready = x.hal.ready
             /\ HalStart(x.hal, j).recovered = x.hal.recovered
             /\ HalStart(x.hal, j).pending = x.hal.pending
             /\ (x.hal.link # "OPEN" => HalStart(x.hal, j) = x.hal)
             /\ (x.hal.link = "OPEN" => HalStart(x.hal, j).job = j)
  BY PairFields DEF HalStart, HalBlock
<1>5. \/ HandOver(x, ch) \in {x, SendDiscover(Nfc(x, n), ch), Nfc(x, n)}
      \/ /\ x.nfc.nci_cmd_window = NCI_MAX_CMD_WINDOW
         /\ \E f \in SUBSET n.flags, j \in Control : HandOver(x, ch) = r(f, j)
  <2>1. n.flags \in SUBSET n.flags /\ n.flags \ {"HAL_REQUESTED"} \in SUBSET n.flags
        /\ "prediscover" \in Control /\ "granted" \in Control
    BY DEF Control
  <2> HIDE DEF Control
  <2> QED
    BY <2>1 DEF HandOver
<1> HIDE DEF n, g
<1>6. Step(x, Nfc(x, n)) /\ Nfc(x, n) \in Pair
  BY <1>1, <1>2, NfcStep, NfcType
<1>7. Step(x, SendDiscover(Nfc(x, n), ch))
  <2> HIDE DEF Step
  <2> QED
    BY <1>6, SendDiscoverStep, StepTrans
<1>8. ASSUME NEW f \in SUBSET n.flags, NEW j \in Control, HandOver(x, ch) = r(f, j),
             x.nfc.nci_cmd_window = NCI_MAX_CMD_WINDOW
      PROVE  Step(x, HandOver(x, ch))
  <2> DEFINE y == r(f, j)
  <2>1. /\ y.nfc.flags = f \cup {"CONTROL_GRANTED"} /\ y.nfc.nci_cmd_window = 0
        /\ y.nfc.nfc_state = x.nfc.nfc_state /\ y.nfc.rawVsCbflag = x.nfc.rawVsCbflag
        /\ y.nfc.nci_wait_rsp_timer = x.nfc.nci_wait_rsp_timer
        /\ y.hal.mbox = x.hal.mbox /\ y.hal.link = x.hal.link
        /\ y.hal.ready = x.hal.ready /\ y.hal.recovered = x.hal.recovered
        /\ y.hal.pending = x.hal.pending
        /\ (x.hal.link # "OPEN" => y.hal = x.hal)
        /\ (x.hal.link = "OPEN" => y.hal.job = j)
    BY <1>2, <1>3, <1>4
  <2>2. y \in Pair
    BY <1>8, HandOverType
  <2> HIDE DEF y
  <2>3. Near(x, y)
    BY <1>2, <2>1, <2>2 DEF Near
  <2>4. ASSUME NCI_MAX_CMD_WINDOW = 1, Chan(x), x.hal.link # "OPENING" PROVE Chan(y)
    <3>1. Free(x) /\ x.hal.recovered = <<>>
      BY <1>8, <2>4 DEF Chan, Busy, Lent, Lost
    <3>2. CASE x.hal.link = "OPEN"
      BY <2>1, <3>1, <3>2 DEF Chan, Lent, Free, Unused
    <3>3. CASE x.hal.link # "OPEN"
      <4>1. x.hal.link \in {"CLOSED", "CLOSING"}
        BY <2>4, <3>3, PairFields, HalTypes
      <4> QED
        BY <2>1, <3>1, <3>3, <4>1 DEF Chan, Lost, Free, Unused
    <3> QED
      BY <3>2, <3>3
  <2> QED
    BY <1>8, <2>1, <2>3, <2>4 DEF Step, y
<1> QED
  BY <1>5, <1>6, <1>7, <1>8, NearRefl

(* nfc_ncif_check_cmd_queue gives the channel to one side at most. *)
LEMMA CheckStep ==
  ASSUME Typed, NEW x \in Pair, NEW ch \in Choice
  PROVE  Step(x, CheckCmdQueue(x, ch))
BY WriteHeadType, WriteHeadStep, HandOverStep, StepTrans DEF CheckCmdQueue

(* So does nfc_ncif_send_cmd. *)
LEMMA SendCmdStep ==
  ASSUME Typed, NEW x \in Pair, NEW ch \in Choice, NEW c \in Cmd
  PROVE  Step(x, SendCmd(x, c, ch))
BY EnqueueType, EnqueueStep, CheckStep, StepTrans DEF SendCmd

(* So does sending a command of the stack itself. *)
LEMMA SendStep ==
  ASSUME Typed, NEW x \in Pair, NEW ch \in Choice, NEW op \in StackCmd
  PROVE  Step(x, Send(x, op, ch))
BY SendCmdStep, InternalType, NearRefl DEF Send

-----------------------------------------------------------------------------
(* Handlers of responses and notifications. *)

(* The answer has been read: nobody has the channel, but it is closed. *)
Idle(x) ==
    /\ x.hal.recovered = <<>> /\ Unused(x) /\ x.nfc.nci_cmd_window = 0
    /\ x.hal.link # "OPENING"

(* Changing fields of nfc_cb without turning the restart on. *)
LEMMA NfcNear ==
  ASSUME NEW x \in Pair, NEW n \in ControlBlock,
         "RESTARTING" \in n.flags => "RESTARTING" \in x.nfc.flags,
         n.rawVsCbflag => x.nfc.rawVsCbflag,
         x.nfc.nfc_state \in Ran => n.nfc_state \in Ran
  PROVE  /\ Nfc(x, n) \in Pair /\ Nfc(x, n).nfc = n /\ Nfc(x, n).hal = x.hal
         /\ Near(x, Nfc(x, n))
         /\ (Idle(x) /\ n.nci_cmd_window = 0) => Idle(Nfc(x, n))
<1>1. Nfc(x, n) \in Pair /\ Nfc(x, n).nfc = n /\ Nfc(x, n).hal = x.hal
  BY NfcType
<1>2. Near(x, Nfc(x, n))
  BY <1>1 DEF Near
<1> QED
  BY <1>1, <1>2 DEF Idle, Unused

(* With the window shut a command waits in the queue. *)
LEMMA SendShut ==
  ASSUME Typed, NCI_MAX_CMD_WINDOW = 1, NEW x \in Pair, Idle(x), NEW ch \in Choice,
         NEW op \in StackCmd
  PROVE  Idle(Send(x, op, ch))
<1> DEFINE y == Enqueue(x, Internal(op))
<1>1. y \in Pair /\ y.hal = x.hal /\ y.nfc.nci_cmd_window = 0
  BY EnqueueType, EnqueueStep, InternalType DEF Idle
<1> HIDE DEF y
<1>2. WriteHead(y) = y /\ HandOver(y, ch) = y
  BY <1>1 DEF WriteHead, HandOver
<1>3. Send(x, op, ch) \in {x, y}
  BY <1>2 DEF Send, SendCmd, CheckCmdQueue, y
<1>4. Idle(y)
  BY <1>1 DEF Idle, Unused
<1> QED
  BY <1>3, <1>4

(* A response read opens the window, and the next command may take it. *)
LEMMA UpdateWindowStep ==
  ASSUME Typed, NEW x \in Pair, NEW ch \in Choice
  PROVE  /\ UpdateWindow(x, ch) \in Pair /\ Near(x, UpdateWindow(x, ch))
         /\ (NCI_MAX_CMD_WINDOW = 1 /\ Idle(x)) => Chan(UpdateWindow(x, ch))
<1> DEFINE w == x.nfc.nci_cmd_window + 1
           n == [x.nfc EXCEPT !.nci_wait_rsp_timer = FALSE, !.p_vsc_cback = 0,
                              !.nci_cmd_window = w]
           y == Nfc(x, n)
<1>0. UpdateWindow(x, ch) \in Pair
  BY UpdateWindowType
<1>1. CASE x.nfc.nci_cmd_window = NCI_MAX_CMD_WINDOW
  BY <1>0, <1>1, NearRefl DEF UpdateWindow, Idle
<1> SUFFICES ASSUME x.nfc.nci_cmd_window # NCI_MAX_CMD_WINDOW
             PROVE  /\ Near(x, UpdateWindow(x, ch))
                    /\ (NCI_MAX_CMD_WINDOW = 1 /\ Idle(x)) => Chan(UpdateWindow(x, ch))
  BY <1>0, <1>1
<1>2. UpdateWindow(x, ch) = CheckCmdQueue(y, ch)
  BY DEF UpdateWindow
<1>3. w \in 0..NCI_MAX_CMD_WINDOW /\ 0 \in 0..MaxCmds /\ x.nfc \in ControlBlock
  BY PairFields, BlockTypes, EnvTypes, WindowAssumption
<1>4. (x.nfc.nci_cmd_window = 0) => w = 1
  OBVIOUS
<1> HIDE DEF w
<1>5. n \in ControlBlock
  BY <1>3, FieldTypes
<1>6. /\ n.flags = x.nfc.flags /\ n.rawVsCbflag = x.nfc.rawVsCbflag
      /\ n.nfc_state = x.nfc.nfc_state /\ n.nci_cmd_window = w /\ ~n.nci_wait_rsp_timer
  BY <1>3 DEF ControlBlock
<1> HIDE DEF n
<1>7. y \in Pair /\ y.nfc = n /\ y.hal = x.hal /\ Near(x, y)
  BY <1>5, <1>6, NfcNear
<1> HIDE DEF y
<1>8. Step(y, CheckCmdQueue(y, ch))
  BY <1>7, CheckStep
<1>9. Near(x, CheckCmdQueue(y, ch))
  BY <1>7, <1>8, NearTrans DEF Step
<1>10. ASSUME NCI_MAX_CMD_WINDOW = 1, Idle(x) PROVE Chan(CheckCmdQueue(y, ch))
  <2>1. Free(y) /\ y.hal.recovered = <<>> /\ y.hal.link # "OPENING"
    BY <1>4, <1>6, <1>7, <1>10 DEF Free, Unused, Idle
  <2> QED
    BY <1>8, <1>10, <2>1 DEF Step, Chan
<1> QED
  BY <1>2, <1>9, <1>10

(* The vendor command's callback does not touch the channel. *)
LEMMA VendorNear ==
  ASSUME Typed, NEW x \in Pair, NEW m \in Message
  PROVE  /\ VendorCallback(x, m) \in Pair /\ Near(x, VendorCallback(x, m))
         /\ VendorCallback(x, m).nfc.nfc_state = x.nfc.nfc_state
         /\ Idle(x) => Idle(VendorCallback(x, m))
<1> DEFINE b == [to |-> x.nfc.p_vsc_cback, answers |-> m.id]
           n == [x.nfc EXCEPT !.back = b]
<1>0. VendorCallback(x, m) \in Pair
  BY VendorType
<1>1. CASE x.nfc.p_vsc_cback = 0
  BY <1>0, <1>1, NearRefl DEF VendorCallback
<1>2. CASE x.nfc.p_vsc_cback # 0
  <2>1. VendorCallback(x, m) = Nfc(x, n)
    BY <1>2 DEF VendorCallback
  <2>2. b \in [to : 0..MaxCmds, answers : 0..MaxCmds]
    <3>1. x.nfc.p_vsc_cback \in 0..MaxCmds /\ m.id \in 0..MaxCmds
      BY PairFields, BlockTypes, MessageTypes
    <3> QED
      BY <3>1
  <2> HIDE DEF b
  <2>3. n \in ControlBlock
    BY <2>2, PairFields, BlockTypes, FieldTypes
  <2>4. /\ n.flags = x.nfc.flags /\ n.rawVsCbflag = x.nfc.rawVsCbflag
        /\ n.nfc_state = x.nfc.nfc_state /\ n.nci_cmd_window = x.nfc.nci_cmd_window
    BY PairFields DEF ControlBlock
  <2> HIDE DEF n
  <2> QED
    BY <1>0, <2>1, <2>3, <2>4, NfcNear DEF Idle
<1> QED
  BY <1>1, <1>2

(* The response to a raw vendor command gives the channel back. *)
LEMMA RawStep ==
  ASSUME Typed, NCI_MAX_CMD_WINDOW = 1, NEW x \in Pair, NEW m \in Message, NEW ch \in Choice,
         Idle(x)
  PROVE  LET y == RawVsRsp(x, m, ch) IN y \in Pair /\ Near(x, y) /\ Chan(y)
<1> DEFINE y == VendorCallback(x, m)
           n == [y.nfc EXCEPT !.p_vsc_cback = 0, !.rawVsCbflag = FALSE]
           u == Nfc(y, n)
           z == UpdateWindow(u, ch)
           k == [z.nfc EXCEPT !.rawVsCbflag = FALSE]
<1>1. RawVsRsp(x, m, ch) = Nfc(z, k)
  BY DEF RawVsRsp
<1>2. y \in Pair /\ Near(x, y) /\ Idle(y)
  BY VendorNear
<1> HIDE DEF y
<1>3. n \in ControlBlock
  <2>1. 0 \in 0..MaxCmds
    BY EnvTypes
  <2> QED
    BY <1>2, <2>1, PairFields, FieldTypes
<1>4. /\ n.flags = y.nfc.flags /\ ~n.rawVsCbflag
      /\ n.nfc_state = y.nfc.nfc_state /\ n.nci_cmd_window = y.nfc.nci_cmd_window
  BY <1>2, PairFields DEF ControlBlock
<1> HIDE DEF n
<1>5. u \in Pair /\ Near(y, u) /\ Idle(u)
  BY <1>2, <1>3, <1>4, NfcNear DEF Idle
<1> HIDE DEF u
<1>6. z \in Pair /\ Near(u, z) /\ Chan(z)
  BY <1>5, UpdateWindowStep
<1> HIDE DEF z
<1>7. k \in ControlBlock
  BY <1>6, PairFields, FieldTypes
<1>8. Alike(z.nfc, k) /\ k.flags = z.nfc.flags /\ ~k.rawVsCbflag /\ k.nfc_state = z.nfc.nfc_state
  BY <1>6, PairFields DEF ControlBlock, Alike
<1> HIDE DEF k
<1>9. /\ Nfc(z, k) \in Pair /\ Near(z, Nfc(z, k)) /\ Nfc(z, k).hal = z.hal
      /\ Nfc(z, k).nfc = k
  BY <1>6, <1>7, <1>8, NfcNear
<1>10. Near(x, Nfc(z, k))
  BY <1>2, <1>5, <1>6, <1>9, NearTrans
<1>11. z.nfc.nci_wait_rsp_timer \in BOOLEAN /\ k.nci_wait_rsp_timer \in BOOLEAN
  BY <1>6, <1>7, PairFields, BlockTypes
<1>12. Chan(Nfc(z, k))
  BY <1>6, <1>8, <1>9, <1>11, AlikeChan
<1> QED
  BY <1>1, <1>9, <1>10, <1>12

(* The CORE_RESET response leaves the channel to nfc_ncif_update_window. *)
LEMMA ResetRspStep ==
  ASSUME Typed, NCI_MAX_CMD_WINDOW = 1, NEW x \in Pair, NEW m, m.ok, NEW ch \in Choice, Idle(x)
  PROVE  LET y == ProcResetRsp(x, m, ch) IN Near(x, y) /\ Idle(y)
<1> DEFINE a == [x.nfc EXCEPT !.nci_wait_rsp_timer = TRUE]
           b == [x.nfc EXCEPT !.nci_version = "1_0"]
           y == Nfc(x, b)
<1>1. ProcResetRsp(x, m, ch) \in {Nfc(x, a), Send(y, "CORE_INIT", ch)}
  BY DEF ProcResetRsp
<1>2. a \in ControlBlock /\ b \in ControlBlock
  BY PairFields, FieldTypes
<1>3. \A n \in {a, b} : /\ n.flags = x.nfc.flags /\ n.rawVsCbflag = x.nfc.rawVsCbflag
         /\ n.nfc_state = x.nfc.nfc_state /\ n.nci_cmd_window = x.nfc.nci_cmd_window
  BY PairFields DEF ControlBlock
<1> HIDE DEF a, b
<1>4. \A n \in {a, b} : Nfc(x, n) \in Pair /\ Near(x, Nfc(x, n)) /\ Idle(Nfc(x, n))
  BY <1>2, <1>3, NfcNear DEF Idle
<1>5. y \in Pair /\ Near(x, y) /\ Idle(y)
  BY <1>4
<1> HIDE DEF y
<1>6. Near(x, Send(y, "CORE_INIT", ch)) /\ Idle(Send(y, "CORE_INIT", ch))
  BY <1>5, SendShut, SendStep, NearTrans DEF Step, StackCmd
<1> QED
  BY <1>1, <1>4, <1>6

(* So does the CORE_INIT response, which starts the HAL's post-init. *)
LEMMA InitRspStep ==
  ASSUME Typed, NEW x \in Pair, NEW m, m.ok, NEW ch \in Choice, Idle(x), x.nfc.nfc_state \in Ran
  PROVE  LET y == ProcInitRsp(x, m, ch) IN Near(x, y) /\ Idle(y)
<1> DEFINE n == [x.nfc EXCEPT !.nfc_state = "W4_POST_INIT_CPLT", !.p_nci_init_rsp = TRUE]
           h == HalStart(x.hal, "post_init")
           y == ProcInitRsp(x, m, ch)
<1>1. y = [nfc |-> n, hal |-> h] /\ y \in Pair
  BY InitRspType DEF ProcInitRsp
<1>2. /\ n.flags = x.nfc.flags /\ n.rawVsCbflag = x.nfc.rawVsCbflag
      /\ n.nfc_state = "W4_POST_INIT_CPLT" /\ n.nci_cmd_window = x.nfc.nci_cmd_window
  BY PairFields DEF ControlBlock
<1>3. /\ h.mbox = x.hal.mbox /\ h.link = x.hal.link /\ h.ready = x.hal.ready
      /\ h.recovered = x.hal.recovered /\ h.pending = x.hal.pending
      /\ (x.hal.link # "OPEN" => h = x.hal) /\ h.job \in {x.hal.job, "post_init"}
  BY PairFields DEF HalStart, HalBlock
<1> HIDE DEF n, h
<1>4. y.nfc = n /\ y.hal = h
  BY <1>1
<1> HIDE DEF y
<1>5. Near(x, y)
  BY <1>1, <1>2, <1>3, <1>4 DEF Near, Ran
<1>6. Idle(y)
  BY <1>2, <1>3, <1>4 DEF Idle, Unused, Control
<1> QED
  BY <1>5, <1>6 DEF y

(* The response to the last command gives the channel back. *)
LEMMA RspStep ==
  ASSUME Typed, NCI_MAX_CMD_WINDOW = 1, NEW x \in Pair, NEW m \in Message, m.mt = "RSP", m.ok,
         NEW ch \in Choice, Idle(x), m.op = x.nfc.last_hdr, x.nfc.nfc_state \in Ran
  PROVE  LET y == ProcRsp(x, m, ch) IN y \in Pair /\ Near(x, y) /\ Chan(y)
<1> DEFINE d == [x.nfc EXCEPT !.disc_on = TRUE]
           o == x.nfc.disc_on /\ ~ch.idle
           e == [x.nfc EXCEPT !.disc_on = o]
           z == CASE m.op = "CORE_RESET" -> ProcResetRsp(x, m, ch)
                  [] m.op = "CORE_INIT"  -> ProcInitRsp(x, m, ch)
                  [] m.op \in UserCmds   -> VendorCallback(x, m)
                  [] m.op = "DISCOVER"   -> Nfc(x, d)
                  [] m.op = "DEACTIVATE" -> Nfc(x, e)
                  [] m.op = "DISCOVER_MAP" -> x
           k == [z.nfc EXCEPT !.last_hdr = "NONE"]
<1>1. m.op \in StackCmd \cup UserCmds /\ UserCmds \subseteq {"VSC", "RAW"}
  BY MessageTypes, EnvTypes
<1>2. m.op # "NONE"
  BY <1>1 DEF StackCmd
<1>3. ProcRsp(x, m, ch) = UpdateWindow(Nfc(z, k), ch)
  BY <1>2 DEF ProcRsp
<1> HIDE DEF o
<1>4. z \in Pair /\ Near(x, z) /\ Idle(z)
  <2>0. o \in BOOLEAN
    BY DEF o
  <2>1. d \in ControlBlock /\ e \in ControlBlock
    BY <2>0, PairFields, FieldTypes
  <2>2. \A n \in {d, e} : /\ n.flags = x.nfc.flags /\ n.rawVsCbflag = x.nfc.rawVsCbflag
           /\ n.nfc_state = x.nfc.nfc_state /\ n.nci_cmd_window = x.nfc.nci_cmd_window
    BY PairFields DEF ControlBlock
  <2> HIDE DEF d, e
  <2>3. \A n \in {d, e} : Nfc(x, n) \in Pair /\ Near(x, Nfc(x, n)) /\ Idle(Nfc(x, n))
    BY <2>1, <2>2, NfcNear DEF Idle
  <2>4. \A y \in {ProcResetRsp(x, m, ch), ProcInitRsp(x, m, ch), VendorCallback(x, m), x} :
           y \in Pair /\ Near(x, y) /\ Idle(y)
    BY ResetRspStep, ResetRspType, InitRspStep, InitRspType, VendorNear, NearRefl
  <2>5. z \in {ProcResetRsp(x, m, ch), ProcInitRsp(x, m, ch), VendorCallback(x, m), x, Nfc(x, d), Nfc(x, e)}
    BY <1>1 DEF StackCmd
  <2> HIDE DEF z
  <2> QED
    BY <2>3, <2>4, <2>5
<1> HIDE DEF z
<1>5. k \in ControlBlock
  BY <1>4, PairFields, FieldTypes
<1>6. /\ k.flags = z.nfc.flags /\ k.rawVsCbflag = z.nfc.rawVsCbflag
      /\ k.nfc_state = z.nfc.nfc_state /\ k.nci_cmd_window = z.nfc.nci_cmd_window
  BY <1>4, PairFields DEF ControlBlock
<1> HIDE DEF k
<1>7. Nfc(z, k) \in Pair /\ Near(z, Nfc(z, k)) /\ Idle(Nfc(z, k))
  BY <1>4, <1>5, <1>6, NfcNear DEF Idle
<1> QED
  BY <1>3, <1>4, <1>7, UpdateWindowStep, NearTrans

(* A CORE_RESET notification of the boot sends CORE_INIT in turn. *)
LEMMA ResetNtfStep ==
  ASSUME Typed, NEW x \in Pair, NEW m \in Message, m.ok, NEW ch \in Choice
  PROVE  Step(x, ProcResetNtf(x, m, ch))
<1> DEFINE n == [x.nfc EXCEPT !.nci_wait_rsp_timer = FALSE, !.nci_version = "2_0"]
           y == Nfc(x, n)
<1>1. ProcResetNtf(x, m, ch) = Send(y, "CORE_INIT", ch)
  BY DEF ProcResetNtf
<1>2. n \in ControlBlock
  BY PairFields, BlockTypes, FieldTypes
<1>3. /\ Alike(x.nfc, n) /\ n.flags = x.nfc.flags /\ n.rawVsCbflag = x.nfc.rawVsCbflag
      /\ n.nfc_state = x.nfc.nfc_state
  BY PairFields DEF ControlBlock, Alike
<1> HIDE DEF n
<1>4. y \in Pair /\ Step(x, y)
  BY <1>2, <1>3, NfcStep, NfcType
<1> HIDE DEF y
<1>5. Step(y, Send(y, "CORE_INIT", ch))
  BY <1>4, SendStep DEF StackCmd
<1> HIDE DEF Step
<1> QED
  BY <1>1, <1>4, <1>5, StepTrans

(* Nothing but the state and the reports of a start change. *)
LEMMA NotifyStep ==
  ASSUME NEW x \in Pair, NEW ok \in BOOLEAN
  PROVE  LET y == NotifyEnableStatus(x, ok) IN
         /\ y \in Pair /\ Step(x, y) /\ y.hal = x.hal
         /\ y.nfc.nci_cmd_window = x.nfc.nci_cmd_window
         /\ y.nfc.nci_cmd_xmit_q = x.nfc.nci_cmd_xmit_q
         /\ Alike(x.nfc, y.nfc)
<1> DEFINE kept == x.nfc.flags \ {"RESTARTING", "POWER_CYCLE_NFCC"}
           f == IF ok THEN kept ELSE kept \cup {"POWER_OFF_SLEEP"}
           r == IF ok THEN "RESTART_OK" ELSE "RESTART_FAILED"
           s == IF ok THEN "ENABLE_OK" ELSE "ENABLE_FAILED"
           a == [x.nfc EXCEPT !.flags = f, !.report = r]
           b == [x.nfc EXCEPT !.report = s]
           y == NotifyEnableStatus(x, ok)
<1>1. y \in {x, Nfc(x, a), Nfc(x, b)}
  BY DEF NotifyEnableStatus
<1>2. r \in Report /\ s \in Report /\ f \in SUBSET NFC_FL
  BY PairFields, BlockTypes DEF Report, NFC_FL
<1>3. "RESTARTING" \notin f /\ ("CONTROL_GRANTED" \in f <=> "CONTROL_GRANTED" \in x.nfc.flags)
  OBVIOUS
<1> HIDE DEF f, r, s
<1>4. a \in ControlBlock /\ b \in ControlBlock
  BY <1>2, PairFields, BlockTypes, FieldTypes
<1>5. a.flags = f /\ b.flags = x.nfc.flags
  BY PairFields DEF ControlBlock
<1>6. \A n \in {a, b} : /\ n.rawVsCbflag = x.nfc.rawVsCbflag /\ n.nfc_state = x.nfc.nfc_state
          /\ n.nci_cmd_window = x.nfc.nci_cmd_window /\ n.nci_cmd_xmit_q = x.nfc.nci_cmd_xmit_q
          /\ n.nci_wait_rsp_timer = x.nfc.nci_wait_rsp_timer /\ n.last_hdr = x.nfc.last_hdr
  BY PairFields DEF ControlBlock
<1> HIDE DEF a, b
<1>7. Alike(x.nfc, a) /\ Alike(x.nfc, b) /\ Alike(x.nfc, x.nfc)
  BY <1>3, <1>5, <1>6 DEF Alike
<1>8. CASE y = x
  BY <1>7, <1>8, NearRefl
<1>9. ASSUME NEW n \in {a, b}, y = Nfc(x, n) PROVE /\ y \in Pair /\ Step(x, y) /\ y.hal = x.hal
             /\ y.nfc = n
  <2>1. /\ n \in ControlBlock /\ Alike(x.nfc, n) /\ n.nfc_state = x.nfc.nfc_state
        /\ ("RESTARTING" \in n.flags => "RESTARTING" \in x.nfc.flags)
        /\ (n.rawVsCbflag => x.nfc.rawVsCbflag)
    BY <1>3, <1>4, <1>5, <1>6, <1>7
  <2> HIDE DEF y
  <2>2. Step(x, Nfc(x, n))
    BY <2>1, NfcStep
  <2> QED
    BY <1>9, <2>1, <2>2, NfcType
<1> HIDE DEF y, Step
<1> QED
  BY <1>1, <1>6, <1>7, <1>8, <1>9 DEF y

(* nfc_set_state does not touch the channel. *)
LEMMA SetStateStep ==
  ASSUME NEW x \in Pair, NEW st \in NFC_STATE
  PROVE  LET y == SetState(x, st) IN
         /\ y \in Pair /\ y.hal = x.hal /\ y.nfc.nfc_state = st
         /\ y.nfc.nci_cmd_window = x.nfc.nci_cmd_window /\ y.nfc.flags = x.nfc.flags
         /\ y.nfc.nci_cmd_xmit_q = x.nfc.nci_cmd_xmit_q /\ y.nfc.rawVsCbflag = x.nfc.rawVsCbflag
         /\ Alike(x.nfc, y.nfc)
         /\ st \in Ran => Near(x, y)
         /\ Chan(x) => Chan(y)
<1> DEFINE n == [x.nfc EXCEPT !.nfc_state = st]
           y == SetState(x, st)
<1>1. n \in ControlBlock
  BY PairFields, BlockTypes, FieldTypes
<1>2. /\ n.rawVsCbflag = x.nfc.rawVsCbflag /\ n.nfc_state = st /\ n.flags = x.nfc.flags
      /\ n.nci_cmd_window = x.nfc.nci_cmd_window /\ n.nci_cmd_xmit_q = x.nfc.nci_cmd_xmit_q
      /\ Alike(x.nfc, n)
  BY PairFields DEF ControlBlock, Alike
<1> HIDE DEF n
<1>3. y \in Pair /\ y.nfc = n /\ y.hal = x.hal
  BY <1>1, NfcType DEF SetState, n
<1> HIDE DEF y
<1>4. st \in Ran => Near(x, y)
  BY <1>2, <1>3 DEF Near
<1>5. x.nfc.nci_wait_rsp_timer \in BOOLEAN /\ n.nci_wait_rsp_timer \in BOOLEAN
  BY <1>1, PairFields, BlockTypes
<1>6. Chan(x) => Chan(y)
  BY <1>2, <1>3, <1>5, AlikeChan
<1> QED
  BY <1>2, <1>3, <1>4, <1>6 DEF y

(* A failed start. *)
LEMMA FailedStep ==
  ASSUME NEW x \in Pair, NEW st \in NFC_STATE
  PROVE  LET y == NotifyEnableStatus(SetState(x, st), FALSE) IN
         /\ y \in Pair /\ y.hal = x.hal /\ y.nfc.nfc_state = st
         /\ y.nfc.nci_cmd_window = x.nfc.nci_cmd_window
         /\ y.nfc.nci_cmd_xmit_q = x.nfc.nci_cmd_xmit_q
         /\ "RESTARTING" \in y.nfc.flags => "RESTARTING" \in x.nfc.flags
         /\ y.nfc.rawVsCbflag => (x.nfc.rawVsCbflag \/ "RAW" \in UserCmds)
         /\ (st \in Ran) => Near(x, y)
         /\ (NCI_MAX_CMD_WINDOW = 1 /\ Chan(x) /\ x.hal.link # "OPENING") => Chan(y)
<1> DEFINE u == SetState(x, st)
           y == NotifyEnableStatus(u, FALSE)
<1>1. /\ u \in Pair /\ u.hal = x.hal /\ u.nfc.nfc_state = st
      /\ u.nfc.nci_cmd_window = x.nfc.nci_cmd_window /\ u.nfc.flags = x.nfc.flags
      /\ u.nfc.nci_cmd_xmit_q = x.nfc.nci_cmd_xmit_q /\ u.nfc.rawVsCbflag = x.nfc.rawVsCbflag
      /\ (st \in Ran) => Near(x, u)
      /\ Chan(x) => Chan(u)
  BY SetStateStep
<1> HIDE DEF u
<1>2. /\ y \in Pair /\ Step(u, y) /\ y.hal = u.hal
      /\ y.nfc.nci_cmd_window = u.nfc.nci_cmd_window
      /\ y.nfc.nci_cmd_xmit_q = u.nfc.nci_cmd_xmit_q
  BY <1>1, NotifyStep
<1> HIDE DEF y
<1>3. /\ y.nfc.nfc_state = st
      /\ "RESTARTING" \in y.nfc.flags => "RESTARTING" \in x.nfc.flags
      /\ y.nfc.rawVsCbflag => (x.nfc.rawVsCbflag \/ "RAW" \in UserCmds)
  BY <1>1, <1>2 DEF Step, Near
<1>4. (NCI_MAX_CMD_WINDOW = 1 /\ Chan(x) /\ x.hal.link # "OPENING") => Chan(y)
  BY <1>1, <1>2 DEF Step
<1>5. (st \in Ran) => Near(x, y)
  BY <1>1, <1>2, NearTrans DEF Step
<1> QED
  BY <1>1, <1>2, <1>3, <1>4, <1>5 DEF y, u

(* A start that succeeds sends DISCOVER_MAP. *)
LEMMA StartedStep ==
  ASSUME Typed, NEW x \in Pair, NEW ch \in Choice
  PROVE  LET y == Enabled(x, TRUE, ch) IN
         /\ y \in Pair /\ Near(x, y)
         /\ (NCI_MAX_CMD_WINDOW = 1 /\ Chan(x) /\ x.hal.link # "OPENING") => Chan(y)
<1> DEFINE u == SetState(x, "IDLE")
           v == Send(u, "DISCOVER_MAP", ch)
           y == NotifyEnableStatus(v, TRUE)
<1>0. Enabled(x, TRUE, ch) = y
  BY DEF Enabled
<1>1. u \in Pair /\ u.hal = x.hal /\ Near(x, u) /\ (Chan(x) => Chan(u))
  BY SetStateStep DEF Ran, NFC_STATE
<1> HIDE DEF u
<1>2. v \in Pair /\ Step(u, v)
  BY <1>1, SendType, SendStep DEF StackCmd
<1> HIDE DEF v
<1>3. y \in Pair /\ Step(v, y)
  BY <1>2, NotifyStep
<1> HIDE DEF y
<1>4. Step(u, y)
  <2> HIDE DEF Step
  <2> QED
    BY <1>2, <1>3, StepTrans
<1>5. Near(x, y)
  BY <1>1, <1>4, NearTrans DEF Step
<1>6. (NCI_MAX_CMD_WINDOW = 1 /\ Chan(x) /\ x.hal.link # "OPENING") => Chan(y)
  BY <1>1, <1>4 DEF Step
<1> QED
  BY <1>0, <1>3, <1>5, <1>6

(* The end of the HAL's post-init enables the stack or reports the         *)
(* failure.                                                                *)
LEMMA PostInitStep ==
  ASSUME Typed, NEW x \in Pair, NEW ok \in BOOLEAN, NEW ch \in Choice,
         ok \/ "RESTARTING" \notin x.nfc.flags
  PROVE  LET y == HandlePostInit(x, ok, ch) IN
         /\ Near(x, y)
         /\ (NCI_MAX_CMD_WINDOW = 1 /\ Chan(x) /\ x.hal.link # "OPENING") => Chan(y)
<1> DEFINE Good(y) == /\ y \in Pair /\ Near(x, y)
                      /\ (NCI_MAX_CMD_WINDOW = 1 /\ Chan(x) /\ x.hal.link # "OPENING") => Chan(y)
           y == IF x.nfc.nfc_state = "W4_POST_INIT_CPLT" THEN Enabled(x, ok, ch) ELSE x
           n == [y.nfc EXCEPT !.p_nci_init_rsp = FALSE]
           z == HandlePostInit(x, ok, ch)
<1>1. z \in {Nfc(y, n), x}
  BY DEF HandlePostInit
<1>2. Good(x)
  BY NearRefl
<1>3. Good(y)
  <2>1. CASE x.nfc.nfc_state # "W4_POST_INIT_CPLT"
    BY <1>2, <2>1
  <2>2. CASE x.nfc.nfc_state = "W4_POST_INIT_CPLT" /\ ok
    <3>1. y = Enabled(x, TRUE, ch)
      BY <2>2
    <3> HIDE DEF y
    <3> QED
      BY <3>1, StartedStep
  <2>3. CASE x.nfc.nfc_state = "W4_POST_INIT_CPLT" /\ ~ok
    <3>1. y = NotifyEnableStatus(SetState(x, "NONE"), FALSE)
      BY <2>3 DEF Enabled
    <3> HIDE DEF y
    <3> QED
      BY <3>1, FailedStep DEF Ran, NFC_STATE
  <2> QED
    BY <2>1, <2>2, <2>3
<1> HIDE DEF y
<1>4. n \in ControlBlock
  BY <1>3, PairFields, FieldTypes
<1>5. /\ Alike(y.nfc, n) /\ n.flags = y.nfc.flags /\ n.rawVsCbflag = y.nfc.rawVsCbflag
      /\ n.nfc_state = y.nfc.nfc_state
  BY <1>3, PairFields DEF ControlBlock, Alike
<1> HIDE DEF n
<1>6. Nfc(y, n) \in Pair /\ Step(y, Nfc(y, n))
  BY <1>3, <1>4, <1>5, NfcStep, NfcType
<1>7. Near(x, Nfc(y, n))
  BY <1>3, <1>6, NearTrans DEF Step
<1>8. (NCI_MAX_CMD_WINDOW = 1 /\ Chan(x) /\ x.hal.link # "OPENING") => Chan(Nfc(y, n))
  BY <1>3, <1>6 DEF Step, Near
<1> QED
  BY <1>1, <1>2, <1>7, <1>8

(* The HAL gives the channel back. *)
LEMMA GivenBackStep ==
  ASSUME Typed, NCI_MAX_CMD_WINDOW = 1, NEW x \in Pair, NEW ch \in Choice,
         Idle(x), ~x.nfc.nci_wait_rsp_timer, "CONTROL_GRANTED" \in x.nfc.flags
  PROVE  \A y \in {HandlePreDiscover(x, ch), HandleRelease(x, ch)} : Near(x, y) /\ Chan(y)
<1> DEFINE f == x.nfc.flags \ {"CONTROL_GRANTED"}
           n == [x.nfc EXCEPT !.nci_cmd_window = NCI_MAX_CMD_WINDOW, !.flags = f]
           u == GivenBack(x)
<1>1. \A y \in {HandlePreDiscover(x, ch), HandleRelease(x, ch)} :
         y \in {SendDiscover(u, ch), CheckCmdQueue(u, ch)}
  BY DEF HandlePreDiscover, HandleRelease
<1>2. NCI_MAX_CMD_WINDOW \in 0..NCI_MAX_CMD_WINDOW /\ f \in SUBSET NFC_FL
  BY PairFields, BlockTypes
<1>3. n \in ControlBlock
  <2> HIDE DEF f
  <2> QED
    BY <1>2, PairFields, FieldTypes
<1>4. /\ n.flags = f /\ n.nci_cmd_window = 1 /\ n.nci_wait_rsp_timer = x.nfc.nci_wait_rsp_timer
      /\ n.nfc_state = x.nfc.nfc_state /\ n.rawVsCbflag = x.nfc.rawVsCbflag
  BY PairFields DEF ControlBlock
<1>5. u = Nfc(x, n)
  BY DEF GivenBack
<1>6. "RESTARTING" \in f => "RESTARTING" \in x.nfc.flags
  OBVIOUS
<1> HIDE DEF u, n, f
<1>7. u \in Pair /\ u.nfc = n /\ u.hal = x.hal /\ Near(x, u)
  BY <1>3, <1>4, <1>5, <1>6, NfcNear
<1>8. Chan(u) /\ u.hal.link # "OPENING"
  BY <1>4, <1>7 DEF Chan, Free, Unused, Idle
<1>9. \A y \in {SendDiscover(u, ch), CheckCmdQueue(u, ch)} : Step(u, y)
  BY <1>7, SendDiscoverStep, CheckStep
<1>10. \A y \in {SendDiscover(u, ch), CheckCmdQueue(u, ch)} : Near(x, y) /\ Chan(y)
  BY <1>7, <1>8, <1>9, NearTrans DEF Step
<1> QED
  BY <1>1, <1>10

(* A request of the HAL is noted, not granted. *)
LEMMA FlaggedStep ==
  ASSUME NEW x \in Pair, NEW f \in SUBSET NFC_FL, "CONTROL_GRANTED" \notin f
  PROVE  LET y == Flagged(x, f) IN
         /\ y \in Pair /\ y.hal = x.hal /\ ("RESTARTING" \notin f => Step(x, y))
         /\ y.nfc.flags = x.nfc.flags \cup f /\ Alike(x.nfc, y.nfc)
         /\ y.nfc = [x.nfc EXCEPT !.flags = x.nfc.flags \cup f]
<1> DEFINE n == [x.nfc EXCEPT !.flags = x.nfc.flags \cup f]
           y == Flagged(x, f)
<1>1. n \in ControlBlock
  BY PairFields, BlockTypes, FieldTypes
<1>2. /\ Alike(x.nfc, n) /\ n.flags = x.nfc.flags \cup f
      /\ n.rawVsCbflag = x.nfc.rawVsCbflag /\ n.nfc_state = x.nfc.nfc_state
  BY PairFields DEF ControlBlock, Alike
<1>3. y = Nfc(x, n)
  BY DEF Flagged
<1> HIDE DEF n, y
<1>4. y \in Pair /\ y.hal = x.hal /\ y.nfc = n
  BY <1>1, <1>3, NfcType
<1>5. "RESTARTING" \notin f => Step(x, y)
  BY <1>1, <1>2, <1>3, NfcStep
<1> QED
  BY <1>2, <1>4, <1>5 DEF y, n

-----------------------------------------------------------------------------
(* The mailbox and the transport change. *)

(* The mailboxes hold the same answers and the same ends of control. *)
Kin(q, r) ==
    /\ \A op : /\ None(q, AnswerOf(op)) => None(r, AnswerOf(op))
               /\ Once(q, AnswerOf(op)) => Once(r, AnswerOf(op))
    /\ \A S \in {Answered, Returned} : (None(q, S) => None(r, S)) /\ (Once(q, S) => Once(r, S))

(* Who has the channel does not depend on other messages in the mailbox. *)
LEMMA KinChan ==
  ASSUME NEW x, NEW y, Chan(x), Alike(x.nfc, y.nfc), Kin(x.hal.mbox, y.hal.mbox),
         x.nfc.nci_wait_rsp_timer \in BOOLEAN, y.nfc.nci_wait_rsp_timer \in BOOLEAN,
         y.hal.pending = x.hal.pending, y.hal.recovered = x.hal.recovered,
         y.hal.job \in Control <=> x.hal.job \in Control,
         x.hal.link \in {"CLOSED", "CLOSING"} => y.hal.link \in {"CLOSED", "CLOSING"}
  PROVE  Chan(y)
<1>0. /\ None(x.hal.mbox, Answered) => None(y.hal.mbox, Answered)
      /\ Once(x.hal.mbox, Answered) => Once(y.hal.mbox, Answered)
      /\ None(x.hal.mbox, Returned) => None(y.hal.mbox, Returned)
      /\ Once(x.hal.mbox, Returned) => Once(y.hal.mbox, Returned)
      /\ Once(x.hal.mbox, AnswerOf(x.nfc.last_hdr)) => Once(y.hal.mbox, AnswerOf(x.nfc.last_hdr))
  BY DEF Kin
<1>1. CASE Free(x)
  BY <1>0, <1>1 DEF Chan, Free, Unused, Alike
<1>2. CASE Busy(x)
  BY <1>0, <1>2 DEF Chan, Busy, Alike
<1>3. CASE Lent(x)
  BY <1>0, <1>3 DEF Chan, Lent, Alike
<1>4. CASE Lost(x)
  BY <1>0, <1>4 DEF Chan, Lost, Unused, Alike
<1> QED
  BY <1>1, <1>2, <1>3, <1>4 DEF Chan

(* The same mailbox. *)
LEMMA KinRefl == ASSUME NEW q PROVE Kin(q, q)
BY DEF Kin

(* A message that is no answer is read. *)
LEMMA KinTail ==
  ASSUME NEW q \in Seq(Message), q # <<>>, Head(q) \notin Answered, Head(q) \notin Returned
  PROVE  Kin(q, Tail(q))
<1>1. \A S : Head(q) \notin S =>
         (None(q, S) => None(Tail(q), S)) /\ (Once(q, S) => Once(Tail(q), S))
  BY NoneTail, OnceTail
<1>2. \A op : Head(q) \notin AnswerOf(op)
  BY DEF AnswerOf, Answered
<1> QED
  BY <1>1, <1>2 DEF Kin

(* A message that is no answer arrives. *)
LEMMA KinAppend ==
  ASSUME NEW q \in Seq(Message), NEW m \in Message, m \notin Answered, m \notin Returned
  PROVE  Kin(q, Append(q, m))
<1>1. \A S : m \notin S =>
         (None(q, S) => None(Append(q, m), S)) /\ (Once(q, S) => Once(Append(q, m), S))
  BY NoneAppend, OnceAppend
<1>2. \A op : m \notin AnswerOf(op)
  BY DEF AnswerOf, Answered
<1> QED
  BY <1>1, <1>2 DEF Kin

(* What closing the transport changes. *)
LEMMA CloseFacts ==
  ASSUME NEW x \in Pair
  PROVE  LET y == HalClose(x) IN
         /\ y \in Pair /\ y.nfc = x.nfc /\ y.hal.mbox = x.hal.mbox /\ y.hal.ready = x.hal.ready
         /\ y.hal.link = "CLOSING" /\ y.hal.pending = <<>> /\ y.hal.job = "none"
         /\ ~y.hal.ntf /\ y.hal.recovered = <<>>
<1> DEFINE h == Transport(x.hal, "CLOSING")
           y == HalClose(x)
<1>1. /\ h.mbox = x.hal.mbox /\ h.ready = x.hal.ready /\ h.link = "CLOSING" /\ h.pending = <<>>
      /\ h.job = "none" /\ ~h.ntf /\ h.recovered = <<>>
  BY PairFields DEF Transport, HalBlock
<1>2. h \in HalBlock
  BY PairFields, TransportType
<1> HIDE DEF h
<1>3. y \in Pair /\ y.nfc = x.nfc /\ y.hal = h
  BY <1>2, HalType DEF HalClose, h
<1> HIDE DEF y
<1> QED
  BY <1>1, <1>3 DEF y

(* What opening the transport changes. *)
LEMMA OpenFacts ==
  ASSUME NEW x \in Pair
  PROVE  LET y == HalOpen(x) IN
         /\ y \in Pair /\ y.nfc = [x.nfc EXCEPT !.nfc_state = "W4_HAL_OPEN"]
         /\ y.hal.mbox = x.hal.mbox /\ y.hal.ready = x.hal.ready
         /\ y.hal.link = "OPENING" /\ y.hal.pending = <<>> /\ y.hal.job = "none"
         /\ ~y.hal.ntf /\ y.hal.recovered = <<>>
<1> DEFINE h == Transport(x.hal, "OPENING")
           n == [x.nfc EXCEPT !.nfc_state = "W4_HAL_OPEN"]
           y == HalOpen(x)
<1>1. /\ h.mbox = x.hal.mbox /\ h.ready = x.hal.ready /\ h.link = "OPENING" /\ h.pending = <<>>
      /\ h.job = "none" /\ ~h.ntf /\ h.recovered = <<>>
  BY PairFields DEF Transport, HalBlock
<1>2. h \in HalBlock
  BY PairFields, TransportType
<1>3. SetState(x, "W4_HAL_OPEN") \in Pair /\ SetState(x, "W4_HAL_OPEN").nfc = n
  <2>1. n \in ControlBlock
    BY PairFields DEF ControlBlock, NFC_STATE
  <2> QED
    BY <2>1, NfcType DEF SetState
<1> HIDE DEF h, n
<1>4. y \in Pair /\ y.nfc = n /\ y.hal = h
  BY <1>2, <1>3, HalType DEF HalOpen, h
<1> HIDE DEF y
<1> QED
  BY <1>1, <1>4 DEF y, n

(* A close in the middle of a command loses the channel, to nobody. *)
LEMMA CloseChan ==
  ASSUME NEW x \in Pair, Chan(x)
  PROVE  Chan(HalClose(x))
<1> DEFINE y == HalClose(x)
<1>1. /\ y \in Pair /\ y.nfc = x.nfc /\ y.hal.mbox = x.hal.mbox
      /\ y.hal.link = "CLOSING" /\ y.hal.pending = <<>> /\ y.hal.job = "none"
      /\ y.hal.recovered = <<>>
  BY CloseFacts
<1> SUFFICES Chan(y)
  OBVIOUS
<1> HIDE DEF y
<1>2. y.hal.job \notin Control
  BY <1>1 DEF Control
<1>3. CASE Free(x)
  BY <1>1, <1>2, <1>3 DEF Chan, Free, Unused
<1>4. CASE Busy(x)
  <2>1. CASE None(x.hal.mbox, Answered)
    BY <1>1, <1>2, <1>4, <2>1 DEF Chan, Busy, Lost, Unused
  <2>2. CASE Once(x.hal.mbox, Answered) /\ Once(x.hal.mbox, AnswerOf(x.nfc.last_hdr))
    BY <1>1, <1>2, <1>4, <2>2 DEF Chan, Busy
  <2> QED
    BY <1>4, <2>1, <2>2 DEF Busy
<1>5. CASE Lent(x)
  BY <1>1, <1>2, <1>5 DEF Chan, Lent, Lost, Unused
<1>6. CASE Lost(x)
  BY <1>1, <1>2, <1>6 DEF Chan, Lost, Unused
<1> QED
  BY <1>3, <1>4, <1>5, <1>6 DEF Chan

(* The mailbox is empty and the queue flushed: a start or an end. *)
LEMMA EmptyChan ==
  ASSUME NEW x, x.nfc.nci_cmd_window = 1, ~x.nfc.nci_wait_rsp_timer, x.hal.mbox = <<>>,
         x.hal.pending = <<>>, x.hal.job = "none", x.hal.recovered = <<>>
  PROVE  Chan(x)
BY NotBoth DEF Chan, Free, Unused, Control

(* What nfc_gen_cleanup resets. *)
LEMMA CleanupFacts ==
  ASSUME NEW x \in Pair
  PROVE  LET y == GenCleanup(x) IN
         /\ y \in Pair /\ y.hal = x.hal
         /\ y.nfc.nci_cmd_window = NCI_MAX_CMD_WINDOW /\ ~y.nfc.nci_wait_rsp_timer
         /\ y.nfc.nci_cmd_xmit_q = <<>> /\ y.nfc.flags \subseteq x.nfc.flags
         /\ "DISCOVER_PENDING" \notin y.nfc.flags
         /\ y.nfc.report = x.nfc.report /\ y.nfc.rawVsCbflag = x.nfc.rawVsCbflag
<1> DEFINE n == [x.nfc EXCEPT
        !.flags = @ \ {"DISCOVER_PENDING", "CONTROL_REQUESTED", "CONTROL_GRANTED", "HAL_REQUESTED"},
        !.p_disc_pending = @ /\ "DISCOVER_PENDING" \notin x.nfc.flags,
        !.disc_on = FALSE, !.p_nci_init_rsp = FALSE]
           k == [n EXCEPT !.nci_cmd_window = NCI_MAX_CMD_WINDOW,
                          !.nci_wait_rsp_timer = FALSE, !.nci_cmd_xmit_q = <<>>]
           y == GenCleanup(x)
<1>1. /\ n.flags \subseteq x.nfc.flags /\ n.report = x.nfc.report
      /\ "DISCOVER_PENDING" \notin n.flags
      /\ n.rawVsCbflag = x.nfc.rawVsCbflag
      /\ "nci_cmd_window" \in DOMAIN n /\ "nci_wait_rsp_timer" \in DOMAIN n
      /\ "nci_cmd_xmit_q" \in DOMAIN n
  BY PairFields DEF ControlBlock
<1>2. y.nfc = k /\ y.hal = x.hal
  BY DEF GenCleanup, FlushCmdQueue, Nfc
<1>3. y \in Pair
  BY CleanupType
<1> HIDE DEF n, y
<1>4. /\ k.nci_cmd_window = NCI_MAX_CMD_WINDOW /\ ~k.nci_wait_rsp_timer
      /\ k.nci_cmd_xmit_q = <<>> /\ k.flags = n.flags
      /\ k.report = n.report /\ k.rawVsCbflag = n.rawVsCbflag
  BY <1>1
<1> HIDE DEF k
<1> QED
  BY <1>1, <1>2, <1>3, <1>4 DEF y

(* A shutdown or a power cycle starts. *)
LEMMA ShutdownStep ==
  ASSUME NEW x \in Pair, NCI_MAX_CMD_WINDOW = 1, ~x.hal.ready, x.nfc.report = "none",
         "RESTARTING" \in x.nfc.flags => "sleep" \in env.calls,
         x.nfc.rawVsCbflag => "RAW" \in UserCmds
  PROVE  LET y == ShutdownNfcc(x) IN y \in Pair /\ Chan(y) /\ Phase(y)
<1> DEFINE h == [x.hal EXCEPT !.mbox = <<>>]
           u == GenCleanup(Hal(x, h))
           v == SetState(u, "W4_HAL_CLOSE")
           y == ShutdownNfcc(x)
<1>1. y \in {HalOpen(u), HalClose(v)}
  BY DEF ShutdownNfcc
<1>2. h \in HalBlock /\ h.mbox = <<>> /\ h.ready = x.hal.ready
  <2>1. <<>> \in Seq(Message)
    OBVIOUS
  <2> QED
    BY <2>1, PairFields DEF HalBlock
<1> HIDE DEF h
<1>3. Hal(x, h) \in Pair /\ Hal(x, h).nfc = x.nfc /\ Hal(x, h).hal = h
  BY <1>2, HalType
<1>4. /\ u \in Pair /\ u.hal = h
      /\ u.nfc.nci_cmd_window = NCI_MAX_CMD_WINDOW /\ ~u.nfc.nci_wait_rsp_timer
      /\ u.nfc.nci_cmd_xmit_q = <<>> /\ u.nfc.flags \subseteq x.nfc.flags
      /\ u.nfc.report = x.nfc.report /\ u.nfc.rawVsCbflag = x.nfc.rawVsCbflag
  BY <1>3, CleanupFacts
<1> HIDE DEF u
<1>5. v \in Pair /\ v.hal = h /\ v.nfc = [u.nfc EXCEPT !.nfc_state = "W4_HAL_CLOSE"]
  BY <1>4, SetStateType DEF SetState, Nfc, NFC_STATE
<1> HIDE DEF v
<1>6. CASE y = HalOpen(u)
  <2>1. /\ y \in Pair /\ y.nfc = [u.nfc EXCEPT !.nfc_state = "W4_HAL_OPEN"]
        /\ y.hal.mbox = u.hal.mbox /\ y.hal.ready = u.hal.ready
        /\ y.hal.link = "OPENING" /\ y.hal.pending = <<>> /\ y.hal.job = "none"
        /\ ~y.hal.ntf /\ y.hal.recovered = <<>>
    BY <1>4, <1>6, OpenFacts
  <2> HIDE DEF y
  <2>2. /\ y.nfc.nfc_state = "W4_HAL_OPEN" /\ y.nfc.nci_cmd_window = 1
        /\ ~y.nfc.nci_wait_rsp_timer /\ y.nfc.nci_cmd_xmit_q = <<>>
        /\ y.nfc.flags \subseteq x.nfc.flags /\ y.nfc.report = "none"
        /\ (y.nfc.rawVsCbflag <=> x.nfc.rawVsCbflag)
    BY <1>4, <2>1, PairFields DEF ControlBlock
  <2>3. Chan(y)
    BY <1>2, <1>4, <2>1, <2>2, EmptyChan
  <2>4. Opening(y)
    BY <1>2, <1>4, <2>1, <2>2 DEF Opening, Fresh
  <2> QED
    BY <1>2, <1>4, <2>1, <2>2, <2>3, <2>4 DEF Phase, y
<1>7. CASE y = HalClose(v)
  <2>1. /\ y \in Pair /\ y.nfc = v.nfc
        /\ y.hal.mbox = v.hal.mbox /\ y.hal.ready = v.hal.ready
        /\ y.hal.link = "CLOSING" /\ y.hal.pending = <<>> /\ y.hal.job = "none"
        /\ ~y.hal.ntf /\ y.hal.recovered = <<>>
    BY <1>5, <1>7, CloseFacts
  <2> HIDE DEF y
  <2>2. /\ y.nfc.nfc_state = "W4_HAL_CLOSE" /\ y.nfc.nci_cmd_window = 1
        /\ ~y.nfc.nci_wait_rsp_timer /\ y.nfc.nci_cmd_xmit_q = <<>>
        /\ y.nfc.flags \subseteq x.nfc.flags
        /\ (y.nfc.rawVsCbflag <=> x.nfc.rawVsCbflag)
    BY <1>4, <1>5, <2>1, PairFields DEF ControlBlock
  <2>3. Chan(y)
    BY <1>2, <1>5, <2>1, <2>2, EmptyChan
  <2>4. Closing(y)
    BY <1>2, <1>5, <2>1, <2>2 DEF Closing, Fresh
  <2> QED
    BY <1>2, <1>5, <2>1, <2>2, <2>3, <2>4 DEF Phase, y
<1> QED
  BY <1>1, <1>6, <1>7

-----------------------------------------------------------------------------
(* The pair after a step. *)
There == [nfc |-> nfc_cb', hal |-> hal']
Kept == Chan(There) /\ Phase(There)

(* The pairs differ in what the channel and the phase do not depend on,    *)
(* but for the mailbox.                                                    *)
Twin(x, y) ==
    /\ y \in Pair /\ Alike(x.nfc, y.nfc)
    /\ y.nfc.flags = x.nfc.flags /\ y.nfc.rawVsCbflag = x.nfc.rawVsCbflag
    /\ y.nfc.nfc_state = x.nfc.nfc_state /\ y.nfc.report = x.nfc.report
    /\ y.nfc.nci_cmd_window = x.nfc.nci_cmd_window
    /\ y.nfc.nci_cmd_xmit_q = x.nfc.nci_cmd_xmit_q
    /\ y.nfc.nci_wait_rsp_timer = x.nfc.nci_wait_rsp_timer
    /\ y.hal.pending = x.hal.pending /\ y.hal.job = x.hal.job
    /\ y.hal.recovered = x.hal.recovered /\ y.hal.link = x.hal.link
    /\ y.hal.ready = x.hal.ready /\ y.hal.ntf = x.hal.ntf
Same(x, y) == Twin(x, y) /\ y.hal.mbox = x.hal.mbox
Reads(x, y) == Twin(x, y) /\ x.hal.mbox # <<>> /\ y.hal.mbox = Tail(x.hal.mbox)

(* A pair that a handler returns has the invariant in the next state. *)
LEMMA Becomes ==
  ASSUME NEW x \in Pair, Become(x), Chan(x), Phase(x)
  PROVE  Kept
<1>1. There = x
  BY PairFields DEF There, Become
<1> QED
  BY <1>1 DEF Kept

(* A stack that runs still runs after a step. *)
LEMMA RunOn ==
  ASSUME NEW x, Running(x), Phase(x), NEW y, Near(x, y)
  PROVE  Phase(y) /\ Running(y)
<1>1. Running(y)
  BY DEF Running, Near, Ran
<1>2. y.hal.link # "OPEN" => (y.hal.pending = <<>> /\ y.hal.job = "none" /\ ~y.hal.ntf)
  BY DEF Phase, Near
<1>3. \A i \in DOMAIN y.hal.mbox : Allowed(y.hal.mbox[i])
  BY DEF Phase, Near
<1> QED
  BY <1>1, <1>2, <1>3 DEF Phase, Near

(* Pairs that agree on the invariant's fields. *)
LEMMA SameKept ==
  ASSUME NEW x \in Pair, NEW y, Same(x, y), Chan(x), Phase(x)
  PROVE  y \in Pair /\ Chan(y) /\ Phase(y) /\ (Running(x) => Running(y))
<1>1. x.nfc.nci_wait_rsp_timer \in BOOLEAN /\ y.nfc.nci_wait_rsp_timer \in BOOLEAN
  BY PairFields, BlockTypes DEF Same, Twin
<1>2. Chan(y)
  BY <1>1, KinChan, KinRefl DEF Same, Twin
<1>3. /\ Opening(x) => Opening(y)
      /\ Opened(x) => Opened(y)
      /\ Failed(x) => Failed(y)
      /\ Closing(x) => Closing(y)
      /\ Off(x) => Off(y)
      /\ Running(x) => Running(y)
  BY DEF Same, Twin, Opening, Opened, Failed, Closing, Off, Running, Fresh
<1>4. Phase(y)
  <2>1. Opening(y) \/ Opened(y) \/ Failed(y) \/ Closing(y) \/ Off(y) \/ Running(y)
    BY <1>3 DEF Phase
  <2> QED
    BY <2>1 DEF Phase, Same, Twin
<1> QED
  BY <1>2, <1>3, <1>4 DEF Same, Twin

(* The pair at the start of a step is the state, but for the report's      *)
(* target.                                                                 *)
LEMMA NowTwin == ASSUME TypeOK PROVE Same(Here, Now) /\ Here.nfc = nfc_cb /\ Here.hal = hal
<1> DEFINE n == [nfc_cb EXCEPT !.back = NoBack]
<1>1. /\ n.flags = nfc_cb.flags /\ n.rawVsCbflag = nfc_cb.rawVsCbflag
      /\ n.nfc_state = nfc_cb.nfc_state /\ n.report = nfc_cb.report
      /\ n.nci_cmd_window = nfc_cb.nci_cmd_window /\ n.nci_cmd_xmit_q = nfc_cb.nci_cmd_xmit_q
      /\ n.nci_wait_rsp_timer = nfc_cb.nci_wait_rsp_timer /\ n.last_hdr = nfc_cb.last_hdr
  BY DEF TypeOK, ControlBlock
<1>2. Now.nfc = n /\ Now.hal = hal /\ Now \in Pair
  BY TypeFacts
<1> HIDE DEF n
<1>3. Here.nfc = nfc_cb /\ Here.hal = hal
  BY DEF Here
<1> QED
  BY <1>1, <1>2, <1>3 DEF Same, Twin, Alike

(* Changing the HAL's mailbox only. *)
LEMMA HalTwin ==
  ASSUME TypeOK, NEW h \in HalBlock,
         h.pending = hal.pending, h.job = hal.job, h.recovered = hal.recovered,
         h.link = hal.link, h.ready = hal.ready, h.ntf = hal.ntf
  PROVE  Twin(Here, Hal(Now, h)) /\ Hal(Now, h).hal = h
<1>1. Hal(Now, h) \in Pair /\ Hal(Now, h).nfc = Now.nfc /\ Hal(Now, h).hal = h
  BY TypeFacts, HalType
<1> QED
  BY <1>1, NowTwin DEF Same, Twin

(* Counting a call. *)
LEMMA CalledTwin ==
  ASSUME TypeOK, hal.calls < MaxCalls
  PROVE  Same(Here, Called(Now))
<1> DEFINE k == hal.calls + 1
           h == [hal EXCEPT !.calls = k]
<1>1. Called(Now) = Hal(Now, h)
  BY TypeFacts DEF Called
<1>2. k \in 0..MaxCalls
  BY TypeFacts, EnvTypes, HalTypes DEF TypeOK
<1> HIDE DEF k
<1>3. h \in HalBlock
  BY <1>2 DEF TypeOK, HalBlock
<1>4. /\ h.pending = hal.pending /\ h.job = hal.job /\ h.recovered = hal.recovered
      /\ h.link = hal.link /\ h.ready = hal.ready /\ h.ntf = hal.ntf /\ h.mbox = hal.mbox
  BY DEF TypeOK, HalBlock
<1> HIDE DEF h
<1> QED
  BY <1>1, <1>3, <1>4, HalTwin, NowTwin DEF Same

(* What is known after a message is read. *)
LEMMA ReadsOther ==
  ASSUME NEW x \in Pair, NEW y, Reads(x, y), Chan(x),
         Head(x.hal.mbox) \notin Answered, Head(x.hal.mbox) \notin Returned
  PROVE  Chan(y)
<1>1. Kin(x.hal.mbox, y.hal.mbox)
  BY KinTail, PairFields, HalTypes DEF Reads
<1>2. x.nfc.nci_wait_rsp_timer \in BOOLEAN /\ y.nfc.nci_wait_rsp_timer \in BOOLEAN
  BY PairFields, BlockTypes DEF Reads, Twin
<1> QED
  BY <1>1, <1>2, KinChan DEF Reads, Twin

(* A response that is read answers the last command, and nothing is        *)
(* outstanding.                                                            *)
LEMMA ReadsAnswer ==
  ASSUME NEW x \in Pair, NEW y, Reads(x, y), Chan(x), x.hal.link # "OPENING",
         Head(x.hal.mbox) \in Answered
  PROVE  Idle(y) /\ Head(x.hal.mbox).op = y.nfc.last_hdr
<1> DEFINE q == x.hal.mbox
           A == AnswerOf(x.nfc.last_hdr)
<1>1. q \in Seq(Message) /\ q # <<>>
  BY PairFields, HalTypes DEF Reads
<1>2. ~None(q, Answered)
  BY <1>1, NoneTail
<1>3. /\ x.nfc.nci_cmd_window = 0 /\ x.hal.job \notin Control /\ None(q, Returned)
      /\ x.hal.pending = <<>> /\ Once(q, Answered) /\ Once(q, A) /\ x.hal.recovered = <<>>
  BY <1>2 DEF Chan, Free, Busy, Lent, Lost, Unused
<1>4. None(Tail(q), Answered) /\ None(Tail(q), Returned)
  BY <1>1, <1>3, OnceTail, NoneTail
<1>5. None(Tail(q), A)
  BY <1>4 DEF None, AnswerOf, Answered
<1>6. Head(q) \in A
  BY <1>1, <1>3, <1>5, OnceTail, NotBoth
<1> QED
  BY <1>3, <1>4, <1>6 DEF Reads, Twin, Alike, Idle, Unused, AnswerOf

(* The end of the HAL's work is read: the stack takes the channel back. *)
LEMMA ReadsReturned ==
  ASSUME NEW x \in Pair, NEW y, Reads(x, y), Chan(x), x.hal.link # "OPENING",
         Head(x.hal.mbox) \in Returned
  PROVE  Idle(y) /\ ~y.nfc.nci_wait_rsp_timer /\ "CONTROL_GRANTED" \in y.nfc.flags
<1> DEFINE q == x.hal.mbox
<1>1. q \in Seq(Message) /\ q # <<>>
  BY PairFields, HalTypes DEF Reads
<1>2. ~None(q, Returned)
  BY <1>1, NoneTail
<1>3. /\ x.nfc.nci_cmd_window = 0 /\ x.hal.job \notin Control /\ None(q, Answered)
      /\ x.hal.pending = <<>> /\ Once(q, Returned) /\ x.hal.recovered = <<>>
      /\ ~x.nfc.nci_wait_rsp_timer /\ "CONTROL_GRANTED" \in x.nfc.flags
  BY <1>2 DEF Chan, Free, Busy, Lent, Lost, Unused
<1>4. None(Tail(q), Answered) /\ None(Tail(q), Returned)
  BY <1>1, <1>3, OnceTail, NoneTail
<1> QED
  BY <1>3, <1>4 DEF Reads, Twin, Idle, Unused

(* Reading a message does not stop the stack. *)
LEMMA ReadsRunning ==
  ASSUME NEW x \in Pair, NEW y, Reads(x, y), Running(x), Phase(x)
  PROVE  Running(y) /\ Phase(y) /\ Allowed(Head(x.hal.mbox))
         /\ Head(x.hal.mbox).op # "OPEN_CPLT"
<1>1. /\ x.hal.mbox \in Seq(Message) /\ x.hal.mbox # <<>>
      /\ 1 \in DOMAIN x.hal.mbox /\ x.hal.mbox[1] = Head(x.hal.mbox)
      /\ \A i \in DOMAIN y.hal.mbox : i + 1 \in DOMAIN x.hal.mbox
                                      /\ y.hal.mbox[i] = x.hal.mbox[i + 1]
  BY PairFields, HalTypes, TailIndex DEF Reads
<1>2. Running(y)
  BY <1>1 DEF Running, Reads, Twin
<1>3. \A i \in DOMAIN y.hal.mbox : Allowed(y.hal.mbox[i])
  BY <1>1 DEF Phase
<1>4. Allowed(Head(x.hal.mbox)) /\ Head(x.hal.mbox).op # "OPEN_CPLT"
  BY <1>1 DEF Phase, Running
<1> QED
  BY <1>2, <1>3, <1>4 DEF Phase, Reads, Twin

-----------------------------------------------------------------------------
(* The steps of NFC_TASK. *)
Owned == TypeOK /\ Calm /\ Chan(Here) /\ Phase(Here)

(* The parts of the invariant. *)
LEMMA OwnedFacts ==
  ASSUME Owned
  PROVE  /\ Typed /\ NCI_MAX_CMD_WINDOW = 1 /\ Here \in Pair /\ Now \in Pair
         /\ Here.nfc = nfc_cb /\ Here.hal = hal /\ nfc_cb \in ControlBlock /\ hal \in HalBlock
BY TypeFacts, NowTwin DEF Owned, Calm, TypeOK

(* A message is read by a stack that runs. *)
LEMMA ReadStep ==
  ASSUME Typed, NCI_MAX_CMD_WINDOW = 1, Undisturbed,
         NEW w \in Pair, Chan(w), Phase(w), Running(w), NEW x, Reads(w, x), NEW ch \in Choice
  PROVE  LET m == Head(w.hal.mbox)
             y == IF m.mt = "EVT" THEN HandleHalEvt(x, m, ch) ELSE ProcessEvent(x, m, ch)
         IN  y \in Pair /\ Chan(y) /\ Phase(y)
<1> DEFINE m == Head(w.hal.mbox)
           y == IF m.mt = "EVT" THEN HandleHalEvt(x, m, ch) ELSE ProcessEvent(x, m, ch)
<1>1. x \in Pair /\ Running(x) /\ Phase(x) /\ Allowed(m) /\ m.op # "OPEN_CPLT"
  BY ReadsRunning DEF Reads, Twin
<1>2. m \in Message
  BY PairFields, HalTypes DEF Reads
<1>3. w.hal.link # "OPENING" /\ x.hal.link # "OPENING" /\ x.nfc.nfc_state \in Ran
  BY <1>1 DEF Running, Ran
<1>4. (m \notin Answered /\ m \notin Returned) => Chan(x)
  BY ReadsOther
<1>5. m \in Answered => Idle(x) /\ m.op = x.nfc.last_hdr
  BY <1>3, ReadsAnswer
<1>6. m \in Returned => Idle(x) /\ ~x.nfc.nci_wait_rsp_timer /\ "CONTROL_GRANTED" \in x.nfc.flags
  BY <1>3, ReadsReturned
<1> SUFFICES y \in Pair /\ Chan(y) /\ Phase(y)
  OBVIOUS
<1> HIDE DEF m
<1>7. ASSUME NEW z, z \in Pair, Near(x, z), Chan(z) PROVE z \in Pair /\ Chan(z) /\ Phase(z)
  BY <1>1, <1>7, RunOn
<1>8. y \in Pair
  BY <1>1, <1>2, MessageTypes, HalEvtType, ProcessType
<1>9. CASE m.mt = "RSP"
  <2>1. m \in Answered
    BY <1>2, <1>9 DEF Answered
  <2>2. y \in {RawVsRsp(x, m, ch), ProcRsp(x, m, ch)}
    BY <1>9 DEF ProcessEvent
  <2>3. RawVsRsp(x, m, ch) \in Pair /\ Near(x, RawVsRsp(x, m, ch)) /\ Chan(RawVsRsp(x, m, ch))
    BY <1>1, <1>2, <1>5, <2>1, RawStep
  <2>4. ProcRsp(x, m, ch) \in Pair /\ Near(x, ProcRsp(x, m, ch)) /\ Chan(ProcRsp(x, m, ch))
    <3>1. m.ok
      BY <1>1, <1>9 DEF Allowed
    <3> QED
      BY <1>1, <1>2, <1>3, <1>5, <1>9, <2>1, <3>1, RspStep
  <2> HIDE DEF y
  <2> QED
    BY <1>7, <2>2, <2>3, <2>4
<1>10. CASE m.mt = "NTF"
  <2>1. m.op \in {"CORE_RESET", "OTHER"} /\ m.ok
    BY <1>1, <1>2, <1>10, MessageTypes DEF Allowed
  <2>2. Chan(x)
    BY <1>4, <1>10, <2>1 DEF Answered, Returned
  <2>3. m.op # "CORE_RESET" => ~x.nfc.rawVsCbflag
    BY <1>1, <2>1 DEF Allowed, Phase, Undisturbed, NoRecovery, UserCmds
  <2>4. y \in {ProcResetNtf(x, m, ch), x}
    BY <1>10, <2>1, <2>3 DEF ProcessEvent
  <2>5. Step(x, ProcResetNtf(x, m, ch)) /\ Step(x, x)
    BY <1>1, <1>2, <2>1, ResetNtfStep, NearRefl
  <2> HIDE DEF y
  <2>6. Near(x, y) /\ Chan(y)
    BY <1>3, <2>2, <2>4, <2>5 DEF Step
  <2> QED
    BY <1>7, <1>8, <2>6
<1>11. CASE m.mt = "EVT"
  <2>1. y = HandleHalEvt(x, m, ch)
    BY <1>11
  <2> HIDE DEF y
  <2>2. m.op \in HalEvent \ {"OPEN_CPLT"} /\ m \notin Answered /\ m.ok \in BOOLEAN
    BY <1>1, <1>2, <1>11, MessageTypes DEF Answered
  <2>3. ASSUME m.op = "CLOSE_CPLT" PROVE Near(x, y) /\ Chan(y)
    <3>1. Chan(x)
      BY <1>4, <2>2, <2>3 DEF Returned
    <3>2. y = HandleClose(x)
      BY <2>1, <2>3 DEF HandleHalEvt
    <3>3. y \in {x, NotifyEnableStatus(SetState(x, "NONE"), FALSE)}
      BY <1>3, <3>2 DEF HandleClose, Ran
    <3>4. CASE y = x
      BY <1>1, <3>1, <3>4, NearRefl
    <3>5. CASE y = NotifyEnableStatus(SetState(x, "NONE"), FALSE)
      BY <1>1, <1>3, <3>1, <3>5, FailedStep DEF Ran, NFC_STATE
    <3> QED
      BY <3>3, <3>4, <3>5
  <2>4. ASSUME m.op = "POST_INIT_CPLT" PROVE Near(x, y) /\ Chan(y)
    <3>1. Chan(x)
      BY <1>4, <2>2, <2>4 DEF Returned
    <3>2. y = HandlePostInit(x, m.ok, ch)
      BY <2>1, <2>4 DEF HandleHalEvt
    <3>3. m.ok \/ "RESTARTING" \notin x.nfc.flags
      BY <1>1, <2>4 DEF Allowed, Phase, Undisturbed, NoRecovery
    <3> QED
      BY <1>1, <1>3, <2>2, <3>1, <3>2, <3>3, PostInitStep
  <2>5. ASSUME m.op \in {"PRE_DISCOVER_CPLT", "RELEASE_CONTROL"} PROVE Near(x, y) /\ Chan(y)
    <3>1. m \in Returned
      BY <1>2, <2>5 DEF Returned
    <3>2. y \in {HandlePreDiscover(x, ch), HandleRelease(x, ch)}
      BY <2>1, <2>5 DEF HandleHalEvt
    <3> QED
      BY <1>1, <1>6, <3>1, <3>2, GivenBackStep
  <2>6. ASSUME m.op = "REQUEST_CONTROL" PROVE Near(x, y) /\ Chan(y)
    <3> DEFINE u == Flagged(x, {"CONTROL_REQUESTED", "HAL_REQUESTED"})
    <3>1. Chan(x)
      BY <1>4, <2>2, <2>6 DEF Returned
    <3>2. y = CheckCmdQueue(u, ch)
      BY <2>1, <2>6 DEF HandleHalEvt
    <3>3. u \in Pair /\ Step(x, u)
      BY <1>1, FlaggedStep DEF NFC_FL
    <3> HIDE DEF u
    <3>4. Step(u, CheckCmdQueue(u, ch))
      BY <3>3, CheckStep
    <3>5. Step(x, y)
      <4> HIDE DEF Step
      <4> QED
        BY <3>2, <3>3, <3>4, StepTrans
    <3> QED
      BY <1>3, <3>1, <3>5 DEF Step
  <2>7. ASSUME m.op = "ERROR" PROVE Chan(y) /\ Phase(y)
    <3>1. Chan(x)
      BY <1>4, <2>2, <2>7 DEF Returned
    <3>2. y \in {x, Enabled(x, FALSE, ch)}
      BY <2>1, <2>7 DEF HandleHalEvt
    <3>3. "sleep" \notin env.calls /\ "RESTARTING" \notin x.nfc.flags
      BY <1>1, <2>7 DEF Allowed, Phase, Undisturbed, NoRecovery
    <3>4. y \in {x, HalClose(x), NotifyEnableStatus(SetState(x, "NONE"), FALSE)}
      BY <3>2, <3>3 DEF Enabled
    <3>5. CASE y = x
      BY <1>1, <3>1, <3>5
    <3>6. CASE y = NotifyEnableStatus(SetState(x, "NONE"), FALSE)
      <4>1. Near(x, y) /\ Chan(y)
        BY <1>1, <1>3, <3>1, <3>6, FailedStep DEF Ran, NFC_STATE
      <4> QED
        BY <1>7, <1>8, <4>1
    <3>7. CASE y = HalClose(x)
      <4>1. Chan(y)
        BY <1>1, <3>1, <3>7, CloseChan
      <4>2. /\ y.nfc = x.nfc /\ y.hal.mbox = x.hal.mbox /\ y.hal.ready = x.hal.ready
            /\ y.hal.link = "CLOSING" /\ y.hal.pending = <<>> /\ y.hal.job = "none" /\ ~y.hal.ntf
        BY <1>1, <3>7, CloseFacts
      <4>3. Running(y)
        BY <1>1, <3>3, <4>2 DEF Running
      <4> QED
        BY <1>1, <4>1, <4>2, <4>3 DEF Phase
    <3> QED
      BY <3>4, <3>5, <3>6, <3>7
  <2> QED
    BY <1>7, <1>8, <2>2, <2>3, <2>4, <2>5, <2>6, <2>7 DEF HalEvent
<1> QED
  BY <1>2, <1>9, <1>10, <1>11, MessageTypes

(* A transport that is open but not yet used reports errors only. *)
LEMMA ReadOpened ==
  ASSUME Typed, NCI_MAX_CMD_WINDOW = 1, Undisturbed,
         NEW w \in Pair, Chan(w), Phase(w), Opened(w), NEW x, Reads(w, x), NEW ch \in Choice
  PROVE  LET m == Head(w.hal.mbox)
             y == IF m.mt = "EVT" THEN HandleHalEvt(x, m, ch) ELSE ProcessEvent(x, m, ch)
         IN  y \in Pair /\ Chan(y) /\ Phase(y)
<1> DEFINE m == Head(w.hal.mbox)
           y == IF m.mt = "EVT" THEN HandleHalEvt(x, m, ch) ELSE ProcessEvent(x, m, ch)
           z == NotifyEnableStatus(SetState(x, "NONE"), FALSE)
<1>1. /\ w.hal.mbox \in Seq(Message) /\ w.hal.mbox # <<>> /\ m \in Message
      /\ 1 \in DOMAIN w.hal.mbox /\ w.hal.mbox[1] = m
      /\ \A i \in DOMAIN x.hal.mbox : i + 1 \in DOMAIN w.hal.mbox
                                      /\ x.hal.mbox[i] = w.hal.mbox[i + 1]
  BY PairFields, HalTypes, TailIndex DEF Reads
<1> SUFFICES y \in Pair /\ Chan(y) /\ Phase(y)
  OBVIOUS
<1> HIDE DEF m
<1>2. m.op = "ERROR" /\ Allowed(m) /\ x \in Pair
  BY <1>1 DEF Opened, Phase, Reads, Twin
<1>3. m.mt = "EVT"
  BY <1>1, <1>2, MessageTypes, EnvTypes DEF StackCmd
<1>4. Chan(x)
  BY <1>1, <1>2, <1>3, ReadsOther DEF Answered, Returned, m
<1>5. "RESTARTING" \notin x.nfc.flags
  BY <1>2 DEF Allowed, Phase, Undisturbed, NoRecovery, Reads, Twin
<1>6. x.nfc.nfc_state \in {"W4_HAL_OPEN", "NONE"} /\ x.hal.link = "OPEN"
  BY DEF Opened, Reads, Twin
<1>7. y \in {x, z}
  <2>1. y \in {x, Enabled(x, FALSE, ch)}
    BY <1>2, <1>3 DEF HandleHalEvt
  <2> QED
    BY <1>5, <1>6, <2>1 DEF Enabled
<1>8. \A i \in DOMAIN x.hal.mbox : x.hal.mbox[i].op = "ERROR" /\ Allowed(x.hal.mbox[i])
  BY <1>1 DEF Opened, Phase
<1> HIDE DEF y
<1>9. CASE y = x
  <2>1. Opened(x)
    BY <1>8 DEF Opened, Reads, Twin, Fresh
  <2> QED
    BY <1>2, <1>4, <1>8, <1>9, <2>1 DEF Phase, Reads, Twin
<1>10. CASE y = z
  <2>1. /\ z \in Pair /\ z.hal = x.hal /\ z.nfc.nfc_state = "NONE"
        /\ z.nfc.nci_cmd_window = x.nfc.nci_cmd_window
        /\ z.nfc.nci_cmd_xmit_q = x.nfc.nci_cmd_xmit_q
        /\ "RESTARTING" \in z.nfc.flags => "RESTARTING" \in x.nfc.flags
        /\ z.nfc.rawVsCbflag => (x.nfc.rawVsCbflag \/ "RAW" \in UserCmds)
        /\ Chan(z)
    <3>1. "NONE" \in NFC_STATE
      BY DEF NFC_STATE
    <3> QED
      BY <3>1, <1>2, <1>4, <1>6, FailedStep
  <2> HIDE DEF z
  <2>2. Opened(z)
    BY <1>8, <2>1 DEF Opened, Reads, Twin, Fresh
  <2> QED
    BY <1>5, <1>6, <1>8, <1>10, <2>1, <2>2 DEF Phase, Reads, Twin
<1> QED
  BY <1>7, <1>9, <1>10

(* The transport did not open. *)
LEMMA ReadFailed ==
  ASSUME Typed, NCI_MAX_CMD_WINDOW = 1,
         NEW w \in Pair, Chan(w), Phase(w), Failed(w), NEW x, Reads(w, x), NEW ch \in Choice
  PROVE  LET m == Head(w.hal.mbox)
             y == IF m.mt = "EVT" THEN HandleHalEvt(x, m, ch) ELSE ProcessEvent(x, m, ch)
         IN  y \in Pair /\ Chan(y) /\ Phase(y)
<1> DEFINE m == Head(w.hal.mbox)
           y == IF m.mt = "EVT" THEN HandleHalEvt(x, m, ch) ELSE ProcessEvent(x, m, ch)
           z(st) == NotifyEnableStatus(SetState(x, st), FALSE)
<1>1. m = Evt("OPEN_CPLT", FALSE) /\ x.hal.mbox = <<>> /\ x \in Pair
  BY DEF Failed, Reads, Twin
<1> SUFFICES y \in Pair /\ Chan(y) /\ Phase(y)
  OBVIOUS
<1> HIDE DEF m
<1>2. m.op = "OPEN_CPLT" /\ m.mt = "EVT"
  BY <1>1 DEF Evt
<1>3. Chan(x)
  BY <1>2, ReadsOther DEF Answered, Returned, m
<1>4. x.nfc.nfc_state = "W4_HAL_OPEN" /\ x.hal.link = "CLOSED"
  BY DEF Failed, Reads, Twin
<1>5. y = Enabled(x, FALSE, ch)
  BY <1>2 DEF HandleHalEvt
<1> HIDE DEF y
<1>6. PICK st \in {"NONE", "NFCC_POWER_OFF_SLEEP"} : y = z(st)
  BY <1>4, <1>5 DEF Enabled
<1>7. st \in NFC_STATE
  BY DEF NFC_STATE
<1>8. /\ y \in Pair /\ y.hal = x.hal /\ y.nfc.nfc_state = st
      /\ y.nfc.nci_cmd_window = x.nfc.nci_cmd_window
      /\ y.nfc.nci_cmd_xmit_q = x.nfc.nci_cmd_xmit_q
      /\ "RESTARTING" \in y.nfc.flags => "RESTARTING" \in x.nfc.flags
      /\ y.nfc.rawVsCbflag => (x.nfc.rawVsCbflag \/ "RAW" \in UserCmds)
      /\ Chan(y)
  BY <1>1, <1>3, <1>4, <1>6, <1>7, FailedStep
<1>9. Off(y)
  BY <1>1, <1>4, <1>8 DEF Off, Fresh, Failed, Reads, Twin
<1> QED
  BY <1>1, <1>8, <1>9 DEF Phase, Reads, Twin

(* The transport is closed. *)
LEMMA ReadClosing ==
  ASSUME Typed, NCI_MAX_CMD_WINDOW = 1,
         NEW w \in Pair, Chan(w), Phase(w), Closing(w), NEW x, Reads(w, x), NEW ch \in Choice
  PROVE  LET m == Head(w.hal.mbox)
             y == IF m.mt = "EVT" THEN HandleHalEvt(x, m, ch) ELSE ProcessEvent(x, m, ch)
         IN  y \in Pair /\ Chan(y) /\ Phase(y)
<1> DEFINE m == Head(w.hal.mbox)
           y == IF m.mt = "EVT" THEN HandleHalEvt(x, m, ch) ELSE ProcessEvent(x, m, ch)
           f == x.nfc.flags \ {"POWER_OFF_SLEEP"}
           n == [x.nfc EXCEPT !.nfc_state = "NFCC_POWER_OFF_SLEEP", !.flags = f,
                              !.report = "POWER_OFF"]
           k == [x.nfc EXCEPT !.nfc_state = "NONE", !.report = "DISABLE",
                              !.p_resp_cback = FALSE]
<1>1. m = Evt("CLOSE_CPLT", TRUE) /\ x.hal.mbox = <<>> /\ x \in Pair /\ w.hal.link = "CLOSED"
  <2> DEFINE e == Evt("CLOSE_CPLT", TRUE)
  <2>1. w.hal.mbox = <<e>> /\ w.hal.link = "CLOSED"
    BY DEF Closing, Reads
  <2> HIDE DEF e
  <2>2. Head(<<e>>) = e /\ Tail(<<e>>) = <<>>
    OBVIOUS
  <2> QED
    BY <2>1, <2>2 DEF Reads, Twin, e
<1> SUFFICES y \in Pair /\ Chan(y) /\ Phase(y)
  OBVIOUS
<1> HIDE DEF m
<1>2. m.op = "CLOSE_CPLT" /\ m.mt = "EVT"
  BY <1>1 DEF Evt
<1>3. Chan(x)
  BY <1>2, ReadsOther DEF Answered, Returned, m
<1>4. x.nfc.nfc_state = "W4_HAL_CLOSE" /\ x.hal.link = "CLOSED"
  BY <1>1 DEF Closing, Reads, Twin
<1>5. y = HandleClose(x)
  BY <1>2 DEF HandleHalEvt
<1>6. y \in {x, Nfc(x, n), Nfc(x, k)}
  BY <1>4, <1>5 DEF HandleClose, Disabled
<1>7. y \in Pair
  BY <1>1, <1>5, CloseType
<1>8. /\ Alike(x.nfc, n) /\ Alike(x.nfc, k) /\ Alike(x.nfc, x.nfc)
      /\ n.nfc_state = "NFCC_POWER_OFF_SLEEP" /\ k.nfc_state = "NONE"
  BY <1>1, PairFields DEF ControlBlock, Alike
<1>9. \A v \in {x.nfc, n, k} :
          /\ v.rawVsCbflag = x.nfc.rawVsCbflag /\ v.nci_cmd_window = x.nfc.nci_cmd_window
          /\ v.nci_cmd_xmit_q = x.nfc.nci_cmd_xmit_q
          /\ v.nci_wait_rsp_timer = x.nfc.nci_wait_rsp_timer
          /\ v.flags \subseteq x.nfc.flags
  <2>1. x.nfc \in ControlBlock
    BY <1>1, PairFields
  <2>2. ASSUME NEW v \in {x.nfc, n, k}
        PROVE  /\ v.rawVsCbflag = x.nfc.rawVsCbflag /\ v.nci_cmd_window = x.nfc.nci_cmd_window
               /\ v.nci_cmd_xmit_q = x.nfc.nci_cmd_xmit_q
               /\ v.nci_wait_rsp_timer = x.nfc.nci_wait_rsp_timer
    <3>1. CASE v = x.nfc
      BY <3>1
    <3>2. CASE v = n
      BY <2>1, <3>2 DEF ControlBlock
    <3>3. CASE v = k
      BY <2>1, <3>3 DEF ControlBlock
    <3> HIDE DEF n, k
    <3> QED
      BY <2>2, <3>1, <3>2, <3>3
  <2>3. n.flags \subseteq x.nfc.flags /\ k.flags \subseteq x.nfc.flags
    BY <2>1 DEF ControlBlock
  <2> HIDE DEF n, k
  <2> QED
    BY <2>2, <2>3
<1> HIDE DEF y, n, k
<1>10. y.hal = x.hal /\ y.nfc \in {x.nfc, n, k} /\ (y = x \/ y.nfc \in {n, k})
  BY <1>6 DEF Nfc
<1>11. x.nfc.nci_wait_rsp_timer \in BOOLEAN /\ y.nfc.nci_wait_rsp_timer \in BOOLEAN
  BY <1>1, <1>7, PairFields, BlockTypes
<1>12. Chan(y)
  BY <1>3, <1>8, <1>10, <1>11, AlikeChan
<1>13. Closing(y) \/ Off(y)
  <2>1. x.nfc.nci_cmd_window = 1 /\ x.nfc.nci_cmd_xmit_q = <<>> /\ ~x.hal.ready
    BY DEF Closing, Fresh, Reads, Twin
  <2>2. CASE y = x
    BY <1>1, <1>4, <2>1, <2>2 DEF Closing, Fresh
  <2>3. CASE y.nfc \in {n, k}
    BY <1>1, <1>4, <1>8, <1>9, <1>10, <2>1, <2>3 DEF Off, Fresh
  <2> QED
    BY <1>10, <2>2, <2>3
<1>14. /\ "RESTARTING" \in y.nfc.flags => "sleep" \in env.calls
       /\ y.nfc.rawVsCbflag => "RAW" \in UserCmds
  BY <1>9, <1>10 DEF Phase, Reads, Twin
<1>15. y.hal.pending = <<>> /\ y.hal.job = "none" /\ ~y.hal.ntf /\ y.hal.mbox = <<>>
  BY <1>1, <1>10 DEF Phase, Reads, Twin
<1> QED
  BY <1>7, <1>12, <1>13, <1>14, <1>15 DEF Phase

(* Whatever message NFC_TASK reads, the channel has one owner. *)
LEMMA ReadMboxKept == ASSUME Owned, ReadMbox PROVE Kept
<1> DEFINE m == Head(hal.mbox)
           q == Tail(hal.mbox)
           h == [hal EXCEPT !.mbox = q]
           x == Hal(Now, h)
<1>1. PICK ch \in Choice :
        Become(IF m.mt = "EVT" THEN HandleHalEvt(x, m, ch) ELSE ProcessEvent(x, m, ch))
  BY DEF ReadMbox
<1>2. q \in Seq(Message) /\ hal.mbox # <<>>
  BY OwnedFacts, HalTypes DEF ReadMbox
<1>3. Reads(Here, x)
  <2> HIDE DEF q
  <2>1. h \in HalBlock
    BY <1>2, OwnedFacts DEF HalBlock
  <2>2. /\ h.pending = hal.pending /\ h.job = hal.job /\ h.recovered = hal.recovered
        /\ h.link = hal.link /\ h.ready = hal.ready /\ h.ntf = hal.ntf /\ h.mbox = q
    BY OwnedFacts DEF HalBlock
  <2> HIDE DEF h
  <2>3. Twin(Here, Hal(Now, h)) /\ Hal(Now, h).hal = h
    BY <2>1, <2>2, HalTwin DEF Owned
  <2> QED
    BY <1>2, <2>2, <2>3, OwnedFacts DEF Reads, q
<1> HIDE DEF x
<1> DEFINE y == IF m.mt = "EVT" THEN HandleHalEvt(x, m, ch) ELSE ProcessEvent(x, m, ch)
<1>4. /\ Here \in Pair /\ Chan(Here) /\ Phase(Here) /\ Undisturbed /\ Here.hal.mbox # <<>>
      /\ m = Head(Here.hal.mbox)
  BY <1>2, OwnedFacts DEF Owned, Calm
<1> HIDE DEF m
<1>5. y \in Pair /\ Chan(y) /\ Phase(y)
  <2>1. CASE Running(Here)
    BY <1>3, <1>4, <2>1, OwnedFacts, ReadStep
  <2>2. CASE Opened(Here)
    BY <1>3, <1>4, <2>2, OwnedFacts, ReadOpened
  <2>3. CASE Failed(Here)
    BY <1>3, <1>4, <2>3, OwnedFacts, ReadFailed
  <2>4. CASE Closing(Here)
    BY <1>3, <1>4, <2>4, OwnedFacts, ReadClosing
  <2>5. Running(Here) \/ Opened(Here) \/ Failed(Here) \/ Closing(Here)
    BY <1>4 DEF Phase, Opening, Off
  <2> QED
    BY <2>1, <2>2, <2>3, <2>4, <2>5
<1>6. Become(y)
  BY <1>1
<1> QED
  BY <1>5, <1>6, Becomes

(* The transport is ready: CORE_RESET is written to a fresh window. *)
LEMMA ReadyKept == ASSUME Owned, TransportReady PROVE Kept
<1> DEFINE h == [hal EXCEPT !.ready = FALSE]
           x == Hal(Now, h)
           u == SetState(x, "CORE_INIT")
           y(ch) == Send(u, "CORE_RESET", ch)
<1>1. PICK ch \in Choice : Become(y(ch))
  BY DEF TransportReady
<1>2. Opened(Here) /\ Chan(Here) /\ Phase(Here)
  <2>1. Here.hal.ready
    BY OwnedFacts DEF TransportReady
  <2> QED
    BY <2>1 DEF Owned, Phase, Opening, Failed, Closing, Off, Running
<1>3. h \in HalBlock
  BY OwnedFacts DEF HalBlock
<1>4. /\ h.pending = hal.pending /\ h.job = hal.job /\ h.recovered = hal.recovered
      /\ h.link = hal.link /\ h.mbox = hal.mbox /\ ~h.ready
  BY OwnedFacts DEF HalBlock
<1> HIDE DEF h
<1>5. x \in Pair /\ x.nfc = Now.nfc /\ x.hal = h
  BY <1>3, OwnedFacts, HalType
<1> HIDE DEF x
<1>6. /\ Alike(nfc_cb, x.nfc) /\ x.nfc.flags = nfc_cb.flags /\ x.nfc.rawVsCbflag = nfc_cb.rawVsCbflag
  BY <1>5, OwnedFacts, NowTwin DEF Same, Twin, Owned
<1>7. Chan(x)
  <2>1. x.nfc.nci_wait_rsp_timer \in BOOLEAN /\ nfc_cb.nci_wait_rsp_timer \in BOOLEAN
    BY <1>5, OwnedFacts, PairFields, BlockTypes
  <2> QED
    BY <1>2, <1>4, <1>5, <1>6, <2>1, OwnedFacts, KinChan, KinRefl
<1>8. /\ u \in Pair /\ u.hal = x.hal /\ u.nfc.nfc_state = "CORE_INIT"
      /\ u.nfc.flags = x.nfc.flags /\ u.nfc.rawVsCbflag = x.nfc.rawVsCbflag /\ Chan(u)
  BY <1>5, <1>7, SetStateStep DEF NFC_STATE
<1> HIDE DEF u
<1>9. Running(u) /\ u.hal.link = "OPEN"
  BY <1>2, <1>4, <1>5, <1>8, OwnedFacts DEF Running, Opened
<1>10. Phase(u)
  BY <1>2, <1>4, <1>5, <1>6, <1>8, <1>9, OwnedFacts DEF Phase
<1>11. y(ch) \in Pair /\ Step(u, y(ch))
  BY <1>8, OwnedFacts, SendType, SendStep DEF StackCmd
<1> HIDE DEF y
<1>12. Chan(y(ch)) /\ Phase(y(ch))
  BY <1>8, <1>9, <1>10, <1>11, RunOn, OwnedFacts DEF Step
<1> QED
  BY <1>1, <1>11, <1>12, Becomes

(* A time-out: the command was written when the transport was closed, and  *)
(* nothing is sent again.                                                  *)
LEMMA TimeoutFacts ==
  ASSUME Owned, WaitRspTimeout \/ EarlyTimeout
  PROVE  \E u \in Pair : /\ Become(u) \/ Become(HalClose(u))
                         /\ Running(u) /\ Phase(u) /\ Chan(u)
                         /\ u.hal.link # "OPEN" /\ "sleep" \notin env.calls
                         /\ u.nfc.nci_cmd_xmit_q = nfc_cb.nci_cmd_xmit_q
<1>0. ~MayFail("slow")
  BY DEF Owned, Calm, Undisturbed, NoRecovery, MayFail
<1>1. WaitRspTimeout
  BY <1>0 DEF EarlyTimeout
<1> DEFINE x == Hal(Now, hal)
<1>2. PICK ch \in Choice : Become(CmdTimeout(x, ch))
  BY <1>1 DEF WaitRspTimeout, TimeoutBut
<1>3. Same(Here, x)
  BY OwnedFacts, HalTwin DEF Same, Owned
<1> HIDE DEF x
<1>4. Chan(x) /\ Phase(x) /\ x \in Pair
  BY <1>3, OwnedFacts, SameKept DEF Owned
<1>5. x.nfc.nci_wait_rsp_timer /\ x.nfc.nfc_state \notin {"W4_HAL_CLOSE", "NONE"}
  BY <1>1, <1>3, OwnedFacts DEF WaitRspTimeout, TimeoutBut, Same, Twin
<1>6. x.hal.pending = <<>> /\ \A i \in DOMAIN x.hal.mbox : x.hal.mbox[i].mt = "EVT"
  BY <1>1, <1>3, OwnedFacts DEF WaitRspTimeout, Coming, Same, Twin
<1>7. ~Once(x.hal.mbox, Answered)
  BY <1>6 DEF Once, Answered
<1>8. Lost(x)
  BY <1>4, <1>5, <1>6, <1>7 DEF Chan, Free, Busy, Lent
<1>9. Running(x)
  BY <1>4, <1>5, <1>8 DEF Phase, Opening, Opened, Failed, Closing, Off, Fresh, Lost
<1>10. x.hal.link # "OPEN" /\ "sleep" \notin env.calls /\ "RESTARTING" \notin x.nfc.flags
  BY <1>4, <1>8, <1>9 DEF Lost, Running, Phase
<1> DEFINE n == [x.nfc EXCEPT !.nci_wait_rsp_timer = FALSE]
           u == Expired(x)
<1>11. n \in ControlBlock
  BY <1>4, PairFields, BlockTypes, FieldTypes
<1>12. /\ Alike(x.nfc, n) /\ n.nfc_state = x.nfc.nfc_state /\ n.flags = x.nfc.flags
       /\ n.rawVsCbflag = x.nfc.rawVsCbflag /\ n.nci_cmd_xmit_q = x.nfc.nci_cmd_xmit_q
  BY <1>4, PairFields DEF ControlBlock, Alike
<1>13. u = Nfc(x, n)
  BY DEF Expired
<1> HIDE DEF n, u
<1>14. Step(x, u) /\ u \in Pair /\ u.hal = x.hal /\ u.nfc.flags = x.nfc.flags
       /\ u.nfc.nfc_state = x.nfc.nfc_state /\ u.nfc.nci_cmd_xmit_q = x.nfc.nci_cmd_xmit_q
  BY <1>4, <1>11, <1>12, <1>13, NfcStep, NfcType
<1>15. Running(u) /\ Phase(u) /\ Chan(u)
  BY <1>4, <1>8, <1>9, <1>14, OwnedFacts, RunOn DEF Step, Lost
<1>16. CmdTimeout(x, ch) \in {u, HalClose(u)}
  <2>1. HalClose(u).hal.link # "OPEN"
    BY <1>14, CloseFacts
  <2>2. \A z, cmds : z.hal.link # "OPEN" => Resend(z, cmds) = z
    BY DEF Resend
  <2>3. (u.nfc.nfc_state = "CORE_INIT") => Enabled(u, FALSE, ch) = HalClose(u)
    BY <1>10, <1>14 DEF Enabled
  <2>4. \E z \in {u, HalClose(u)} : \E cmds : CmdTimeout(x, ch) = Resend(z, cmds)
    <3>1. \E cmds : CmdTimeout(x, ch)
            = Resend(IF x.nfc.nfc_state = "CORE_INIT" /\ ~ch.fw THEN Enabled(u, FALSE, ch) ELSE u, cmds)
      BY DEF CmdTimeout, u
    <3> QED
      BY <3>1, <2>3, <1>14
  <2> QED
    BY <1>10, <1>14, <2>1, <2>2, <2>4
<1>17. x.nfc.nci_cmd_xmit_q = nfc_cb.nci_cmd_xmit_q
  BY <1>3, OwnedFacts DEF Same, Twin
<1> QED
  BY <1>2, <1>10, <1>14, <1>15, <1>16, <1>17

(* A time-out of a transport that is not open, or its close. *)
LEMMA TimeoutKept == ASSUME Owned, WaitRspTimeout \/ EarlyTimeout PROVE Kept
<1>1. PICK u \in Pair : /\ Become(u) \/ Become(HalClose(u))
                        /\ Running(u) /\ Phase(u) /\ Chan(u)
                        /\ u.hal.link # "OPEN" /\ "sleep" \notin env.calls
  BY TimeoutFacts
<1>2. HalClose(u) \in Pair /\ Chan(HalClose(u)) /\ Phase(HalClose(u))
  <2> DEFINE y == HalClose(u)
  <2>1. /\ y \in Pair /\ y.nfc = u.nfc /\ y.hal.mbox = u.hal.mbox /\ y.hal.ready = u.hal.ready
        /\ y.hal.link = "CLOSING" /\ y.hal.pending = <<>> /\ y.hal.job = "none" /\ ~y.hal.ntf
    BY CloseFacts
  <2>2. Chan(y)
    BY <1>1, CloseChan
  <2> HIDE DEF y
  <2>3. Running(y)
    BY <1>1, <2>1 DEF Running
  <2>4. Phase(y)
    BY <1>1, <2>1, <2>3 DEF Phase
  <2> QED
    BY <2>1, <2>2, <2>4 DEF y
<1> QED
  BY <1>1, <1>2, Becomes

-----------------------------------------------------------------------------
(* The API. *)
LEMMA EnableKept == ASSUME Owned, NfcEnable PROVE Kept
<1> DEFINE n == [InitNfcCb EXCEPT !.p_resp_cback = TRUE, !.asked = "ENABLE"]
           k == hal.calls + 1
           h == [hal EXCEPT !.calls = k, !.mbox = <<>>, !.ready = FALSE]
           w == [nfc |-> n, hal |-> h]
           y == HalOpen(w)
<1>1. Become(y)
  BY DEF NfcEnable
<1>2. y.nfc = [n EXCEPT !.nfc_state = "W4_HAL_OPEN"] /\ y.hal = Transport(h, "OPENING")
  BY DEF HalOpen, SetState, Nfc, Hal
<1>3. /\ y.nfc.nfc_state = "W4_HAL_OPEN" /\ y.nfc.nci_cmd_window = 1
      /\ y.nfc.nci_cmd_xmit_q = <<>> /\ y.nfc.report = "none" /\ ~y.nfc.nci_wait_rsp_timer
      /\ y.nfc.flags = {} /\ ~y.nfc.rawVsCbflag
  <2>1. /\ n.nci_cmd_window = 1 /\ n.nci_cmd_xmit_q = <<>> /\ n.report = "none"
        /\ ~n.nci_wait_rsp_timer /\ n.flags = {} /\ ~n.rawVsCbflag
        /\ "nfc_state" \in DOMAIN n
    BY OwnedFacts DEF InitNfcCb
  <2> HIDE DEF n, y
  <2> DEFINE p == [n EXCEPT !.nfc_state = "W4_HAL_OPEN"]
  <2>2. /\ p.nfc_state = "W4_HAL_OPEN" /\ p.nci_cmd_window = n.nci_cmd_window
        /\ p.nci_cmd_xmit_q = n.nci_cmd_xmit_q /\ p.report = n.report
        /\ p.nci_wait_rsp_timer = n.nci_wait_rsp_timer /\ p.flags = n.flags
        /\ p.rawVsCbflag = n.rawVsCbflag
    BY <2>1
  <2> QED
    BY <1>2, <2>1, <2>2
<1>4. /\ y.hal.link = "OPENING" /\ y.hal.mbox = <<>> /\ ~y.hal.ready /\ y.hal.pending = <<>>
      /\ y.hal.job = "none" /\ ~y.hal.ntf /\ y.hal.recovered = <<>>
  <2> HIDE DEF k
  <2>1. h.mbox = <<>> /\ ~h.ready /\ DOMAIN h = DOMAIN hal
    BY OwnedFacts DEF HalBlock
  <2>2. /\ "link" \in DOMAIN h /\ "mbox" \in DOMAIN h /\ "ready" \in DOMAIN h /\ "pending" \in DOMAIN h
        /\ "job" \in DOMAIN h /\ "ntf" \in DOMAIN h /\ "recovered" \in DOMAIN h
    BY <2>1, OwnedFacts DEF HalBlock
  <2> HIDE DEF h
  <2>3. /\ Transport(h, "OPENING").link = "OPENING" /\ Transport(h, "OPENING").mbox = h.mbox
        /\ Transport(h, "OPENING").ready = h.ready /\ Transport(h, "OPENING").pending = <<>>
        /\ Transport(h, "OPENING").job = "none" /\ ~Transport(h, "OPENING").ntf
        /\ Transport(h, "OPENING").recovered = <<>>
    BY <2>2 DEF Transport
  <2> QED
    BY <1>2, <2>1, <2>3
<1>5. There = y
  <2>1. y = [nfc |-> y.nfc, hal |-> y.hal]
    BY DEF HalOpen, Hal, SetState, Nfc
  <2> HIDE DEF y
  <2> QED
    BY <1>1, <2>1 DEF There, Become
<1> HIDE DEF y
<1>6. Chan(y)
  BY <1>3, <1>4, EmptyChan
<1>7. Opening(y)
  BY <1>3, <1>4 DEF Opening, Fresh
<1>8. Phase(y)
  BY <1>3, <1>4, <1>7 DEF Phase
<1> QED
  BY <1>5, <1>6, <1>8 DEF Kept

(* What noting a request changes. *)
LEMMA AskedFacts ==
  ASSUME NEW x \in Pair, NEW r \in Request
  PROVE  LET y == Asked(x, r) IN
         /\ y \in Pair /\ y.hal = x.hal /\ y.nfc.report = "none" /\ Alike(x.nfc, y.nfc)
         /\ y.nfc.flags = x.nfc.flags /\ y.nfc.rawVsCbflag = x.nfc.rawVsCbflag
         /\ y.nfc.nfc_state = x.nfc.nfc_state
         /\ y.nfc.nci_cmd_window = x.nfc.nci_cmd_window
         /\ y.nfc.nci_cmd_xmit_q = x.nfc.nci_cmd_xmit_q
         /\ y.nfc.nci_wait_rsp_timer = x.nfc.nci_wait_rsp_timer
<1> DEFINE n == [x.nfc EXCEPT !.asked = r, !.report = "none"]
           y == Asked(x, r)
<1>1. /\ n.report = "none" /\ Alike(x.nfc, n)
      /\ n.flags = x.nfc.flags /\ n.rawVsCbflag = x.nfc.rawVsCbflag
      /\ n.nfc_state = x.nfc.nfc_state /\ n.nci_cmd_window = x.nfc.nci_cmd_window
      /\ n.nci_cmd_xmit_q = x.nfc.nci_cmd_xmit_q
      /\ n.nci_wait_rsp_timer = x.nfc.nci_wait_rsp_timer
  BY PairFields DEF ControlBlock, Alike
<1>2. y = Nfc(x, n) /\ y \in Pair
  BY AskedType DEF Asked
<1> HIDE DEF n
<1>3. y.nfc = n /\ y.hal = x.hal
  BY <1>2 DEF Nfc
<1> HIDE DEF y
<1> QED
  BY <1>1, <1>2, <1>3 DEF y

(* NFC_Disable shuts down in whatever state the stack is. *)
LEMMA DisableKept == ASSUME Owned, NfcDisable PROVE Kept
<1> DEFINE x == Asked(Now, "DISABLE")
<1>1. /\ x \in Pair /\ x.hal = hal /\ x.nfc.report = "none" /\ Alike(nfc_cb, x.nfc)
      /\ x.nfc.flags = nfc_cb.flags /\ x.nfc.rawVsCbflag = nfc_cb.rawVsCbflag
      /\ x.nfc.nfc_state = nfc_cb.nfc_state /\ x.nfc.nci_cmd_window = nfc_cb.nci_cmd_window
      /\ x.nfc.nci_cmd_xmit_q = nfc_cb.nci_cmd_xmit_q
  <2>1. /\ x \in Pair /\ x.hal = Now.hal /\ x.nfc.report = "none" /\ Alike(Now.nfc, x.nfc)
        /\ x.nfc.flags = Now.nfc.flags /\ x.nfc.rawVsCbflag = Now.nfc.rawVsCbflag
        /\ x.nfc.nfc_state = Now.nfc.nfc_state /\ x.nfc.nci_cmd_window = Now.nfc.nci_cmd_window
        /\ x.nfc.nci_cmd_xmit_q = Now.nfc.nci_cmd_xmit_q
    BY OwnedFacts, AskedFacts DEF Request
  <2> HIDE DEF x
  <2> QED
    BY <2>1, NowTwin, TypeFacts DEF Owned, Same, Twin, Alike
<1> HIDE DEF x
<1>2. Chan(Here) /\ Phase(Here) /\ "disable_early" \notin env.calls
  BY DEF Owned, Calm, Undisturbed, NoRecovery
<1>3. nfc_cb.report # "none" /\ nfc_cb.nfc_state # "W4_HAL_CLOSE"
  BY <1>2 DEF NfcDisable
<1>4. CASE nfc_cb.nfc_state \in {"NONE", "NFCC_POWER_OFF_SLEEP"}
  <2> DEFINE n == [x.nfc EXCEPT !.nfc_state = "NONE", !.report = "DISABLE", !.p_resp_cback = FALSE]
             y == Disabled(x)
  <2>1. Become(y)
    BY <1>1, <1>4 DEF NfcDisable, Disable, x
  <2>2. /\ Alike(x.nfc, n) /\ n.flags = x.nfc.flags /\ n.rawVsCbflag = x.nfc.rawVsCbflag
        /\ n.nfc_state = "NONE" /\ n.nci_cmd_window = x.nfc.nci_cmd_window
        /\ n.nci_cmd_xmit_q = x.nfc.nci_cmd_xmit_q
    BY <1>1, PairFields DEF ControlBlock, Alike
  <2>3. y = Nfc(x, n) /\ y \in Pair
    BY <1>1, DisabledType DEF Disabled
  <2> HIDE DEF n
  <2>4. y.nfc = n /\ y.hal = hal
    BY <1>1, <2>3 DEF Nfc
  <2> HIDE DEF y
  <2>5. y.nfc.nci_wait_rsp_timer \in BOOLEAN /\ nfc_cb.nci_wait_rsp_timer \in BOOLEAN
    BY <2>3, OwnedFacts, PairFields, BlockTypes
  <2>6. Alike(nfc_cb, y.nfc) /\ y.nfc.flags = nfc_cb.flags
        /\ y.nfc.rawVsCbflag = nfc_cb.rawVsCbflag /\ y.nfc.nfc_state = "NONE"
        /\ y.nfc.nci_cmd_window = nfc_cb.nci_cmd_window
        /\ y.nfc.nci_cmd_xmit_q = nfc_cb.nci_cmd_xmit_q
    BY <1>1, <2>2, <2>4 DEF Alike
  <2>7. Chan(y)
    BY <1>2, <2>4, <2>5, <2>6, OwnedFacts, AlikeChan
  <2>8. Opened(Here) \/ Off(Here) \/ Running(Here)
    BY <1>2, <1>4, OwnedFacts DEF Phase, Opening, Failed, Closing
  <2>9. Opened(y) \/ Off(y) \/ Running(y)
    <3>1. CASE Opened(Here)
      BY <2>4, <2>6, <3>1, OwnedFacts DEF Opened, Fresh
    <3>2. CASE Off(Here)
      BY <2>4, <2>6, <3>2, OwnedFacts DEF Off, Fresh
    <3>3. CASE Running(Here)
      BY <2>4, <2>6, <3>3, OwnedFacts DEF Running
    <3> QED
      BY <2>8, <3>1, <3>2, <3>3
  <2>10. Phase(y)
    BY <1>2, <2>4, <2>6, <2>9, OwnedFacts DEF Phase
  <2> QED
    BY <2>1, <2>3, <2>7, <2>10, Becomes
<1>5. CASE nfc_cb.nfc_state \notin {"NONE", "NFCC_POWER_OFF_SLEEP"}
  <2>1. Become(ShutdownNfcc(x))
    BY <1>1, <1>5 DEF NfcDisable, Disable, x
  <2>2. ~hal.ready
    BY <1>2, <1>3, <1>5, OwnedFacts DEF Phase, Opening, Opened, Failed, Closing, Off, Running
  <2>3. /\ "RESTARTING" \in x.nfc.flags => "sleep" \in env.calls
        /\ x.nfc.rawVsCbflag => "RAW" \in UserCmds
    BY <1>1, <1>2, OwnedFacts DEF Phase
  <2>4. ShutdownNfcc(x) \in Pair /\ Chan(ShutdownNfcc(x)) /\ Phase(ShutdownNfcc(x))
    BY <1>1, <2>2, <2>3, OwnedFacts, ShutdownStep
  <2> QED
    BY <2>1, <2>4, Becomes
<1> QED
  BY <1>4, <1>5

(* A step of a stack that runs. *)
LEMMA RunningKept ==
  ASSUME Owned, NEW x, Same(Here, x), Running(Here), NEW y \in Pair, Become(y),
         Step(x, y)
  PROVE  Kept
<1>1. x \in Pair /\ Chan(x) /\ Phase(x) /\ Running(x)
  BY OwnedFacts, SameKept DEF Owned
<1>2. x.hal.link # "OPENING"
  BY <1>1 DEF Running
<1>3. Chan(y) /\ Phase(y)
  BY <1>1, <1>2, OwnedFacts, RunOn DEF Step
<1> QED
  BY <1>3, Becomes

(* An idle stack runs. *)
LEMMA IdleRuns == ASSUME Owned, nfc_cb.nfc_state = "IDLE" PROVE Running(Here) /\ ~hal.ready
BY OwnedFacts DEF Owned, Phase, Opening, Opened, Failed, Closing, Off, Running

(* NFC_DiscoveryStart asks the HAL, which is granted an open window only. *)
LEMMA DiscoveryKept == ASSUME Owned, NfcDiscoveryStart PROVE Kept
<1> DEFINE c == Called(Now)
           x == Flagged(c, {"DISCOVER_PENDING", "CONTROL_REQUESTED"})
           n == [x.nfc EXCEPT !.p_disc_pending = TRUE]
           u == Nfc(x, n)
<1>1. PICK ch \in Choice : \/ Become(CheckCmdQueue(u, ch)) \/ Become(x)
  BY DEF NfcDiscoveryStart
<1>2. Same(Here, c) /\ c \in Pair /\ Running(Here)
  BY CalledTwin, IdleRuns DEF Owned, NfcDiscoveryStart, MayCall, Same, Twin
<1> HIDE DEF c
<1>3. x \in Pair /\ Step(c, x)
  BY <1>2, FlaggedStep DEF NFC_FL
<1> HIDE DEF x
<1>4. n \in ControlBlock
  BY <1>3, PairFields, BlockTypes, FieldTypes
<1>5. /\ Alike(x.nfc, n) /\ n.flags = x.nfc.flags /\ n.rawVsCbflag = x.nfc.rawVsCbflag
      /\ n.nfc_state = x.nfc.nfc_state
  BY <1>3, PairFields DEF ControlBlock, Alike
<1> HIDE DEF n
<1>6. u \in Pair /\ Step(x, u)
  BY <1>3, <1>4, <1>5, NfcStep, NfcType
<1> HIDE DEF u
<1>7. CheckCmdQueue(u, ch) \in Pair /\ Step(u, CheckCmdQueue(u, ch))
  BY <1>6, OwnedFacts, CheckType, CheckStep
<1> HIDE DEF Step
<1>8. Step(c, CheckCmdQueue(u, ch))
  BY <1>3, <1>6, <1>7, StepTrans
<1> QED
  BY <1>1, <1>2, <1>3, <1>7, <1>8, RunningKept

(* NFC_Deactivate queues or writes. *)
LEMMA DeactivateKept == ASSUME Owned, NfcDeactivate PROVE Kept
<1> DEFINE x == Called(Now)
           m == Now.nfc
           f == m.flags \ ({"DISCOVER_PENDING"} \cup
                            IF "HAL_REQUESTED" \in m.flags THEN {} ELSE {"CONTROL_REQUESTED"})
           n == [m EXCEPT !.flags = f, !.p_disc_pending = FALSE]
<1>1. PICK ch \in Choice : Become(Nfc(x, n)) \/ Become(Send(x, "DEACTIVATE", ch))
  BY DEF NfcDeactivate
<1>2. hal.calls < MaxCalls /\ Running(Here)
  BY IdleRuns DEF Owned, NfcDeactivate, MayCall
<1>3. Same(Here, x) /\ x \in Pair /\ x.nfc = m
  BY <1>2, CalledTwin, CalledNow DEF Owned
<1>4. m \in ControlBlock /\ f \in SUBSET NFC_FL /\ f \subseteq m.flags
      /\ ("CONTROL_GRANTED" \in f <=> "CONTROL_GRANTED" \in m.flags)
  BY OwnedFacts, PairFields, BlockTypes
<1> HIDE DEF x, m, f
<1>5. n \in ControlBlock
  BY <1>4 DEF ControlBlock
<1>6. /\ Alike(m, n) /\ n.flags = f /\ n.rawVsCbflag = m.rawVsCbflag /\ n.nfc_state = m.nfc_state
  BY <1>4 DEF ControlBlock, Alike
<1> HIDE DEF n
<1>7. Nfc(x, n) \in Pair /\ Step(x, Nfc(x, n))
  BY <1>3, <1>4, <1>5, <1>6, NfcStep, NfcType
<1>8. Send(x, "DEACTIVATE", ch) \in Pair /\ Step(x, Send(x, "DEACTIVATE", ch))
  BY <1>3, OwnedFacts, SendType, SendStep DEF StackCmd
<1> HIDE DEF Step
<1> QED
  BY <1>1, <1>2, <1>3, <1>7, <1>8, RunningKept

(* The vendor commands queue or write. *)
LEMMA VsCommandKept == ASSUME Owned, NfcSendVsCommand PROVE Kept
<1> DEFINE k == hal.cmds + 1
           h == [hal EXCEPT !.cmds = k]
           x == Hal(Now, h)
<1>1. PICK op \in UserCmds, ch \in Choice : Become(SendCmd(x, [op |-> op, id |-> k], ch))
  BY DEF NfcSendVsCommand
<1>2. k \in 0..MaxCmds /\ k \in 1..MaxCmds
  BY OwnedFacts, EnvTypes, HalTypes DEF NfcSendVsCommand
<1>3. [op |-> op, id |-> k] \in Cmd
  BY <1>1, <1>2 DEF Cmd
<1> HIDE DEF k
<1>4. h \in HalBlock
  BY <1>2, OwnedFacts DEF HalBlock
<1>5. /\ h.pending = hal.pending /\ h.job = hal.job /\ h.recovered = hal.recovered
      /\ h.link = hal.link /\ h.ready = hal.ready /\ h.ntf = hal.ntf /\ h.mbox = hal.mbox
  BY OwnedFacts DEF HalBlock
<1> HIDE DEF h
<1>6. Same(Here, x) /\ x \in Pair
  BY <1>4, <1>5, OwnedFacts, HalTwin DEF Owned, Same, Twin
<1> HIDE DEF x
<1>7. /\ SendCmd(x, [op |-> op, id |-> k], ch) \in Pair
      /\ Step(x, SendCmd(x, [op |-> op, id |-> k], ch))
  BY <1>1, <1>3, <1>6, OwnedFacts, SendCmdType, SendCmdStep
<1>8. Running(Here)
  BY IdleRuns DEF NfcSendVsCommand
<1> HIDE DEF Step
<1> QED
  BY <1>1, <1>6, <1>7, <1>8, RunningKept

(* Power-off sleep and the power cycle close and open the transport. *)
LEMMA PowerKept == ASSUME Owned, NfcSetPowerOffSleep \/ NfcPowerCycleNFCC PROVE Kept
<1> DEFINE c == Called(Now)
           u(f) == Flagged(c, {f})
           x(f, r) == Asked(u(f), r)
<1>1. \/ /\ nfc_cb.nfc_state = "IDLE"
         /\ \E f \in {"POWER_OFF_SLEEP", "POWER_CYCLE_NFCC"}, r \in Request : Become(ShutdownNfcc(x(f, r)))
      \/ /\ nfc_cb.nfc_state = "NFCC_POWER_OFF_SLEEP" /\ "sleep" \in env.calls
         /\ Become(HalOpen(x("RESTARTING", "RESTART")))
  BY DEF NfcSetPowerOffSleep, NfcPowerCycleNFCC, Request, MayCall
<1>2. Same(Here, c) /\ c \in Pair
  BY CalledTwin DEF Owned, NfcSetPowerOffSleep, NfcPowerCycleNFCC, MayCall, Same, Twin
<1> HIDE DEF c
<1>3. ASSUME NEW f \in {"POWER_OFF_SLEEP", "POWER_CYCLE_NFCC", "RESTARTING"}, NEW r \in Request
      PROVE  /\ x(f, r) \in Pair /\ x(f, r).hal = c.hal /\ x(f, r).nfc.report = "none"
             /\ x(f, r).nfc.flags = nfc_cb.flags \cup {f}
             /\ x(f, r).nfc.rawVsCbflag = nfc_cb.rawVsCbflag
             /\ x(f, r).nfc.nci_cmd_window = nfc_cb.nci_cmd_window
             /\ x(f, r).nfc.nci_cmd_xmit_q = nfc_cb.nci_cmd_xmit_q
             /\ x(f, r).nfc.nci_wait_rsp_timer = nfc_cb.nci_wait_rsp_timer
  <2> DEFINE v == u(f)
             y == x(f, r)
  <2>1. {f} \in SUBSET NFC_FL /\ "CONTROL_GRANTED" \notin {f}
    BY DEF NFC_FL
  <2>2. v \in Pair /\ v.hal = c.hal /\ v.nfc = [c.nfc EXCEPT !.flags = c.nfc.flags \cup {f}]
    BY <1>2, <2>1, FlaggedStep
  <2> HIDE DEF v
  <2>3. /\ v.nfc.flags = c.nfc.flags \cup {f} /\ v.nfc.rawVsCbflag = c.nfc.rawVsCbflag
        /\ v.nfc.nci_cmd_window = c.nfc.nci_cmd_window
        /\ v.nfc.nci_cmd_xmit_q = c.nfc.nci_cmd_xmit_q
        /\ v.nfc.nci_wait_rsp_timer = c.nfc.nci_wait_rsp_timer
    <3> DEFINE b == c.nfc
               d == c.nfc.flags \cup {f}
    <3>1. b \in ControlBlock /\ v.nfc = [b EXCEPT !.flags = d]
      BY <1>2, <2>2, PairFields
    <3> HIDE DEF b, d
    <3>2. /\ v.nfc.flags = d /\ v.nfc.rawVsCbflag = b.rawVsCbflag
          /\ v.nfc.nci_cmd_window = b.nci_cmd_window
          /\ v.nfc.nci_cmd_xmit_q = b.nci_cmd_xmit_q
          /\ v.nfc.nci_wait_rsp_timer = b.nci_wait_rsp_timer
      BY <3>1 DEF ControlBlock
    <3> QED
      BY <3>2 DEF b, d
  <2>4. /\ y \in Pair /\ y.hal = v.hal /\ y.nfc.report = "none"
        /\ y.nfc.flags = v.nfc.flags /\ y.nfc.rawVsCbflag = v.nfc.rawVsCbflag
        /\ y.nfc.nci_cmd_window = v.nfc.nci_cmd_window
        /\ y.nfc.nci_cmd_xmit_q = v.nfc.nci_cmd_xmit_q
        /\ y.nfc.nci_wait_rsp_timer = v.nfc.nci_wait_rsp_timer
    BY <2>2, AskedFacts DEF v
  <2>5. /\ c.nfc.flags = nfc_cb.flags /\ c.nfc.rawVsCbflag = nfc_cb.rawVsCbflag
        /\ c.nfc.nci_cmd_window = nfc_cb.nci_cmd_window
        /\ c.nfc.nci_cmd_xmit_q = nfc_cb.nci_cmd_xmit_q
        /\ c.nfc.nci_wait_rsp_timer = nfc_cb.nci_wait_rsp_timer
    BY <1>2 DEF Same, Twin, Here
  <2> SUFFICES /\ y \in Pair /\ y.hal = c.hal /\ y.nfc.report = "none"
               /\ y.nfc.flags = nfc_cb.flags \cup {f}
               /\ y.nfc.rawVsCbflag = nfc_cb.rawVsCbflag
               /\ y.nfc.nci_cmd_window = nfc_cb.nci_cmd_window
               /\ y.nfc.nci_cmd_xmit_q = nfc_cb.nci_cmd_xmit_q
               /\ y.nfc.nci_wait_rsp_timer = nfc_cb.nci_wait_rsp_timer
    OBVIOUS
  <2> HIDE DEF y
  <2> QED
    BY <2>2, <2>3, <2>4, <2>5
<1> HIDE DEF x
<1>4. Phase(Here) /\ Chan(Here)
  BY DEF Owned
<1>5. CASE nfc_cb.nfc_state = "IDLE"
  <2>1. PICK f \in {"POWER_OFF_SLEEP", "POWER_CYCLE_NFCC"} : \E r \in Request : Become(ShutdownNfcc(x(f, r)))
    BY <1>1, <1>5
  <2>2. PICK r \in Request : Become(ShutdownNfcc(x(f, r)))
    BY <2>1
  <2> DEFINE y == x(f, r)
  <2>3. /\ y \in Pair /\ y.hal = c.hal /\ y.nfc.report = "none"
        /\ y.nfc.flags = nfc_cb.flags \cup {f} /\ y.nfc.rawVsCbflag = nfc_cb.rawVsCbflag
    BY <1>3, <2>1, <2>2
  <2> HIDE DEF y
  <2>4. ~y.hal.ready
    BY <1>2, <1>5, <2>3, IdleRuns, OwnedFacts DEF Same, Twin
  <2>5. /\ "RESTARTING" \in y.nfc.flags => "sleep" \in env.calls
        /\ y.nfc.rawVsCbflag => "RAW" \in UserCmds
    BY <1>4, <2>1, <2>3, OwnedFacts DEF Phase
  <2>6. ShutdownNfcc(y) \in Pair /\ Chan(ShutdownNfcc(y)) /\ Phase(ShutdownNfcc(y))
    BY <2>3, <2>4, <2>5, OwnedFacts, ShutdownStep
  <2> QED
    BY <2>2, <2>6, Becomes DEF y
<1>6. CASE nfc_cb.nfc_state = "NFCC_POWER_OFF_SLEEP"
  <2> DEFINE w == x("RESTARTING", "RESTART")
             y == HalOpen(w)
  <2>1. Become(y) /\ "sleep" \in env.calls
    BY <1>1, <1>6
  <2>2. /\ w \in Pair /\ w.hal = c.hal /\ w.nfc.report = "none"
        /\ w.nfc.rawVsCbflag = nfc_cb.rawVsCbflag
        /\ w.nfc.nci_cmd_window = nfc_cb.nci_cmd_window
        /\ w.nfc.nci_cmd_xmit_q = nfc_cb.nci_cmd_xmit_q
        /\ w.nfc.nci_wait_rsp_timer = nfc_cb.nci_wait_rsp_timer
    BY <1>3 DEF Request
  <2> HIDE DEF w
  <2>3. Off(Here)
    BY <1>4, <1>6, OwnedFacts DEF Phase, Opening, Opened, Failed, Closing, Off, Running
  <2>4. ~nfc_cb.nci_wait_rsp_timer
    BY <1>4, <2>3, OwnedFacts DEF Off, Fresh, Chan, Free, Busy, Lent, Lost
  <2>5. /\ y \in Pair /\ y.nfc = [w.nfc EXCEPT !.nfc_state = "W4_HAL_OPEN"]
        /\ y.hal.mbox = w.hal.mbox /\ y.hal.ready = w.hal.ready
        /\ y.hal.link = "OPENING" /\ y.hal.pending = <<>> /\ y.hal.job = "none"
        /\ ~y.hal.ntf /\ y.hal.recovered = <<>>
    BY <2>2, OpenFacts
  <2> HIDE DEF y
  <2>6. /\ y.nfc.nfc_state = "W4_HAL_OPEN" /\ y.nfc.report = "none"
        /\ y.nfc.rawVsCbflag = nfc_cb.rawVsCbflag
        /\ y.nfc.nci_cmd_window = 1 /\ y.nfc.nci_cmd_xmit_q = <<>>
        /\ ~y.nfc.nci_wait_rsp_timer
    BY <2>2, <2>3, <2>4, <2>5, OwnedFacts, PairFields DEF ControlBlock, Off, Fresh
  <2>7. y.hal.mbox = <<>> /\ ~y.hal.ready
    BY <1>2, <2>2, <2>3, <2>5, OwnedFacts DEF Off, Same, Twin
  <2>8. Chan(y)
    BY <2>5, <2>6, <2>7, EmptyChan
  <2>9. Opening(y)
    BY <2>5, <2>6, <2>7 DEF Opening, Fresh
  <2>10. Phase(y)
    BY <1>4, <2>1, <2>5, <2>6, <2>7, <2>9, OwnedFacts DEF Phase
  <2> QED
    BY <2>1, <2>5, <2>8, <2>10, Becomes
<1> QED
  BY <1>1, <1>5, <1>6

-----------------------------------------------------------------------------
(* The HAL thread. *)
LEMMA HalThere ==
  ASSUME Owned, NEW h, HalIs(h)
  PROVE  There.nfc = nfc_cb /\ There.hal = h
BY DEF There, HalIs

(* Something other than an answer or an end of control may be posted. *)
LEMMA HalChan ==
  ASSUME Owned, NEW h, HalIs(h),
         \/ h.mbox = hal.mbox
         \/ \E m \in Message : /\ m \notin Answered /\ m \notin Returned
                               /\ h.mbox = Append(hal.mbox, m),
         h.pending = hal.pending, h.recovered = hal.recovered,
         h.job \in Control <=> hal.job \in Control,
         hal.link \in {"CLOSED", "CLOSING"} => h.link \in {"CLOSED", "CLOSING"}
  PROVE  Chan(There)
<1>1. There.nfc = nfc_cb /\ There.hal = h
  BY HalThere
<1>2. hal.mbox \in Seq(Message) /\ nfc_cb.nci_wait_rsp_timer \in BOOLEAN
  BY OwnedFacts, HalTypes, BlockTypes
<1>3. Kin(hal.mbox, h.mbox)
  BY <1>2, KinRefl, KinAppend
<1>4. Alike(nfc_cb, nfc_cb)
  BY DEF Alike
<1> QED
  BY <1>1, <1>2, <1>3, <1>4, OwnedFacts, KinChan DEF Owned

(* A HAL that posts a message to a stack that runs. *)
LEMMA HalRuns ==
  ASSUME Owned, Running(Here), NEW h, HalIs(h),
         \/ h.mbox = hal.mbox
         \/ \E m \in Message : /\ Allowed(m) /\ m.op # "OPEN_CPLT"
                               /\ h.mbox = Append(hal.mbox, m),
         h.ready = hal.ready,
         \/ h.link = hal.link /\ hal.link = "OPEN"
         \/ /\ hal.link = "CLOSING" /\ h.link = "CLOSED" /\ h.pending = hal.pending
            /\ h.job = hal.job /\ h.ntf = hal.ntf
  PROVE  Phase(There)
<1>1. There.nfc = nfc_cb /\ There.hal = h /\ Phase(Here)
  BY HalThere DEF Owned
<1>2. \A i \in DOMAIN h.mbox : Allowed(h.mbox[i]) /\ h.mbox[i].op # "OPEN_CPLT"
  <2>1. \A i \in DOMAIN hal.mbox : Allowed(hal.mbox[i]) /\ hal.mbox[i].op # "OPEN_CPLT"
    BY <1>1, OwnedFacts DEF Phase, Running
  <2>2. CASE h.mbox = hal.mbox
    BY <2>1, <2>2
  <2>3. ASSUME NEW m \in Message, Allowed(m), m.op # "OPEN_CPLT", h.mbox = Append(hal.mbox, m)
        PROVE  \A i \in DOMAIN h.mbox : Allowed(h.mbox[i]) /\ h.mbox[i].op # "OPEN_CPLT"
    <3>1. hal.mbox \in Seq(Message)
      BY OwnedFacts, HalTypes
    <3>2. \A i \in DOMAIN h.mbox : h.mbox[i] = m \/ (i \in DOMAIN hal.mbox /\ h.mbox[i] = hal.mbox[i])
      <4> DEFINE q == hal.mbox
                 r == h.mbox
      <4>1. /\ Len(r) = Len(q) + 1 /\ Len(q) \in Nat /\ DOMAIN r = 1..Len(r)
            /\ DOMAIN q = 1..Len(q) /\ \A i \in 1..Len(q) : r[i] = q[i]
            /\ r[Len(q) + 1] = m
        BY <2>3, <3>1, AppendProperties, LenProperties
      <4> HIDE DEF q, r
      <4>2. \A i \in DOMAIN r : r[i] = m \/ (i \in DOMAIN q /\ r[i] = q[i])
        BY <4>1
      <4> QED
        BY <4>2 DEF q, r
    <3> QED
      BY <2>1, <2>3, <3>2
  <2> QED
    BY <2>2, <2>3
<1>3. Running(There)
  BY <1>1, <1>2, OwnedFacts DEF Running
<1>4. h.link # "OPEN" => (h.pending = <<>> /\ h.job = "none" /\ ~h.ntf)
  BY <1>1, OwnedFacts DEF Phase
<1> QED
  BY <1>1, <1>2, <1>3, <1>4, OwnedFacts DEF Phase

(* What nfc_main_post_hal_evt changes. *)
LEMMA EventPosted ==
  ASSUME Owned, NEW h \in HalBlock, NEW e \in HalEvent, NEW ok \in BOOLEAN
  PROVE  LET k == PostHalEvt(h, e, ok) IN
         /\ k.mbox = Append(h.mbox, Evt(e, ok)) /\ Evt(e, ok) \in Message
         /\ Evt(e, ok).mt = "EVT" /\ Evt(e, ok).op = e /\ Evt(e, ok).ok = ok
         /\ k.pending = h.pending /\ k.job = h.job /\ k.recovered = h.recovered
         /\ k.link = h.link /\ k.ready = h.ready /\ k.ntf = h.ntf
<1>1. PostHalEvt(h, e, ok) = [h EXCEPT !.mbox = Append(h.mbox, Evt(e, ok))]
  BY DEF PostHalEvt
<1>2. Evt(e, ok) \in Message /\ Evt(e, ok).mt = "EVT" /\ Evt(e, ok).op = e /\ Evt(e, ok).ok = ok
  BY DEF Evt, Message
<1> QED
  BY <1>1, <1>2 DEF HalBlock

(* The open completes, or fails. *)
LEMMA OpenCpltKept == ASSUME Owned, HalOpenCplt PROVE Kept
<1> DEFINE l(ok) == IF ok THEN "OPEN" ELSE "CLOSED"
           f(ok) == IF ok THEN hal.faults ELSE hal.faults + 1
           h(ok) == [hal EXCEPT !.link = l(ok), !.faults = f(ok)]
           k(ok) == [h(ok) EXCEPT !.ready = TRUE]
<1>1. Opening(Here) /\ Phase(Here) /\ Chan(Here)
  BY OwnedFacts DEF Owned, Phase, HalOpenCplt, Opened, Failed, Closing, Off, Running
<1>2. nfc_cb.nfc_state = "W4_HAL_OPEN" /\ hal.mbox = <<>> /\ ~hal.ready
  BY <1>1, OwnedFacts DEF Opening
<1>3. PICK ok \in BOOLEAN :
        /\ ok \/ MayFail("open")
        /\ HalIs(IF ok THEN k(ok) ELSE PostHalEvt(h(ok), "OPEN_CPLT", FALSE))
  BY <1>2 DEF HalOpenCplt
<1>4. l(ok) \in {"CLOSED", "OPENING", "OPEN", "CLOSING"} /\ f(ok) \in 0..MaxFaults
  BY <1>3, FaultType, HalTypes, OwnedFacts DEF Owned
<1>5. (ok => l(ok) = "OPEN") /\ (~ok => l(ok) = "CLOSED")
  OBVIOUS
<1> HIDE DEF l, f
<1>6. h(ok) \in HalBlock
  BY <1>4, OwnedFacts DEF HalBlock
<1>7. /\ h(ok).pending = hal.pending /\ h(ok).job = hal.job /\ h(ok).recovered = hal.recovered
      /\ h(ok).link = l(ok) /\ h(ok).ready = hal.ready /\ h(ok).ntf = hal.ntf
      /\ h(ok).mbox = <<>>
  BY <1>2, OwnedFacts DEF HalBlock
<1>8. /\ k(ok).pending = hal.pending /\ k(ok).job = hal.job /\ k(ok).recovered = hal.recovered
      /\ k(ok).link = l(ok) /\ k(ok).ready /\ k(ok).ntf = hal.ntf
      /\ k(ok).mbox = <<>>
  BY <1>2, OwnedFacts DEF HalBlock
<1> HIDE DEF k
<1>9. hal.pending = <<>> /\ hal.job = "none" /\ ~hal.ntf
  BY <1>1, OwnedFacts DEF Phase, Opening
<1>10. CASE ok
  <2>1. HalIs(k(ok)) /\ l(ok) = "OPEN"
    BY <1>3, <1>5, <1>10
  <2>2. There.nfc = nfc_cb /\ There.hal = k(ok)
    BY <2>1, HalThere
  <2>3. Chan(There)
    BY <1>1, <1>2, <1>8, <2>1, HalChan, OwnedFacts DEF Opening
  <2>4. Opened(There)
    BY <1>1, <1>8, <1>9, <2>1, <2>2, OwnedFacts DEF Opened, Opening, Fresh
  <2>5. Phase(There)
    BY <1>1, <1>8, <2>1, <2>2, <2>4, OwnedFacts DEF Phase
  <2> QED
    BY <2>3, <2>5 DEF Kept
<1>11. CASE ~ok
  <2> DEFINE z == PostHalEvt(h(ok), "OPEN_CPLT", FALSE)
             e == Evt("OPEN_CPLT", FALSE)
  <2>1. HalIs(z) /\ l(ok) = "CLOSED"
    BY <1>3, <1>5, <1>11
  <2>2. /\ z.mbox = Append(h(ok).mbox, e) /\ e \in Message
        /\ e.mt = "EVT" /\ e.op = "OPEN_CPLT"
        /\ z.pending = h(ok).pending /\ z.job = h(ok).job /\ z.recovered = h(ok).recovered
        /\ z.link = h(ok).link /\ z.ready = h(ok).ready /\ z.ntf = h(ok).ntf
    <3>1. "OPEN_CPLT" \in HalEvent /\ h(ok) \in HalBlock
      BY <1>6 DEF HalEvent
    <3> HIDE DEF h
    <3> QED
      BY <3>1, EventPosted
  <2> HIDE DEF z, e, h
  <2>3. z.mbox = Append(<<>>, e) /\ z.mbox = <<e>>
    BY <1>7, <2>2
  <2>4. There.nfc = nfc_cb /\ There.hal = z
    BY <2>1, HalThere
  <2>5. e \notin Answered /\ e \notin Returned
    BY <2>2 DEF Answered, Returned
  <2>6. Chan(There)
    <3>1. \E m \in Message : m \notin Answered /\ m \notin Returned /\ z.mbox = Append(hal.mbox, m)
      BY <1>2, <2>2, <2>3, <2>5
    <3> QED
      BY <1>7, <2>1, <2>2, <3>1, HalChan
  <2>7. Failed(There)
    BY <1>1, <1>2, <1>7, <2>1, <2>2, <2>3, <2>4, OwnedFacts DEF Failed, Opening, Fresh, e
  <2>8. \A i \in DOMAIN z.mbox : z.mbox[i] = e
    BY <2>3
  <2>9. Allowed(e)
    BY <2>2 DEF Allowed
  <2>10. Phase(There)
    BY <1>1, <1>7, <1>9, <2>1, <2>2, <2>4, <2>7, <2>8, <2>9, OwnedFacts DEF Phase
  <2> QED
    BY <2>6, <2>10 DEF Kept
<1> QED
  BY <1>10, <1>11

(* The close completes. *)
LEMMA CloseCpltKept == ASSUME Owned, HalCloseCplt PROVE Kept
<1> DEFINE h == [hal EXCEPT !.link = "CLOSED"]
           z == PostHalEvt(h, "CLOSE_CPLT", TRUE)
           e == Evt("CLOSE_CPLT", TRUE)
<1>1. h \in HalBlock
  BY OwnedFacts DEF HalBlock
<1>2. /\ h.pending = hal.pending /\ h.job = hal.job /\ h.recovered = hal.recovered
      /\ h.link = "CLOSED" /\ h.ready = hal.ready /\ h.ntf = hal.ntf /\ h.mbox = hal.mbox
  BY OwnedFacts DEF HalBlock
<1>3. HalIs(z) /\ hal.link = "CLOSING"
  BY DEF HalCloseCplt
<1> HIDE DEF h
<1>4. /\ z.mbox = Append(h.mbox, e) /\ e \in Message
      /\ e.mt = "EVT" /\ e.op = "CLOSE_CPLT"
      /\ z.pending = h.pending /\ z.job = h.job /\ z.recovered = h.recovered
      /\ z.link = h.link /\ z.ready = h.ready /\ z.ntf = h.ntf
  <2>1. "CLOSE_CPLT" \in HalEvent
    BY DEF HalEvent
  <2> QED
    BY <1>1, <2>1, EventPosted
<1> HIDE DEF z, e
<1>5. e \notin Answered /\ e \notin Returned /\ Allowed(e)
  BY <1>4 DEF Answered, Returned, Allowed
<1>6. Chan(There)
  <2>1. \E m \in Message : m \notin Answered /\ m \notin Returned /\ z.mbox = Append(hal.mbox, m)
    BY <1>2, <1>4, <1>5
  <2> QED
    BY <1>2, <1>3, <1>4, <2>1, HalChan
<1>7. There.nfc = nfc_cb /\ There.hal = z
  BY <1>3, HalThere
<1>8. Phase(Here) /\ (Closing(Here) \/ Running(Here))
  BY <1>3, OwnedFacts DEF Owned, Phase, Opening, Opened, Failed, Off
<1>9. CASE Closing(Here)
  <2>1. hal.mbox = <<>> /\ z.mbox = Append(<<>>, e) /\ z.mbox = <<e>>
    <3>1. hal.mbox = <<>>
      BY <1>3, <1>9, OwnedFacts DEF Closing
    <3>2. Append(<<>>, e) = <<e>>
      OBVIOUS
    <3> QED
      BY <1>2, <1>4, <3>1, <3>2
  <2>2. Closing(There)
    BY <1>2, <1>4, <1>7, <1>9, <2>1, OwnedFacts DEF Closing, Fresh, e
  <2>3. \A i \in DOMAIN z.mbox : z.mbox[i] = e
    BY <2>1
  <2>4. hal.pending = <<>> /\ hal.job = "none" /\ ~hal.ntf
    BY <1>3, <1>8, OwnedFacts DEF Phase
  <2>5. Phase(There)
    BY <1>2, <1>4, <1>5, <1>7, <1>8, <2>2, <2>3, <2>4, OwnedFacts DEF Phase
  <2> QED
    BY <1>6, <2>5 DEF Kept
<1>10. CASE Running(Here)
  <2>1. \E m \in Message : Allowed(m) /\ m.op # "OPEN_CPLT" /\ z.mbox = Append(hal.mbox, m)
    BY <1>2, <1>4, <1>5
  <2>2. Phase(There)
    BY <1>2, <1>3, <1>4, <1>10, <2>1, HalRuns
  <2> QED
    BY <1>6, <2>2 DEF Kept
<1> QED
  BY <1>8, <1>9, <1>10

(* The transport is open: the stack runs, or is about to. *)
LEMMA OpenRuns ==
  ASSUME Owned, hal.link = "OPEN"
  PROVE  /\ Opened(Here) \/ Running(Here)
         /\ hal.pending # <<>> \/ hal.ntf \/ hal.job # "none" => Running(Here)
         /\ Running(Here) => nfc_cb.nfc_state # "W4_HAL_CLOSE" /\ ~hal.ready
<1>1. Opened(Here) \/ Running(Here)
  BY OwnedFacts DEF Owned, Phase, Opening, Failed, Closing, Off
<1>2. Opened(Here) => hal.pending = <<>> /\ ~hal.ntf /\ hal.job = "none"
  BY OwnedFacts DEF Owned, Opened, Fresh, Chan, Free, Busy, Lent, Lost, Unused
<1>3. Running(Here) => nfc_cb.nfc_state # "W4_HAL_CLOSE" /\ ~hal.ready
  BY OwnedFacts DEF Running
<1> QED
  BY <1>1, <1>2, <1>3

(* What nfc_main_hal_data_cback changes. *)
LEMMA DataPosted ==
  ASSUME NEW h \in HalBlock, NEW m, nfc_cb.nfc_state # "W4_HAL_CLOSE"
  PROVE  LET k == HalDataCback(h, m) IN
         /\ k.mbox = Append(h.mbox, m)
         /\ k.pending = h.pending /\ k.job = h.job /\ k.recovered = h.recovered
         /\ k.link = h.link /\ k.ready = h.ready /\ k.ntf = h.ntf
BY DEF HalDataCback, HalBlock

(* The answer of the command that was written. *)
LEMMA RspKept == ASSUME Owned, HalRsp \/ HalRecovered PROVE Kept
<1>0. hal.recovered = <<>>
  BY OwnedFacts DEF Owned, Chan
<1>1. HalRsp /\ hal.link = "OPEN" /\ hal.pending # <<>>
  BY <1>0 DEF HalRecovered, HalRsp
<1>2. Running(Here) /\ nfc_cb.nfc_state # "W4_HAL_CLOSE" /\ ~hal.ready
  BY <1>1, OpenRuns
<1>3. ~MayFail("lost_rsp") /\ \A op : ~MayFail(Refusal(op))
  BY DEF Owned, Calm, Undisturbed, NoRecovery, MayFail, Refusal
<1> DEFINE c == Head(hal.pending)
           p == Tail(hal.pending)
           h == [hal EXCEPT !.pending = p]
           b == h.ntf \/ (TRUE /\ c.op = "CORE_RESET" /\ NciVersion = "2_0")
           k == [h EXCEPT !.ntf = b]
           m == Rsp(c, TRUE)
           z == HalDataCback(k, m)
<1>4. HalIs(z)
  BY <1>1, <1>3 DEF HalRsp, Answer
<1>5. /\ Chan(Here) /\ nfc_cb.nci_cmd_window = 0 /\ hal.job \notin Control /\ None(hal.mbox, Returned)
      /\ None(hal.mbox, Answered)
      /\ Len(hal.pending) = 1 /\ hal.pending[1].op = nfc_cb.last_hdr
  BY <1>1, OwnedFacts DEF Owned, Chan, Free, Busy, Lent, Lost, Unused
<1>6. p = <<>> /\ c \in Cmd /\ c.op = nfc_cb.last_hdr /\ p \in Seq(Cmd)
  <2>1. hal.pending \in Seq(Cmd) /\ c = hal.pending[1] /\ c \in Cmd /\ p \in Seq(Cmd) /\ Len(p) = 0
    BY <1>1, <1>5, OwnedFacts, HalTypes, HeadTailProperties
  <2>2. p = <<>>
    BY <2>1, EmptySeq
  <2> QED
    BY <1>5, <2>1, <2>2
<1>7. c.op \in StackCmd \cup UserCmds /\ c.id \in 0..MaxCmds /\ UserCmds \subseteq {"VSC", "RAW"}
  BY <1>6, OwnedFacts, EnvTypes DEF Cmd
<1> HIDE DEF c
<1>8. m \in Message /\ m.mt = "RSP" /\ m.op = c.op /\ m.ok
  BY <1>7 DEF Rsp, Message
<1> HIDE DEF p, m
<1>9. h \in HalBlock
  BY <1>6, OwnedFacts DEF HalBlock
<1>10. /\ h.pending = p /\ h.job = hal.job /\ h.recovered = hal.recovered
       /\ h.link = hal.link /\ h.ready = hal.ready /\ h.mbox = hal.mbox /\ b \in BOOLEAN
  BY <1>9, OwnedFacts, HalTypes DEF HalBlock
<1> HIDE DEF h, b
<1>11. k \in HalBlock
  BY <1>9, <1>10 DEF HalBlock
<1>12. /\ k.pending = p /\ k.job = hal.job /\ k.recovered = hal.recovered
       /\ k.link = hal.link /\ k.ready = hal.ready /\ k.mbox = hal.mbox
  BY <1>9, <1>10 DEF HalBlock
<1> HIDE DEF k
<1>13. /\ z.mbox = Append(hal.mbox, m) /\ z.pending = p /\ z.job = hal.job
       /\ z.recovered = hal.recovered /\ z.link = hal.link /\ z.ready = hal.ready
  BY <1>2, <1>11, <1>12, DataPosted
<1> HIDE DEF z
<1>14. There.nfc = nfc_cb /\ There.hal = z
  BY <1>4, HalThere
<1>15. Chan(There)
  <2>1. hal.mbox \in Seq(Message)
    BY OwnedFacts, HalTypes
  <2>2. None(hal.mbox, AnswerOf(nfc_cb.last_hdr))
    BY <1>5 DEF None, AnswerOf, Answered
  <2>3. m \in Answered /\ m \in AnswerOf(nfc_cb.last_hdr) /\ m \notin Returned
    BY <1>6, <1>7, <1>8 DEF Answered, AnswerOf, Returned, StackCmd
  <2>4. /\ Once(z.mbox, Answered) /\ Once(z.mbox, AnswerOf(nfc_cb.last_hdr))
        /\ None(z.mbox, Returned)
    BY <1>5, <1>8, <1>13, <2>1, <2>2, <2>3, NoneAppend
  <2>5. Busy(There)
    BY <1>5, <1>6, <1>13, <1>14, <2>4 DEF Busy
  <2> QED
    BY <1>0, <1>13, <1>14, <2>5 DEF Chan
<1>16. Allowed(m) /\ m.op # "OPEN_CPLT"
  BY <1>7, <1>8 DEF Allowed, StackCmd
<1>17. Phase(There)
  BY <1>1, <1>2, <1>4, <1>8, <1>13, <1>16, HalRuns
<1> QED
  BY <1>15, <1>17 DEF Kept

(* A message that is no answer is posted to a stack that runs. *)
LEMMA PostedKept ==
  ASSUME Owned, Running(Here), hal.link = "OPEN", NEW z, HalIs(z),
         z.pending = hal.pending, z.recovered = hal.recovered,
         z.job \in Control <=> hal.job \in Control,
         z.link = hal.link, z.ready = hal.ready,
         \/ z.mbox = hal.mbox
         \/ \E m \in Message : /\ m \notin Answered /\ m \notin Returned /\ Allowed(m)
                               /\ m.op # "OPEN_CPLT" /\ z.mbox = Append(hal.mbox, m)
  PROVE  Kept
<1>1. Chan(There)
  BY HalChan
<1>2. Phase(There)
  BY HalRuns
<1> QED
  BY <1>1, <1>2 DEF Kept

(* A notification does not touch the channel. *)
LEMMA NotificationKept == ASSUME Owned, HalResetNtf \/ HalStrayNtf PROVE Kept
<1>1. hal.link = "OPEN"
  BY DEF HalResetNtf, HalStrayNtf
<1>2. Running(Here) /\ nfc_cb.nfc_state # "W4_HAL_CLOSE"
  BY <1>1, OpenRuns, IdleRuns DEF HalResetNtf, HalStrayNtf
<1>3. ~MayFail("reset") /\ (MayFail("stray") => "stray" \in env.faults)
  BY DEF Owned, Calm, Undisturbed, NoRecovery, MayFail
<1> DEFINE a == [hal EXCEPT !.ntf = FALSE]
           k == hal.faults + 1
           b == [hal EXCEPT !.ntf = FALSE, !.faults = k]
           d == [hal EXCEPT !.faults = k]
           r == Ntf("CORE_RESET", TRUE)
           s == Ntf("OTHER", TRUE)
<1>4. \/ HalIs(HalDataCback(a, r))
      \/ HalIs(b)
      \/ "stray" \in env.faults /\ k \in 0..MaxFaults /\ HalIs(HalDataCback(d, s))
  BY <1>3, FaultType, OwnedFacts DEF HalResetNtf, HalStrayNtf, Owned
<1> HIDE DEF k
<1>5. a \in HalBlock /\ (k \in 0..MaxFaults => d \in HalBlock)
  BY OwnedFacts DEF HalBlock
<1>6. \A h \in {a, b, d} :
        /\ h.pending = hal.pending /\ h.job = hal.job /\ h.recovered = hal.recovered
        /\ h.link = hal.link /\ h.ready = hal.ready /\ h.mbox = hal.mbox
  BY OwnedFacts DEF HalBlock
<1>7. /\ r \in Message /\ r \notin Answered /\ r \notin Returned /\ r.op # "OPEN_CPLT" /\ Allowed(r)
      /\ s \in Message /\ s \notin Answered /\ s \notin Returned /\ s.op # "OPEN_CPLT"
      /\ "stray" \in env.faults => Allowed(s)
  <2>1. r.mt = "NTF" /\ r.op = "CORE_RESET" /\ r.ok /\ s.mt = "NTF" /\ s.op = "OTHER" /\ s.ok
    BY DEF Ntf
  <2> QED
    BY <2>1, NtfType DEF Answered, Returned, Allowed
<1> HIDE DEF a, b, d, r, s
<1>8. CASE HalIs(HalDataCback(a, r))
  <2> DEFINE z == HalDataCback(a, r)
  <2>1. /\ z.mbox = Append(hal.mbox, r) /\ z.pending = hal.pending /\ z.job = hal.job
        /\ z.recovered = hal.recovered /\ z.link = hal.link /\ z.ready = hal.ready
    BY <1>2, <1>5, <1>6, DataPosted
  <2> HIDE DEF z
  <2>2. \E m \in Message : /\ m \notin Answered /\ m \notin Returned /\ Allowed(m)
                           /\ m.op # "OPEN_CPLT" /\ z.mbox = Append(hal.mbox, m)
    BY <1>7, <2>1
  <2> QED
    BY <1>1, <1>2, <1>8, <2>1, <2>2, PostedKept DEF z
<1>9. CASE HalIs(b)
  BY <1>1, <1>2, <1>6, <1>9, PostedKept
<1>10. CASE "stray" \in env.faults /\ k \in 0..MaxFaults /\ HalIs(HalDataCback(d, s))
  <2> DEFINE z == HalDataCback(d, s)
  <2>1. /\ z.mbox = Append(hal.mbox, s) /\ z.pending = hal.pending /\ z.job = hal.job
        /\ z.recovered = hal.recovered /\ z.link = hal.link /\ z.ready = hal.ready
    BY <1>2, <1>5, <1>6, <1>10, DataPosted
  <2> HIDE DEF z
  <2>2. \E m \in Message : /\ m \notin Answered /\ m \notin Returned /\ Allowed(m)
                           /\ m.op # "OPEN_CPLT" /\ z.mbox = Append(hal.mbox, m)
    BY <1>7, <1>10, <2>1
  <2> QED
    BY <1>1, <1>2, <1>10, <2>1, <2>2, PostedKept DEF z
<1> QED
  BY <1>4, <1>8, <1>9, <1>10

(* The HAL's work ends: the event that says so gives the channel back. *)
LEMMA JobDoneKept == ASSUME Owned, HalJobDone PROVE Kept
<1> DEFINE f(ok) == IF ok THEN hal.faults ELSE hal.faults + 1
           h(ok) == [hal EXCEPT !.job = "none", !.faults = f(ok)]
           e == JobDone(hal.job)
<1>1. PICK ok \in BOOLEAN : /\ ok \/ (hal.job = "post_init" /\ MayFail("post_init"))
                            /\ HalIs(PostHalEvt(h(ok), e, ok))
  BY DEF HalJobDone
<1>2. hal.link = "OPEN" /\ hal.job \in {"post_init", "prediscover", "granted"}
  BY OwnedFacts, HalTypes DEF HalJobDone
<1>3. Running(Here)
  BY <1>2, OpenRuns
<1>4. f(ok) \in 0..MaxFaults /\ "none" \in {"none", "post_init", "prediscover", "granted"}
  BY <1>1, FaultType, HalTypes, OwnedFacts DEF Owned
<1> HIDE DEF f
<1>5. h(ok) \in HalBlock
  BY <1>4, OwnedFacts DEF HalBlock
<1>6. /\ h(ok).pending = hal.pending /\ h(ok).job = "none" /\ h(ok).recovered = hal.recovered
      /\ h(ok).link = hal.link /\ h(ok).ready = hal.ready /\ h(ok).ntf = hal.ntf
      /\ h(ok).mbox = hal.mbox
  BY OwnedFacts DEF HalBlock
<1> HIDE DEF h
<1>7. /\ e \in HalEvent /\ e \in {"POST_INIT_CPLT", "PRE_DISCOVER_CPLT", "RELEASE_CONTROL"}
      /\ (hal.job \in Control <=> e \in {"PRE_DISCOVER_CPLT", "RELEASE_CONTROL"})
  BY <1>2 DEF JobDone, HalEvent, Control
<1> HIDE DEF e
<1> DEFINE m == Evt(e, ok)
           z == PostHalEvt(h(ok), e, ok)
<1>8. /\ z.mbox = Append(hal.mbox, m) /\ m \in Message /\ m.mt = "EVT" /\ m.op = e /\ m.ok = ok
      /\ z.pending = hal.pending /\ z.job = "none" /\ z.recovered = hal.recovered
      /\ z.link = hal.link /\ z.ready = hal.ready
  BY <1>1, <1>5, <1>6, <1>7, EventPosted
<1>9. HalIs(z)
  BY <1>1
<1> HIDE DEF m, z
<1>10. m \notin Answered /\ m.op # "OPEN_CPLT" /\ "none" \notin Control
       /\ (m \in Returned <=> hal.job \in Control)
  BY <1>7, <1>8 DEF Answered, Returned, Control
<1>11. Allowed(m)
  <2>1. ok \/ "post_init" \in env.faults
    BY <1>1 DEF MayFail
  <2> QED
    BY <1>7, <1>8, <2>1 DEF Allowed
<1>12. CASE hal.job \notin Control
  <2>1. \E n \in Message : /\ n \notin Answered /\ n \notin Returned /\ Allowed(n)
                           /\ n.op # "OPEN_CPLT" /\ z.mbox = Append(hal.mbox, n)
    BY <1>8, <1>10, <1>11, <1>12
  <2> QED
    BY <1>2, <1>3, <1>8, <1>9, <1>10, <1>12, <2>1, PostedKept
<1>13. CASE hal.job \in Control
  <2>1. There.nfc = nfc_cb /\ There.hal = z
    BY <1>9, HalThere
  <2>2. /\ nfc_cb.nci_cmd_window = 0 /\ ~nfc_cb.nci_wait_rsp_timer
        /\ "CONTROL_GRANTED" \in nfc_cb.flags
        /\ hal.pending = <<>> /\ None(hal.mbox, Answered) /\ None(hal.mbox, Returned)
        /\ hal.recovered = <<>>
    BY <1>13, OwnedFacts DEF Owned, Chan, Free, Busy, Lent, Lost, Unused
  <2>3. hal.mbox \in Seq(Message)
    BY OwnedFacts, HalTypes
  <2>4. None(z.mbox, Answered) /\ Once(z.mbox, Returned)
    BY <1>8, <1>10, <1>13, <2>2, <2>3, NoneAppend
  <2>5. Lent(There)
    BY <1>8, <1>10, <2>1, <2>2, <2>4 DEF Lent
  <2>6. Chan(There)
    BY <1>8, <2>1, <2>2, <2>5 DEF Chan
  <2>7. Phase(There)
    BY <1>2, <1>3, <1>8, <1>9, <1>10, <1>11, HalRuns
  <2> QED
    BY <2>6, <2>7 DEF Kept
<1> QED
  BY <1>12, <1>13

(* The HAL asks for the channel. *)
LEMMA RequestKept == ASSUME Owned, HalRequestControl PROVE Kept
<1> DEFINE k == hal.calls + 1
           h == [hal EXCEPT !.calls = k]
           m == Evt("REQUEST_CONTROL", TRUE)
           z == PostHalEvt(h, "REQUEST_CONTROL", TRUE)
<1>1. HalIs(z) /\ hal.link = "OPEN" /\ hal.calls < MaxCalls /\ Running(Here)
  BY IdleRuns DEF HalRequestControl, MayCall
<1>2. k \in 0..MaxCalls
  BY <1>1, OwnedFacts, HalTypes, EnvTypes
<1> HIDE DEF k
<1>3. h \in HalBlock
  BY <1>2, OwnedFacts DEF HalBlock
<1>4. /\ h.pending = hal.pending /\ h.job = hal.job /\ h.recovered = hal.recovered
      /\ h.link = hal.link /\ h.ready = hal.ready /\ h.ntf = hal.ntf /\ h.mbox = hal.mbox
  BY OwnedFacts DEF HalBlock
<1> HIDE DEF h
<1>5. /\ z.mbox = Append(h.mbox, m) /\ m \in Message
      /\ m.mt = "EVT" /\ m.op = "REQUEST_CONTROL"
      /\ z.pending = h.pending /\ z.job = h.job /\ z.recovered = h.recovered
      /\ z.link = h.link /\ z.ready = h.ready
  <2>1. "REQUEST_CONTROL" \in HalEvent /\ TRUE \in BOOLEAN
    BY DEF HalEvent
  <2> QED
    BY <1>3, <2>1, EventPosted
<1> HIDE DEF m, z
<1>6. \E n \in Message : /\ n \notin Answered /\ n \notin Returned /\ Allowed(n)
                         /\ n.op # "OPEN_CPLT" /\ z.mbox = Append(hal.mbox, n)
  BY <1>4, <1>5 DEF Answered, Returned, Allowed
<1> QED
  BY <1>1, <1>4, <1>5, <1>6, PostedKept

(* The HAL reports an error. *)
LEMMA ErrorKept == ASSUME Owned, HalError PROVE Kept
<1> DEFINE k == hal.faults + 1
           h == [hal EXCEPT !.faults = k]
           m == Evt("ERROR", TRUE)
           z == PostHalEvt(h, "ERROR", TRUE)
<1>1. HalIs(z) /\ hal.link = "OPEN" /\ MayFail("error")
  BY DEF HalError
<1>2. k \in 0..MaxFaults /\ "error" \in env.faults
  BY <1>1, OwnedFacts, FaultType DEF Owned, MayFail
<1> HIDE DEF k
<1>3. h \in HalBlock
  BY <1>2, OwnedFacts DEF HalBlock
<1>4. /\ h.pending = hal.pending /\ h.job = hal.job /\ h.recovered = hal.recovered
      /\ h.link = hal.link /\ h.ready = hal.ready /\ h.ntf = hal.ntf /\ h.mbox = hal.mbox
  BY OwnedFacts DEF HalBlock
<1> HIDE DEF h
<1>5. /\ z.mbox = Append(h.mbox, m) /\ m \in Message
      /\ m.mt = "EVT" /\ m.op = "ERROR"
      /\ z.pending = h.pending /\ z.job = h.job /\ z.recovered = h.recovered
      /\ z.link = h.link /\ z.ready = h.ready /\ z.ntf = h.ntf
  <2>1. "ERROR" \in HalEvent /\ TRUE \in BOOLEAN
    BY DEF HalEvent
  <2> QED
    BY <1>3, <2>1, EventPosted
<1> HIDE DEF m, z
<1>6. m \notin Answered /\ m \notin Returned /\ Allowed(m)
  BY <1>2, <1>5 DEF Answered, Returned, Allowed
<1>7. CASE Running(Here)
  <2>1. \E n \in Message : /\ n \notin Answered /\ n \notin Returned /\ Allowed(n)
                           /\ n.op # "OPEN_CPLT" /\ z.mbox = Append(hal.mbox, n)
    BY <1>4, <1>5, <1>6
  <2> QED
    BY <1>1, <1>4, <1>5, <1>7, <2>1, PostedKept
<1>8. CASE Opened(Here)
  <2>1. There.nfc = nfc_cb /\ There.hal = z
    BY <1>1, HalThere
  <2>2. Chan(There)
    <3>1. \E n \in Message : n \notin Answered /\ n \notin Returned /\ z.mbox = Append(hal.mbox, n)
      BY <1>4, <1>5, <1>6
    <3> QED
      BY <1>1, <1>4, <1>5, <3>1, HalChan
  <2>3. Phase(Here) /\ hal.mbox \in Seq(Message)
    BY OwnedFacts, HalTypes DEF Owned
  <2>4. \A i \in DOMAIN z.mbox : z.mbox[i] = m \/ (i \in DOMAIN hal.mbox /\ z.mbox[i] = hal.mbox[i])
    <3> DEFINE q == hal.mbox
               r == z.mbox
    <3>1. /\ Len(r) = Len(q) + 1 /\ Len(q) \in Nat /\ DOMAIN r = 1..Len(r)
          /\ DOMAIN q = 1..Len(q) /\ \A i \in 1..Len(q) : r[i] = q[i]
          /\ r[Len(q) + 1] = m
      BY <1>4, <1>5, <2>3, AppendProperties, LenProperties
    <3> HIDE DEF q, r
    <3>2. \A i \in DOMAIN r : r[i] = m \/ (i \in DOMAIN q /\ r[i] = q[i])
      BY <3>1
    <3> QED
      BY <3>2 DEF q, r
  <2>5. \A i \in DOMAIN z.mbox : z.mbox[i].op = "ERROR" /\ Allowed(z.mbox[i])
    BY <1>5, <1>6, <1>8, <2>3, <2>4, OwnedFacts DEF Opened, Phase
  <2>6. Opened(There)
    BY <1>4, <1>5, <1>8, <2>1, <2>5, OwnedFacts DEF Opened, Fresh
  <2>7. Phase(There)
    BY <1>1, <1>4, <1>5, <2>1, <2>3, <2>5, <2>6, OwnedFacts DEF Phase
  <2> QED
    BY <2>2, <2>7 DEF Kept
<1> QED
  BY <1>1, <1>7, <1>8, OpenRuns

-----------------------------------------------------------------------------
(* The theorems. *)
LEMMA NextKept == Owned /\ [Next]_vars => Kept
<1> SUFFICES ASSUME Owned, [Next]_vars PROVE Kept
  OBVIOUS
<1>1. CASE UNCHANGED vars
  BY <1>1 DEF vars, There, Here, Kept, Owned
<1>2. CASE Task
  BY <1>2, ReadyKept, ReadMboxKept, TimeoutKept DEF Task
<1>3. CASE EarlyTimeout
  BY <1>3, TimeoutKept
<1>4. CASE Api
  BY <1>4, EnableKept, DisableKept, DiscoveryKept, DeactivateKept, VsCommandKept, PowerKept DEF Api
<1>5. CASE Answers
  BY <1>5, OpenCpltKept, CloseCpltKept, RspKept, NotificationKept, JobDoneKept DEF Answers
<1>6. CASE HalStrayNtf \/ HalRequestControl \/ HalError
  BY <1>6, NotificationKept, RequestKept, ErrorKept
<1> QED
  BY <1>1, <1>2, <1>3, <1>4, <1>5, <1>6 DEF Next

(* The environment does not change. *)
LEMMA NextEnv == [Next]_vars => env' = env
BY DEF Next, vars, Task, Api, Answers, TransportReady, ReadMbox, WaitRspTimeout, TimeoutBut,
       EarlyTimeout, NfcEnable, NfcDisable, NfcDiscoveryStart, NfcDeactivate, NfcSendVsCommand,
       NfcSetPowerOffSleep, NfcPowerCycleNFCC, HalOpenCplt, HalCloseCplt, HalRsp, HalResetNtf,
       HalRecovered, HalJobDone, HalStrayNtf, HalRequestControl, HalError, Become, HalIs

(* The invariant holds at first. *)
LEMMA InvInit == Init => IInv
<1> SUFFICES ASSUME Init PROVE IInv
  OBVIOUS
<1>1. Here.nfc = InitNfcCb /\ Here.hal = InitHal
  BY DEF Init, Here
<1>2. ASSUME Calm PROVE Chan(Here)
  BY <1>1, <1>2, EmptyChan DEF InitNfcCb, InitHal, Calm
<1>3. ASSUME Calm PROVE Phase(Here)
  <2>1. Off(Here)
    BY <1>1, <1>3 DEF Off, Fresh, InitNfcCb, InitHal, Calm
  <2> QED
    BY <1>1, <2>1 DEF Phase, InitNfcCb, InitHal
<1> QED
  BY <1>2, <1>3, InitType DEF IInv

(* Every step keeps the invariant. *)
LEMMA InvNext == IInv /\ [Next]_vars => IInv'
<1> SUFFICES ASSUME IInv, [Next]_vars PROVE IInv'
  OBVIOUS
<1>1. TypeOK'
  BY NextType DEF IInv
<1>2. env' = env
  BY NextEnv
<1>3. ASSUME Calm' PROVE Chan(Here)' /\ Phase(Here)'
  <2>1. Calm
    BY <1>2, <1>3 DEF Calm, Undisturbed, NoRecovery
  <2>2. Kept
    BY <2>1, NextKept DEF IInv, Owned
  <2>3. Chan(Here)'
    <3>0. Message' = Message
      BY <1>2 DEF Message, MaxCmds, UserCmds
    <3>1. Unused(There) => Unused(Here)'
      BY <3>0 DEF There, Here, Unused, None, Answered, Returned
    <3>2. Free(There) => Free(Here)'
      BY <3>1 DEF There, Here, Free
    <3>3. Busy(There) => Busy(Here)'
      BY <3>0 DEF There, Here, Busy, None, Once, Answered, AnswerOf, Returned
    <3>4. Lent(There) => Lent(Here)'
      BY <3>0 DEF There, Here, Lent, None, Once, Answered, Returned
    <3>5. Lost(There) => Lost(Here)'
      BY <3>1 DEF There, Here, Lost
    <3>6. There.hal.recovered = Here.hal.recovered'
      BY DEF There, Here
    <3> QED
      BY <2>2, <3>2, <3>3, <3>4, <3>5, <3>6 DEF Kept, Chan
  <2>4. Phase(Here)'
    BY <1>2, <2>2 DEF Kept, There, Here, Phase, Opening, Opened, Failed, Closing, Off, Running,
                      Fresh, Allowed, UserCmds
  <2> QED
    BY <2>3, <2>4
<1> QED
  BY <1>1, <1>3 DEF IInv

(* The invariant says who owns the channel. *)
LEMMA InvOwned == IInv => (Undisturbed => ChannelOwned)
<1> SUFFICES ASSUME IInv, NCI_MAX_CMD_WINDOW = 1, Undisturbed PROVE WindowRespected /\ HalHasChannel
  BY DEF IInv, ChannelOwned
<1> DEFINE R == {i \in DOMAIN hal.mbox : hal.mbox[i].mt = "RSP"}
<1>1. Chan(Here) /\ TypeOK /\ Here.nfc = nfc_cb /\ Here.hal = hal
  BY DEF IInv, Calm, Here
<1>2. \A i \in DOMAIN hal.mbox : hal.mbox[i] \in Message
  BY <1>1, HalTypes DEF TypeOK
<1>3. ASSUME None(hal.mbox, Answered) PROVE Responses = 0
  <2>1. R = {}
    BY <1>2, <1>3 DEF None, Answered
  <2> QED
    BY <2>1, FS_EmptySet DEF Responses
<1>4. ASSUME Once(hal.mbox, Answered) PROVE Responses = 1
  <2>1. PICK i \in DOMAIN hal.mbox : \A j \in DOMAIN hal.mbox : hal.mbox[j] \in Answered <=> j = i
    BY <1>4 DEF Once
  <2>2. R = {i}
    BY <1>2, <2>1 DEF Answered
  <2> QED
    BY <2>2, FS_Singleton DEF Responses
<1>5. WindowRespected
  <2>0. Len(<<>>) = 0
    OBVIOUS
  <2>1. CASE Free(Here) \/ Lost(Here)
    BY <1>1, <1>3, <2>0, <2>1 DEF Free, Lost, Unused, WindowRespected
  <2>2. CASE Busy(Here)
    <3>1. hal.pending = <<>> \/ Len(hal.pending) = 1
      BY <1>1, <2>2 DEF Busy
    <3>2. CASE hal.pending = <<>>
      <4>1. Responses = 1
        BY <1>1, <1>4, <2>0, <2>2, <3>2 DEF Busy
      <4> QED
        BY <1>1, <2>0, <2>2, <3>2, <4>1 DEF Busy, WindowRespected
    <3>3. CASE Len(hal.pending) = 1
      <4>1. Responses = 0
        <5>1. hal.pending # <<>>
          BY <2>0, <3>3
        <5>2. None(hal.mbox, Answered)
          BY <1>1, <2>2, <5>1 DEF Busy
        <5> QED
          BY <1>3, <5>2
      <4> QED
        BY <1>1, <2>2, <3>3, <4>1 DEF Busy, WindowRespected
    <3> QED
      BY <3>1, <3>2, <3>3
  <2>3. CASE Lent(Here)
    BY <1>1, <1>3, <2>0, <2>3 DEF Lent, WindowRespected
  <2> QED
    BY <1>1, <2>1, <2>2, <2>3 DEF Chan
<1>6. HalHasChannel
  BY <1>1, <1>3 DEF HalHasChannel, Chan, Free, Busy, Lent, Lost, Unused, Control
<1> QED
  BY <1>5, <1>6

-----------------------------------------------------------------------------
(* The theorems. *)

(* The control block, the mailbox and the transport keep their types:       *)
(* the command window stays between 0 and the NFCC's, the queue holds       *)
(* commands, and every message of the mailbox is one that NFC_TASK knows.   *)
THEOREM TypeCorrect == Spec => []TypeOK
<1>1. Init => TypeOK
  BY InitType
<1>2. TypeOK /\ [Next]_vars => TypeOK'
  BY NextType
<1> QED
  BY <1>1, <1>2, PTL DEF Spec

(* The channel has one owner: the stack writes a command only when the      *)
(* last was answered and the answer read (nfc_ncif_check_cmd_queue,         *)
(* nfc_ncif_update_window), and neither writes one nor has one outstanding  *)
(* while the HAL has control (NFC_FL_CONTROL_GRANTED): where the NFCC       *)
(* refuses no command of a start.                                           *)
THEOREM ChannelIsOwned == Spec => [](Undisturbed => ChannelOwned)
<1>1. Init => IInv
  BY InvInit
<1>2. IInv /\ [Next]_vars => IInv'
  BY InvNext
<1>3. IInv => (Undisturbed => ChannelOwned)
  BY InvOwned
<1> QED
  BY <1>1, <1>2, <1>3, PTL DEF Spec
=============================================================================
