------------------------ MODULE NfaDmDiscProofs -----------------------------
(***************************************************************************)
(* Proofs about NfaDmDisc, for every environment: any calls in any order,  *)
(* any modes and any behaviour of the field and of the NFCC.               *)
(*                                                                         *)
(* TypeCorrect: every handler keeps the types of the state.                *)
(*                                                                         *)
(* ResponseComes: the flag W4_RSP, which holds back all later commands, is *)
(* only set while a command is outstanding.  The flag does not say which   *)
(* command it stands for, and it is not the handler of every response that *)
(* clears it; the invariant therefore says which commands will: any        *)
(* deactivation, and in the idle state DISCOVER too (Due).  A handler is a *)
(* function of the task's state, so each lemma says that one keeps Good.   *)
(***************************************************************************)
EXTENDS NfaDmDisc, SequenceTheorems, TLAPS

(* t is s but for fields that do not matter here.                          *)
Aside(s, t) ==
    /\ t \in Host /\ t.cmds = s.cmds /\ t.disc_pending = s.disc_pending
    /\ t.disc_state = s.disc_state
    /\ "W4_RSP" \in t.disc_flags => "W4_RSP" \in s.disc_flags

(* The commands, of which the first k are answered and the first is h      *)
(* unless h is "none".                                                     *)
Weak(s, k, h) ==
    /\ s \in Host /\ k \in {0, 1} /\ k <= Len(s.cmds)
    /\ s.disc_pending => s.cmds # <<>>
    /\ h # "none" => s.cmds # <<>> /\ s.cmds[1] = h

(* A command after the first k whose response clears W4_RSP.               *)
Sent(s, k, C) == \E i \in DOMAIN s.cmds : i > k /\ s.cmds[i] \in C
Due(s, k) ==
    \/ "W4_RSP" \notin s.disc_flags
    \/ Sent(s, k, DEACTIVATE_TYPE)
    \/ s.disc_state = "IDLE" /\ (s.disc_pending \/ Sent(s, k, Command \ {"SELECT"}))

Good(s, k, h) == Weak(s, k, h) /\ Due(s, k)

RspOf(cmd) ==
    CASE cmd = "DISCOVER" -> "DISCOVER_RSP"
      [] cmd = "SELECT" -> "SELECT_RSP"
      [] OTHER -> "DEACTIVATE_RSP"

(* What a notification says.                                               *)
Sane(m) ==
    /\ m \in Message
    /\ m.type = "DEACTIVATE_NTF" => m.arg \in DEACTIVATE_TYPE
    /\ m.type = "ACTIVATED_NTF" => m.arg \in Mode

(* The first command is answered at most once, and no other one is.        *)
Answers ==
    \A i \in DOMAIN up :
      /\ Sane(up[i])
      /\ up[i].type \in Rsp =>
           /\ host.cmds # <<>> /\ up[i].type = RspOf(host.cmds[1])
           /\ \A j \in DOMAIN up : up[j].type \in Rsp => j = i

IInv == TypeOK /\ Good(host, 0, "none") /\ Answers
-----------------------------------------------------------------------------
(* Fields.                                                                 *)

(* What the environments offer.                                            *)
LEMMA EnvTypes ==
  ASSUME env \in Environments
  PROVE  /\ env.modes \subseteq Mode /\ env.proto \in {"T2T", "MIFARE"} /\ env.max_calls \in Nat
         /\ env.rf \subseteq Rf /\ env.calls \subseteq Call
BY EnvAssumption DEF Environment

(* The fields of the task's state.                                         *)
LEMMA HostFields ==
  ASSUME NEW s \in Host
  PROVE  /\ s.disc_state \in RFST /\ s.disc_flags \in SUBSET DISC_FLAGS
         /\ s.activated_handle \in Mode \union {"none"} /\ s.proto \in {"T2T", "MIFARE", "none"}
         /\ s.deact_pending \in BOOLEAN /\ s.pending_deact_type \in DEACTIVATE_TYPE
         /\ s.deact_notify_pending \in BOOLEAN /\ s.tle \in BOOLEAN /\ s.retry \in 0..3
         /\ s.polling \in BOOLEAN /\ s.entry \in BOOLEAN /\ s.stop_evt \in BOOLEAN
         /\ s.deact_evt \in BOOLEAN /\ s.activated \in BOOLEAN /\ s.busy \in BOOLEAN
         /\ s.disc_pending \in BOOLEAN /\ s.cmds \in Seq(Command)
         /\ s.power \in {"up", "disabling", "down"} /\ s.subsystems \in BOOLEAN
         /\ s.acts \in 0..2 /\ s.waits \in SUBSET Event /\ s.forced \in BOOLEAN
         /\ s.ncalls \in Nat
BY DEF Host

(* The fields that matter.                                                 *)
Put(t, flags, st, q, pending) ==
    /\ t \in Host /\ t.disc_flags = flags /\ t.disc_state = st
    /\ t.cmds = q /\ t.disc_pending = pending

(* Assigning to them.                                                      *)
LEMMA FieldSet ==
  ASSUME NEW s \in Host
  PROVE  /\ \A a \in SUBSET DISC_FLAGS :
              Put([s EXCEPT !.disc_flags = a], a, s.disc_state, s.cmds, s.disc_pending)
         /\ \A a \in RFST :
              Put([s EXCEPT !.disc_state = a], s.disc_flags, a, s.cmds, s.disc_pending)
         /\ \A a \in Seq(Command) :
              Put([s EXCEPT !.cmds = a], s.disc_flags, s.disc_state, a, s.disc_pending)
         /\ \A a \in BOOLEAN :
              Put([s EXCEPT !.disc_pending = a], s.disc_flags, s.disc_state, s.cmds, a)
         /\ \A a \in BOOLEAN, b \in Seq(Command) :
              Put([s EXCEPT !.disc_pending = a, !.cmds = b], s.disc_flags, s.disc_state, b, a)
<1>1. \A a \in SUBSET DISC_FLAGS :
        Put([s EXCEPT !.disc_flags = a], a, s.disc_state, s.cmds, s.disc_pending)
  BY DEF Put, Host
<1>2. \A a \in RFST :
        Put([s EXCEPT !.disc_state = a], s.disc_flags, a, s.cmds, s.disc_pending)
  BY DEF Put, Host
<1>3. \A a \in Seq(Command) :
        Put([s EXCEPT !.cmds = a], s.disc_flags, s.disc_state, a, s.disc_pending)
  BY DEF Put, Host
<1>4. \A a \in BOOLEAN :
        Put([s EXCEPT !.disc_pending = a], s.disc_flags, s.disc_state, s.cmds, a)
  BY DEF Put, Host
<1>5. ASSUME NEW a \in BOOLEAN, NEW b \in Seq(Command)
      PROVE  Put([s EXCEPT !.disc_pending = a, !.cmds = b], s.disc_flags, s.disc_state, b, a)
  <2>1. [s EXCEPT !.disc_pending = a, !.cmds = b] \in Host
    BY DEF Host
  <2> QED
    BY <2>1 DEF Put, Host
<1> QED
  BY <1>1, <1>2, <1>3, <1>4, <1>5

(* Assigning to other fields.                                              *)
LEMMA FieldsAside ==
  ASSUME NEW s \in Host
  PROVE  /\ \A a \in SUBSET Event : Aside(s, [s EXCEPT !.waits = a])
         /\ \A a \in {"up", "disabling", "down"} : Aside(s, [s EXCEPT !.power = a])
         /\ \A a \in BOOLEAN : Aside(s, [s EXCEPT !.tle = a])
         /\ \A a \in BOOLEAN : Aside(s, [s EXCEPT !.busy = a])
         /\ \A a \in BOOLEAN : Aside(s, [s EXCEPT !.deact_pending = a])
         /\ \A a \in 0..3 : Aside(s, [s EXCEPT !.retry = a])
         /\ \A a \in BOOLEAN : Aside(s, [s EXCEPT !.activated = a])
         /\ \A a \in BOOLEAN : Aside(s, [s EXCEPT !.polling = a])
         /\ \A a \in BOOLEAN : Aside(s, [s EXCEPT !.entry = a])
         /\ \A a \in Nat : Aside(s, [s EXCEPT !.ncalls = a])
         /\ \A a \in BOOLEAN : Aside(s, [s EXCEPT !.subsystems = a])
         /\ \A a \in BOOLEAN : Aside(s, [s EXCEPT !.forced = a])
         /\ \A a \in {"T2T", "MIFARE", "none"}, b \in Mode \union {"none"} :
               Aside(s, [s EXCEPT !.proto = a, !.activated_handle = b])
         /\ \A a \in 0..2, b \in SUBSET Event : Aside(s, [s EXCEPT !.acts = a, !.waits = b])
         /\ \A a \in BOOLEAN, b \in BOOLEAN :
               Aside(s, [s EXCEPT !.activated = a, !.deact_evt = b])
         /\ \A a \in BOOLEAN, b \in BOOLEAN : Aside(s, [s EXCEPT !.entry = a, !.stop_evt = b])
         /\ \A a \in BOOLEAN, b \in DEACTIVATE_TYPE :
               Aside(s, [s EXCEPT !.deact_pending = a, !.pending_deact_type = b])
         /\ \A a \in BOOLEAN, b \in BOOLEAN :
               Aside(s, [s EXCEPT !.deact_pending = a, !.deact_notify_pending = b])
         /\ \A a \in BOOLEAN, b \in SUBSET Event : Aside(s, [s EXCEPT !.busy = a, !.waits = b])
         /\ \A a \in BOOLEAN, b \in BOOLEAN : Aside(s, [s EXCEPT !.polling = a, !.entry = b])
         /\ \A a \in BOOLEAN, b \in SUBSET Event :
               Aside(s, [s EXCEPT !.stop_evt = a, !.waits = b])
         /\ \A a \in {"up", "disabling", "down"}, b \in SUBSET Event :
               Aside(s, [s EXCEPT !.power = a, !.waits = b])
         /\ \A a \in BOOLEAN, b \in BOOLEAN, c \in BOOLEAN :
               Aside(s, [s EXCEPT !.activated = a, !.busy = b, !.deact_evt = c])
         /\ \A a \in {"T2T", "MIFARE", "none"}, b \in Mode \union {"none"}, c \in BOOLEAN :
               Aside(s, [s EXCEPT !.proto = a, !.activated_handle = b, !.deact_notify_pending = c])
<1>1. \A a \in SUBSET Event : Aside(s, [s EXCEPT !.waits = a])
  BY DEF Aside, Host
<1>2. \A a \in {"up", "disabling", "down"} : Aside(s, [s EXCEPT !.power = a])
  BY DEF Aside, Host
<1>3. \A a \in BOOLEAN : Aside(s, [s EXCEPT !.tle = a])
  BY DEF Aside, Host
<1>4. \A a \in BOOLEAN : Aside(s, [s EXCEPT !.busy = a])
  BY DEF Aside, Host
<1>5. \A a \in BOOLEAN : Aside(s, [s EXCEPT !.deact_pending = a])
  BY DEF Aside, Host
<1>6. \A a \in 0..3 : Aside(s, [s EXCEPT !.retry = a])
  BY DEF Aside, Host
<1>7. \A a \in BOOLEAN : Aside(s, [s EXCEPT !.activated = a])
  BY DEF Aside, Host
<1>8. \A a \in BOOLEAN : Aside(s, [s EXCEPT !.polling = a])
  BY DEF Aside, Host
<1>9. \A a \in BOOLEAN : Aside(s, [s EXCEPT !.entry = a])
  BY DEF Aside, Host
<1>10. \A a \in Nat : Aside(s, [s EXCEPT !.ncalls = a])
  BY DEF Aside, Host
<1>11. \A a \in BOOLEAN : Aside(s, [s EXCEPT !.subsystems = a])
  BY DEF Aside, Host
<1>12. \A a \in BOOLEAN : Aside(s, [s EXCEPT !.forced = a])
  BY DEF Aside, Host
<1>13. ASSUME NEW a \in {"T2T", "MIFARE", "none"}, NEW b \in Mode \union {"none"}
      PROVE  Aside(s, [s EXCEPT !.proto = a, !.activated_handle = b])
  <2>1. [s EXCEPT !.proto = a, !.activated_handle = b] \in Host
    BY DEF Host
  <2> QED
    BY <2>1 DEF Aside, Host
<1>14. ASSUME NEW a \in 0..2, NEW b \in SUBSET Event
      PROVE  Aside(s, [s EXCEPT !.acts = a, !.waits = b])
  <2>1. [s EXCEPT !.acts = a, !.waits = b] \in Host
    BY DEF Host
  <2> QED
    BY <2>1 DEF Aside, Host
<1>15. ASSUME NEW a \in BOOLEAN, NEW b \in BOOLEAN
      PROVE  Aside(s, [s EXCEPT !.activated = a, !.deact_evt = b])
  <2>1. [s EXCEPT !.activated = a, !.deact_evt = b] \in Host
    BY DEF Host
  <2> QED
    BY <2>1 DEF Aside, Host
<1>16. ASSUME NEW a \in BOOLEAN, NEW b \in BOOLEAN
      PROVE  Aside(s, [s EXCEPT !.entry = a, !.stop_evt = b])
  <2>1. [s EXCEPT !.entry = a, !.stop_evt = b] \in Host
    BY DEF Host
  <2> QED
    BY <2>1 DEF Aside, Host
<1>17. ASSUME NEW a \in BOOLEAN, NEW b \in DEACTIVATE_TYPE
      PROVE  Aside(s, [s EXCEPT !.deact_pending = a, !.pending_deact_type = b])
  <2>1. [s EXCEPT !.deact_pending = a, !.pending_deact_type = b] \in Host
    BY DEF Host
  <2> QED
    BY <2>1 DEF Aside, Host
<1>18. ASSUME NEW a \in BOOLEAN, NEW b \in BOOLEAN
      PROVE  Aside(s, [s EXCEPT !.deact_pending = a, !.deact_notify_pending = b])
  <2>1. [s EXCEPT !.deact_pending = a, !.deact_notify_pending = b] \in Host
    BY DEF Host
  <2> QED
    BY <2>1 DEF Aside, Host
<1>19. ASSUME NEW a \in BOOLEAN, NEW b \in SUBSET Event
      PROVE  Aside(s, [s EXCEPT !.busy = a, !.waits = b])
  <2>1. [s EXCEPT !.busy = a, !.waits = b] \in Host
    BY DEF Host
  <2> QED
    BY <2>1 DEF Aside, Host
<1>20. ASSUME NEW a \in BOOLEAN, NEW b \in BOOLEAN
      PROVE  Aside(s, [s EXCEPT !.polling = a, !.entry = b])
  <2>1. [s EXCEPT !.polling = a, !.entry = b] \in Host
    BY DEF Host
  <2> QED
    BY <2>1 DEF Aside, Host
<1>21. ASSUME NEW a \in BOOLEAN, NEW b \in SUBSET Event
      PROVE  Aside(s, [s EXCEPT !.stop_evt = a, !.waits = b])
  <2>1. [s EXCEPT !.stop_evt = a, !.waits = b] \in Host
    BY DEF Host
  <2> QED
    BY <2>1 DEF Aside, Host
<1>22. ASSUME NEW a \in {"up", "disabling", "down"}, NEW b \in SUBSET Event
      PROVE  Aside(s, [s EXCEPT !.power = a, !.waits = b])
  <2>1. [s EXCEPT !.power = a, !.waits = b] \in Host
    BY DEF Host
  <2> QED
    BY <2>1 DEF Aside, Host
<1>23. ASSUME NEW a \in BOOLEAN, NEW b \in BOOLEAN, NEW c \in BOOLEAN
      PROVE  Aside(s, [s EXCEPT !.activated = a, !.busy = b, !.deact_evt = c])
  <2>1. [s EXCEPT !.activated = a, !.busy = b, !.deact_evt = c] \in Host
    BY DEF Host
  <2> QED
    BY <2>1 DEF Aside, Host
<1>24. ASSUME NEW a \in {"T2T", "MIFARE", "none"}, NEW b \in Mode \union {"none"}, NEW c \in BOOLEAN
      PROVE  Aside(s, [s EXCEPT !.proto = a, !.activated_handle = b, !.deact_notify_pending = c])
  <2>1. [s EXCEPT !.proto = a, !.activated_handle = b, !.deact_notify_pending = c] \in Host
    BY DEF Host
  <2> QED
    BY <2>1 DEF Aside, Host
<1> QED
  BY <1>1, <1>2, <1>3, <1>4, <1>5, <1>6, <1>7, <1>8, <1>9, <1>10, <1>11, <1>12,
     <1>13, <1>14, <1>15, <1>16, <1>17, <1>18, <1>19, <1>20, <1>21, <1>22, <1>23, <1>24

LEMMA GoodFacts ==
  ASSUME NEW s, NEW k, NEW h
  PROVE  /\ Weak(s, k, h) => s \in Host
         /\ Good(s, k, h) => s \in Host /\ Weak(s, k, h)
BY DEF Good, Weak

LEMMA AsideFacts ==
  ASSUME NEW s, NEW t, Aside(s, t)
  PROVE  /\ t \in Host /\ t.disc_state = s.disc_state
         /\ "W4_RSP" \in t.disc_flags => "W4_RSP" \in s.disc_flags
BY DEF Aside

LEMMA AsideRefl == ASSUME NEW s \in Host PROVE Aside(s, s)
BY DEF Aside

LEMMA AsideTrans ==
  ASSUME NEW s, NEW t, NEW u, Aside(s, t), Aside(t, u)
  PROVE  Aside(s, u)
BY DEF Aside

(* What matters is kept by a step aside.                                   *)
LEMMA AsideGood ==
  ASSUME NEW s, NEW t, Aside(s, t), NEW k, NEW h
  PROVE  /\ Weak(s, k, h) => Weak(t, k, h)
         /\ Good(s, k, h) => Good(t, k, h)
<1>1. Weak(s, k, h) => Weak(t, k, h)
  BY DEF Aside, Weak
<1>2. Due(s, k) => Due(t, k)
  BY DEF Aside, Due, Sent
<1> QED
  BY <1>1, <1>2 DEF Good

(* Without W4_RSP nothing is due.                                          *)
LEMMA WeakGood ==
  ASSUME NEW s, NEW k, NEW h, Weak(s, k, h), "W4_RSP" \notin s.disc_flags
  PROVE  Good(s, k, h)
BY DEF Good, Due

(* Clearing flags, and setting any.                                        *)
LEMMA ClearAside ==
  ASSUME NEW s \in Host, NEW F
  PROVE  /\ Aside(s, Clear(s, F)) /\ Clear(s, F).disc_flags = s.disc_flags \ F
<1>1. s.disc_flags \ F \in SUBSET DISC_FLAGS
  BY HostFields
<1> DEFINE t == [s EXCEPT !.disc_flags = s.disc_flags \ F]
<1>2. Put(t, s.disc_flags \ F, s.disc_state, s.cmds, s.disc_pending)
  BY <1>1, FieldSet
<1>3. Clear(s, F) = t
  BY DEF Clear
<1> HIDE DEF t
<1> QED
  BY <1>2, <1>3 DEF Put, Aside

LEMMA SetWeak ==
  ASSUME NEW s \in Host, NEW F \in SUBSET DISC_FLAGS
  PROVE  /\ Set(s, F) \in Host /\ Set(s, F).disc_flags = s.disc_flags \union F
         /\ Set(s, F).disc_state = s.disc_state /\ Set(s, F).cmds = s.cmds
         /\ Set(s, F).disc_pending = s.disc_pending
         /\ "W4_RSP" \notin F => Aside(s, Set(s, F))
         /\ \A k, h : Weak(s, k, h) => Weak(Set(s, F), k, h)
<1>1. s.disc_flags \union F \in SUBSET DISC_FLAGS
  BY HostFields
<1> DEFINE t == [s EXCEPT !.disc_flags = s.disc_flags \union F]
<1>2. Put(t, s.disc_flags \union F, s.disc_state, s.cmds, s.disc_pending)
  BY <1>1, FieldSet
<1>3. Set(s, F) = t
  BY DEF Set
<1> HIDE DEF t
<1> QED
  BY <1>2, <1>3 DEF Put, Aside, Weak

(* Events told to the application.                                         *)
LEMMA TellAside ==
  ASSUME NEW s \in Host, NEW e
  PROVE  /\ Aside(s, Tell(s, e)) /\ Aside(s, TellStopped(s))
         /\ Aside(s, TellActivated(s)) /\ Aside(s, TellDeactivated(s))
<1>1. \A E : s.waits \ E \in SUBSET Event
  BY HostFields
<1>2. (IF s.acts < 2 THEN s.acts + 1 ELSE s.acts) \in 0..2 /\ 0 \in 0..2
  BY HostFields
<1>3. Aside(s, Tell(s, e)) /\ Aside(s, TellStopped(s))
  BY <1>1, FieldsAside DEF Tell, TellStopped
<1>4. Aside(s, TellActivated(s))
  BY <1>1, <1>2, FieldsAside DEF TellActivated
<1>5. Aside(s, TellDeactivated(s))
  BY <1>1, <1>2, FieldsAside DEF TellDeactivated
<1> QED
  BY <1>3, <1>4, <1>5
-----------------------------------------------------------------------------
(* The NFC core.                                                           *)

(* A command put at the end of nci_cmd_xmit_q.                             *)
LEMMA SendWeak ==
  ASSUME NEW s, NEW k, NEW h, Weak(s, k, h), NEW c \in Command
  PROVE  LET t == NfcSend(s, c) IN
         /\ Weak(t, k, h) /\ t.disc_state = s.disc_state /\ t.disc_flags = s.disc_flags
         /\ t.disc_pending = s.disc_pending
         /\ Sent(t, k, {c}) /\ \A C : Sent(s, k, C) => Sent(t, k, C)
<1> DEFINE q == Append(s.cmds, c)
           t == NfcSend(s, c)
<1>1. s \in Host /\ s.cmds \in Seq(Command) /\ k \in {0, 1} /\ k <= Len(s.cmds)
  BY HostFields DEF Weak
<1>2. /\ q \in Seq(Command) /\ q # <<>> /\ Len(q) = Len(s.cmds) + 1
      /\ DOMAIN q = 1..(Len(s.cmds) + 1) /\ DOMAIN s.cmds = 1..Len(s.cmds)
      /\ q[Len(s.cmds) + 1] = c
      /\ \A i \in 1..Len(s.cmds) : q[i] = s.cmds[i]
  BY <1>1
<1>3. t = [s EXCEPT !.cmds = q]
  BY DEF NfcSend
<1> HIDE DEF q, t
<1>4. /\ t \in Host /\ t.cmds = q /\ t.disc_pending = s.disc_pending
      /\ t.disc_state = s.disc_state /\ t.disc_flags = s.disc_flags
  <2>1. Put(t, s.disc_flags, s.disc_state, q, s.disc_pending)
    BY <1>1, <1>2, <1>3, FieldSet
  <2> QED
    BY <2>1 DEF Put
<1>5. Weak(t, k, h)
  <2>1. s.cmds # <<>> => 1 \in 1..Len(s.cmds)
    BY <1>1
  <2> QED
    BY <1>1, <1>2, <1>4, <2>1 DEF Weak
<1>6. Sent(t, k, {c})
  <2>1. Len(s.cmds) + 1 \in DOMAIN q /\ Len(s.cmds) + 1 > k
    BY <1>1, <1>2
  <2> QED
    BY <1>2, <1>4, <2>1 DEF Sent
<1>7. ASSUME NEW C, Sent(s, k, C) PROVE Sent(t, k, C)
  <2>1. PICK i \in DOMAIN s.cmds : i > k /\ s.cmds[i] \in C
    BY <1>7 DEF Sent
  <2>2. i \in DOMAIN q /\ q[i] \in C
    BY <1>1, <1>2, <2>1
  <2> QED
    BY <1>4, <2>1, <2>2 DEF Sent
<1> QED
  BY <1>4, <1>5, <1>6, <1>7 DEF t

LEMMA SendGood ==
  ASSUME NEW s, NEW k, NEW h, Good(s, k, h), NEW c \in Command
  PROVE  Good(NfcSend(s, c), k, h)
BY SendWeak DEF Good, Due

(* NFC_Deactivate sends a command whose response clears W4_RSP, or clears  *)
(* it.                                                                     *)
LEMMA NfcDeactivateGood ==
  ASSUME NEW s, NEW k, NEW h, Weak(s, k, h), NEW type \in DEACTIVATE_TYPE
  PROVE  Good(NfcDeactivate(s, type), k, h) /\ NfcDeactivate(s, type).disc_state = s.disc_state
<1>1. CASE s.disc_pending
  <2> DEFINE t == [s EXCEPT !.disc_pending = FALSE]
             u == Clear(t, {"W4_RSP"})
  <2>1. s \in Host
    BY DEF Weak
  <2>2. Put(t, s.disc_flags, s.disc_state, s.cmds, FALSE)
    BY <2>1, FieldSet
  <2> HIDE DEF t
  <2>3. Weak(t, k, h) /\ t \in Host /\ t.disc_state = s.disc_state
    BY <2>2 DEF Weak, Put
  <2>4. Aside(t, u) /\ "W4_RSP" \notin u.disc_flags
    BY <2>3, ClearAside
  <2> HIDE DEF u
  <2>5. Good(u, k, h) /\ u.disc_state = s.disc_state
    BY <2>3, <2>4, AsideGood, WeakGood DEF Aside
  <2> QED
    BY <1>1, <2>5 DEF NfcDeactivate, t, u
<1>2. CASE ~s.disc_pending
  <2> DEFINE u == NfcSend(s, type)
  <2>1. type \in Command
    BY DEF Command
  <2>2. Weak(u, k, h) /\ u.disc_state = s.disc_state /\ Sent(u, k, {type})
    BY <2>1, SendWeak
  <2> HIDE DEF u
  <2>3. Sent(u, k, DEACTIVATE_TYPE)
    BY <2>2 DEF Sent
  <2> QED
    BY <1>2, <2>2, <2>3 DEF NfcDeactivate, Good, Due, u
<1> QED
  BY <1>1, <1>2

(* The same after flags were set.                                          *)
LEMMA SetDeactivateGood ==
  ASSUME NEW s, NEW k, NEW h, Weak(s, k, h), NEW type \in DEACTIVATE_TYPE,
         NEW F \in SUBSET DISC_FLAGS
  PROVE  /\ Good(NfcDeactivate(Set(s, F), type), k, h)
         /\ NfcDeactivate(Set(s, F), type).disc_state = s.disc_state
<1>1. Weak(Set(s, F), k, h) /\ Set(s, F).disc_state = s.disc_state
  BY SetWeak DEF Weak
<1> QED
  BY <1>1, NfcDeactivateGood

(* NFC_DiscoveryStart in the idle state.                                   *)
LEMMA DiscoveryStartGood ==
  ASSUME NEW s, NEW k, NEW h, Weak(s, k, h), s.disc_state = "IDLE"
  PROVE  Good(Set(NfcDiscoveryStart(s), {"W4_RSP"}), k, h)
<1> DEFINE t == [s EXCEPT !.disc_pending = TRUE]
           q == <<"DISCOVER">>
           d == [t EXCEPT !.disc_pending = FALSE, !.cmds = q]
           n == NfcDiscoveryStart(s)
           u == Set(n, {"W4_RSP"})
<1> SUFFICES Good(u, k, h)
  OBVIOUS
<1>1. s \in Host /\ s.cmds \in Seq(Command)
  BY HostFields DEF Weak
<1>2. q \in Seq(Command) /\ DOMAIN q = {1} /\ q[1] = "DISCOVER" /\ "DISCOVER" \in Command \ {"SELECT"}
      /\ q # <<>> /\ Len(q) = 1
  BY DEF Command
<1>3. /\ t \in Host /\ t.cmds = s.cmds /\ t.disc_pending
      /\ t.disc_state = s.disc_state /\ t.disc_flags = s.disc_flags
  <2>1. Put(t, s.disc_flags, s.disc_state, s.cmds, TRUE)
    BY <1>1, FieldSet
  <2> HIDE DEF t
  <2> QED
    BY <2>1 DEF Put
<1>4. n = IF s.cmds = <<>> THEN d ELSE t
  <2>1. n = CheckCmdQueue(t)
    BY DEF NfcDiscoveryStart
  <2> HIDE DEF n, t
  <2> QED
    BY <1>3, <2>1 DEF CheckCmdQueue
<1> HIDE DEF n, t, q
<1>5. /\ d \in Host /\ d.cmds = q /\ ~d.disc_pending
      /\ d.disc_state = s.disc_state /\ d.disc_flags = s.disc_flags
  <2>1. Put(d, t.disc_flags, t.disc_state, q, FALSE)
    BY <1>2, <1>3, FieldSet
  <2> HIDE DEF d
  <2> QED
    BY <1>3, <2>1 DEF Put
<1> HIDE DEF d
<1>6. /\ Weak(n, k, h) /\ n.disc_state = "IDLE"
      /\ n.disc_pending \/ Sent(n, k, Command \ {"SELECT"})
  <2>1. CASE s.cmds = <<>>
    <3>1. k = 0 /\ h = "none"
      BY <2>1 DEF Weak
    <3>2. 1 \in DOMAIN d.cmds /\ 1 > 0 /\ d.cmds[1] \in Command \ {"SELECT"}
      BY <1>2, <1>5
    <3>3. Sent(d, k, Command \ {"SELECT"})
      BY <3>1, <3>2 DEF Sent
    <3> QED
      BY <1>2, <1>4, <1>5, <2>1, <3>1, <3>3 DEF Weak
  <2>2. CASE s.cmds # <<>>
    BY <1>3, <1>4, <2>2 DEF Weak
  <2> QED
    BY <2>1, <2>2
<1>7. {"W4_RSP"} \in SUBSET DISC_FLAGS /\ n \in Host
  BY <1>6 DEF DISC_FLAGS, Weak
<1>8. /\ Weak(u, k, h) /\ u.disc_state = "IDLE" /\ u.disc_pending = n.disc_pending
      /\ u.cmds = n.cmds
  BY <1>6, <1>7, SetWeak
<1> HIDE DEF u
<1> QED
  BY <1>6, <1>8 DEF Good, Due, Sent
-----------------------------------------------------------------------------
(* Starting, and becoming idle.                                            *)

LEMMA NotifyStartedAside ==
  ASSUME NEW s \in Host
  PROVE  Aside(s, NotifyStarted(s))
<1>1. Aside(s, Clear(s, {"NOTIFY"})) /\ Clear(s, {"NOTIFY"}) \in Host
  BY ClearAside, AsideFacts
<1>2. Aside(s, Tell(Clear(s, {"NOTIFY"}), "STARTED"))
  BY <1>1, TellAside, AsideTrans
<1> QED
  BY <1>2, AsideRefl DEF NotifyStarted

LEMMA StartGood ==
  ASSUME env \in Environments, NEW s, NEW k, NEW h, Good(s, k, h), s.disc_state = "IDLE"
  PROVE  Good(StartRfDiscover(s), k, h)
<1> DEFINE t == IF s.entry \/ "listen" \in env.modes
                  THEN Set(NfcDiscoveryStart(s), {"W4_RSP"}) ELSE NotifyStarted(s)
           u == [t EXCEPT !.proto = "none", !.activated_handle = "none"]
<1>1. Weak(s, k, h) /\ s \in Host
  BY DEF Good, Weak
<1>2. Good(t, k, h)
  BY <1>1, DiscoveryStartGood, NotifyStartedAside, AsideGood
<1> HIDE DEF t
<1>3. Aside(t, u)
  BY <1>2, FieldsAside, GoodFacts
<1>4. Good(u, k, h)
  BY <1>2, <1>3, AsideGood
<1> QED
  BY <1>4 DEF StartRfDiscover, t, u

(* nfa_dm_disc_new_state: but for the state, a step aside.                 *)
LEMMA ShutdownAside ==
  ASSUME NEW s \in Host
  PROVE  Aside(s, DisableComplete(s)) /\ Aside(s, SysCheckDisabled(s))
<1>1. Aside(s, DisableComplete(s))
  BY FieldsAside DEF DisableComplete
<1> QED
  BY <1>1, AsideRefl DEF SysCheckDisabled, DmSysDisable

LEMMA NewStateAside ==
  ASSUME NEW s \in Host, NEW st \in RFST
  PROVE  /\ Aside([s EXCEPT !.disc_state = st], NewState(s, st))
         /\ [s EXCEPT !.disc_state = st] \in Host
<1> DEFINE t == [s EXCEPT !.disc_state = st]
           u == IF "STOPPING" \in s.disc_flags THEN TellStopped(Clear(t, {"STOPPING"})) ELSE t
           v == Clear(u, {"DISABLING"})
           w == SysCheckDisabled(v)
<1>1. t \in Host
  <2>1. Put(t, s.disc_flags, st, s.cmds, s.disc_pending)
    BY FieldSet
  <2> HIDE DEF t
  <2> QED
    BY <2>1 DEF Put
<1>2. NewState(s, st) \in {t, u, w}
  BY DEF NewState
<1> HIDE DEF t
<1>3. Aside(t, u)
  <2>1. Aside(t, Clear(t, {"STOPPING"})) /\ Clear(t, {"STOPPING"}) \in Host
    BY <1>1, ClearAside, AsideFacts
  <2>2. Aside(t, TellStopped(Clear(t, {"STOPPING"})))
    BY <2>1, TellAside, AsideTrans
  <2> QED
    BY <1>1, <2>2, AsideRefl
<1> HIDE DEF u
<1>4. Aside(u, v)
  BY <1>3, ClearAside, AsideFacts
<1> HIDE DEF v
<1>5. Aside(v, w)
  BY <1>4, ShutdownAside, AsideFacts
<1> HIDE DEF w
<1>6. Aside(t, t) /\ Aside(t, w)
  BY <1>1, <1>3, <1>4, <1>5, AsideRefl, AsideTrans
<1>7. Aside(t, NewState(s, st))
  BY <1>2, <1>3, <1>6
<1> QED
  BY <1>1, <1>7 DEF t

LEMMA NewStateGood ==
  ASSUME NEW s, NEW k, NEW h, NEW st \in RFST
  PROVE  /\ Weak(s, k, h) => Weak(NewState(s, st), k, h) /\ NewState(s, st).disc_state = st
         /\ /\ Good(s, k, h)
            /\ st = "IDLE" \/ s.disc_state # "IDLE" \/ "W4_RSP" \notin s.disc_flags
            => Good(NewState(s, st), k, h)
<1> DEFINE t == [s EXCEPT !.disc_state = st]
           u == NewState(s, st)
<1> SUFFICES ASSUME Weak(s, k, h)
             PROVE  /\ Weak(u, k, h) /\ u.disc_state = st
                    /\ /\ Due(s, k)
                       /\ st = "IDLE" \/ s.disc_state # "IDLE" \/ "W4_RSP" \notin s.disc_flags
                       => Due(u, k)
  BY DEF Good
<1>1. s \in Host
  BY DEF Weak
<1>2. /\ t \in Host /\ t.cmds = s.cmds /\ t.disc_pending = s.disc_pending
      /\ t.disc_state = st /\ t.disc_flags = s.disc_flags
  <2>1. Put(t, s.disc_flags, st, s.cmds, s.disc_pending)
    BY <1>1, FieldSet
  <2> HIDE DEF t
  <2> QED
    BY <2>1 DEF Put
<1>3. Aside(t, u)
  BY <1>1, NewStateAside
<1> HIDE DEF t, u
<1>4. Weak(t, k, h)
  BY <1>2 DEF Weak
<1>5. Weak(u, k, h) /\ u.disc_state = st
  BY <1>2, <1>3, <1>4, AsideGood DEF Aside
<1>6. ASSUME Due(s, k), st = "IDLE" \/ s.disc_state # "IDLE" \/ "W4_RSP" \notin s.disc_flags
      PROVE  Due(u, k)
  <2>1. s.disc_state = "IDLE" => st = "IDLE" \/ "W4_RSP" \notin s.disc_flags
    BY <1>6
  <2>2. Sent(t, k, DEACTIVATE_TYPE) => Sent(t, k, Command \ {"SELECT"})
    BY DEF Sent, Command, DEACTIVATE_TYPE
  <2>3. Due(t, k)
    BY <1>2, <1>6, <2>1 DEF Due, Sent
  <2> QED
    BY <1>3, <2>3 DEF Aside, Due, Sent
<1> QED
  BY <1>5, <1>6

LEMMA ToIdleGood ==
  ASSUME env \in Environments, NEW s, NEW k, NEW h, Good(s, k, h)
  PROVE  Good(ToIdle(s), k, h)
<1> DEFINE t == NewState(s, "IDLE")
<1>1. "IDLE" \in RFST /\ Weak(s, k, h)
  BY DEF RFST, Good
<1>2. Good(t, k, h) /\ t.disc_state = "IDLE"
  BY <1>1, NewStateGood
<1> HIDE DEF t
<1>3. Good(StartRfDiscover(t), k, h)
  BY <1>2, StartGood
<1> QED
  BY <1>3 DEF ToIdle, t
-----------------------------------------------------------------------------
(* Activation and deactivation of the modules above.                       *)

LEMMA ActivatePollAside ==
  ASSUME NEW s \in Host
  PROVE  Aside(s, ActivatePoll(s))
<1> DEFINE t == [s EXCEPT !.activated = TRUE, !.busy = FALSE, !.deact_evt = TRUE]
<1>1. Aside(s, t)
  BY FieldsAside
<1> HIDE DEF t
<1>2. Aside(t, TellActivated(t))
  BY <1>1, TellAside, AsideFacts
<1>3. Aside(s, TellActivated(t))
  BY <1>1, <1>2, AsideTrans
<1> QED
  BY <1>1, <1>3 DEF ActivatePoll, t

LEMMA NotifyActivationAside ==
  ASSUME env \in Environments, NEW s \in Host, NEW mode \in Mode
  PROVE  Aside(s, NotifyActivation(s, mode))
<1> DEFINE p == IF mode = "poll" THEN env.proto ELSE "none"
           t == [s EXCEPT !.proto = p, !.activated_handle = mode]
           n == [s EXCEPT !.proto = "none", !.activated_handle = "none"]
<1>1. p \in {"T2T", "MIFARE", "none"} /\ mode \in Mode \union {"none"}
  BY EnvTypes
<1>2. NotifyActivation(s, mode) \in {n, ActivatePoll(t), t}
  BY DEF NotifyActivation
<1> HIDE DEF p
<1>3. Aside(s, t) /\ Aside(s, n)
  BY <1>1, FieldsAside
<1> HIDE DEF t, n
<1>4. Aside(s, ActivatePoll(t))
  BY <1>3, ActivatePollAside, AsideTrans DEF Aside
<1> QED
  BY <1>2, <1>3, <1>4

LEMMA ActivateOrRestartGood ==
  ASSUME env \in Environments, NEW s, NEW k, NEW h, Good(s, k, h), NEW mode \in Mode,
         NEW F \in SUBSET DISC_FLAGS
  PROVE  Good(ActivateOrRestart(s, mode, F), k, h)
<1> DEFINE t == NotifyActivation(s, mode)
<1>1. s \in Host
  BY DEF Good, Weak
<1>2. Good(t, k, h)
  BY <1>1, NotifyActivationAside, AsideGood
<1> HIDE DEF t
<1>3. "IDLE" \in DEACTIVATE_TYPE /\ Weak(t, k, h)
  BY <1>2 DEF DEACTIVATE_TYPE, Good
<1>4. Good(NfcDeactivate(Set(t, F), "IDLE"), k, h)
  BY <1>3, SetDeactivateGood
<1> QED
  BY <1>2, <1>4 DEF ActivateOrRestart, t

LEMMA DeactivatePollAside ==
  ASSUME NEW s \in Host
  PROVE  Aside(s, DeactivatePoll(s))
<1> DEFINE t == [s EXCEPT !.activated = FALSE, !.deact_evt = FALSE]
           u == IF s.deact_evt THEN TellDeactivated(t) ELSE t
           v == [u EXCEPT !.entry = FALSE, !.stop_evt = FALSE]
           w == Tell(v, "POLL_DISABLED")
<1>1. s.polling \in BOOLEAN /\ s.stop_evt \in BOOLEAN
  BY HostFields
<1>2. DeactivatePoll(s) \in {u, v, w}
  BY <1>1 DEF DeactivatePoll
<1>3. Aside(s, t)
  BY FieldsAside
<1> HIDE DEF t
<1>4. Aside(s, u)
  BY <1>3, TellAside, AsideTrans DEF Aside
<1> HIDE DEF u
<1>5. Aside(u, v)
  BY <1>4, FieldsAside, AsideFacts
<1> HIDE DEF v
<1>6. Aside(v, w)
  BY <1>5, TellAside, AsideFacts
<1> HIDE DEF w
<1> QED
  BY <1>2, <1>4, <1>5, <1>6, AsideTrans

LEMMA NotifyDeactivationAside ==
  ASSUME NEW s \in Host, NEW event \in {"NTF", "RSP"}
  PROVE  Aside(s, NotifyDeactivation(s, event))
<1> DEFINE S == {s, DeactivatePoll(s), Tell(s, "DEACTIVATED"), TellDeactivated(s)}
           n(t) == [t EXCEPT !.proto = "none", !.activated_handle = "none",
                             !.deact_notify_pending = FALSE]
<1>1. \E t \in S : NotifyDeactivation(s, event) \in {s, n(t)}
  <2> DEFINE told == s.activated_handle = "poll" /\ s.entry
             inState == s.disc_state = "LISTEN_SLEEP"
             unasked == "STOPPING" \notin s.disc_flags \/ s.deact_notify_pending
             t == CASE event = "NTF" -> IF told THEN DeactivatePoll(s)
                                         ELSE IF s.activated_handle = "listen"
                                                THEN Tell(s, "DEACTIVATED") ELSE s
                    [] event = "RSP" /\ inState -> Tell(s, "DEACTIVATED")
                    [] event = "RSP" /\ ~inState /\ ~unasked -> s
                    [] event = "RSP" /\ ~inState /\ unasked ->
                         IF told THEN DeactivatePoll(s)
                         ELSE IF s.activated_handle = "listen" THEN Tell(s, "DEACTIVATED")
                         ELSE TellDeactivated(s)
  <2>1. t \in S
    <3>1. CASE event = "NTF"
      BY <3>1
    <3>2. CASE event = "RSP" /\ inState
      BY <3>2
    <3>3. CASE event = "RSP" /\ ~inState /\ ~unasked
      BY <3>3
    <3>4. CASE event = "RSP" /\ ~inState /\ unasked
      BY <3>4
    <3> QED
      BY <3>1, <3>2, <3>3, <3>4
  <2>2. NotifyDeactivation(s, event) \in {s, n(t)}
    BY DEF NotifyDeactivation
  <2> QED
    BY <2>1, <2>2
<1>2. \A t \in S : Aside(s, t)
  BY AsideRefl, DeactivatePollAside, TellAside
<1> HIDE DEF S
<1>3. ASSUME NEW t \in S PROVE Aside(s, n(t))
  <2>1. Aside(s, t) /\ t \in Host
    BY <1>2 DEF Aside
  <2>2. Aside(t, n(t))
    BY <2>1, FieldsAside
  <2> HIDE DEF n
  <2> QED
    BY <2>1, <2>2, AsideTrans
<1> HIDE DEF n
<1> QED
  BY <1>1, <1>3, AsideRefl
-----------------------------------------------------------------------------
(* NFA_DM_RF_DEACTIVATE_CMD.                                               *)

LEMMA Flags ==
  /\ {"W4_RSP"} \in SUBSET DISC_FLAGS /\ {"W4_NTF"} \in SUBSET DISC_FLAGS
  /\ {"W4_RSP", "W4_NTF"} \in SUBSET DISC_FLAGS /\ {} \in SUBSET DISC_FLAGS
  /\ {"CHECKING"} \in SUBSET DISC_FLAGS /\ {"NOTIFY"} \in SUBSET DISC_FLAGS
  /\ {"ENABLED", "NOTIFY"} \in SUBSET DISC_FLAGS /\ {"STOPPING"} \in SUBSET DISC_FLAGS
  /\ {"DISABLING"} \in SUBSET DISC_FLAGS
  /\ "IDLE" \in DEACTIVATE_TYPE /\ "SLEEP" \in DEACTIVATE_TYPE /\ "DISCOVERY" \in DEACTIVATE_TYPE
  /\ RFST = {"IDLE", "DISCOVERY", "W4_ALL_DISCOVERIES", "W4_HOST_SELECT", "POLL_ACTIVE",
             "LISTEN_ACTIVE", "LISTEN_SLEEP"}
BY DEF DISC_FLAGS, DEACTIVATE_TYPE, RFST

LEMMA ForceToIdleGood ==
  ASSUME NEW s, NEW k, NEW h, Good(s, k, h)
  PROVE  Good(ForceToIdle(s), k, h)
<1> DEFINE c == Clear(s, {"W4_NTF"})
           t == Set(c, {"W4_RSP"})
           n == NewState(t, "IDLE")
<1>1. Weak(s, k, h) /\ s \in Host
  BY DEF Good, Weak
<1>2. Weak(c, k, h) /\ c \in Host
  BY <1>1, ClearAside, AsideGood DEF Aside
<1> HIDE DEF c
<1>3. Weak(t, k, h)
  BY <1>2, SetWeak, Flags
<1> HIDE DEF t
<1>4. Weak(n, k, h)
  BY <1>3, NewStateGood, Flags
<1> HIDE DEF n
<1>5. Good(NfcDeactivate(n, "IDLE"), k, h)
  BY <1>4, NfcDeactivateGood, Flags
<1> QED
  BY <1>5 DEF ForceToIdle, n, t, c

LEMMA SendDeactivateGood ==
  ASSUME NEW s, NEW k, NEW h, Good(s, k, h), NEW type \in DEACTIVATE_TYPE
  PROVE  Good(SendDeactivateCmd(s, type), k, h)
<1> DEFINE n == NfcDeactivate(Set(s, {"W4_RSP", "W4_NTF"}), type)
           t == [n EXCEPT !.tle = TRUE]
<1>1. Good(n, k, h)
  BY SetDeactivateGood, Flags DEF Good
<1> HIDE DEF n
<1>2. Aside(n, t)
  BY <1>1, FieldsAside, GoodFacts
<1>3. Good(t, k, h)
  BY <1>1, <1>2, AsideGood
<1> HIDE DEF t
<1>4. s.tle \in BOOLEAN /\ Waiting(s) \in BOOLEAN
  BY HostFields DEF Good, Weak, Waiting
<1>5. SendDeactivateCmd(s, type) \in {t, s, ForceToIdle(s)}
  BY <1>4 DEF SendDeactivateCmd, t, n
<1> QED
  BY <1>3, <1>5, ForceToIdleGood

LEMMA KeepAside ==
  ASSUME NEW s \in Host, NEW type \in DEACTIVATE_TYPE
  PROVE  Aside(s, KeepDeactivate(s, type))
BY FieldsAside DEF KeepDeactivate

LEMMA DeactivateUnlessGood ==
  ASSUME NEW s, NEW k, NEW h, Good(s, k, h), NEW type \in DEACTIVATE_TYPE
  PROVE  Good(DeactivateUnlessWaiting(s, type), k, h)
BY SetDeactivateGood, Flags DEF DeactivateUnlessWaiting, Good

LEMMA SmDeactivateGood ==
  ASSUME NEW s, NEW k, NEW h, Good(s, k, h), NEW type \in DEACTIVATE_TYPE
  PROVE  Good(SmDeactivateCmd(s, type), k, h)
<1> DEFINE kept == KeepDeactivate(s, type)
           s1 == SendDeactivateCmd(s, type)
           u == [s1 EXCEPT !.tle = FALSE]
           v == Clear(u, {"W4_NTF"})
           d == DeactivateUnlessWaiting(s, type)
           i == DeactivateUnlessWaiting(s, "IDLE")
           sk == SendDeactivateCmd(kept, type)
           y == SmDeactivateCmd(s, type)
<1>1. s \in Host /\ s.disc_state \in RFST
  BY HostFields DEF Good, Weak
<1>2. Good(kept, k, h)
  BY <1>1, KeepAside, AsideGood
<1>3. Good(s1, k, h) /\ Good(d, k, h) /\ Good(i, k, h)
  BY SendDeactivateGood, DeactivateUnlessGood, Flags
<1>4. Good(sk, k, h)
  BY <1>2, SendDeactivateGood
<1>5. y \in {s, d, i, kept, sk, s1, v}
  <2>1. CASE s.disc_state = "IDLE"
    BY <2>1 DEF SmDeactivateCmd
  <2>2. CASE s.disc_state = "DISCOVERY"
    BY <2>2 DEF SmDeactivateCmd
  <2>3. CASE s.disc_state = "W4_ALL_DISCOVERIES"
    BY <2>3 DEF SmDeactivateCmd
  <2>4. CASE s.disc_state = "W4_HOST_SELECT"
    BY <2>4 DEF SmDeactivateCmd
  <2>5. CASE s.disc_state = "POLL_ACTIVE"
    <3>1. CASE s.proto = "MIFARE"
      BY <2>5, <3>1 DEF SmDeactivateCmd
    <3>2. CASE s.proto # "MIFARE" /\ "CHECKING" \in s.disc_flags
      BY <2>5, <3>2 DEF SmDeactivateCmd
    <3>3. CASE s.proto # "MIFARE" /\ "CHECKING" \notin s.disc_flags
      BY <2>5, <3>3 DEF SmDeactivateCmd
    <3> QED
      BY <3>1, <3>2, <3>3
  <2>6. CASE s.disc_state = "LISTEN_ACTIVE"
    BY <2>6 DEF SmDeactivateCmd
  <2>7. CASE s.disc_state = "LISTEN_SLEEP"
    BY <2>7 DEF SmDeactivateCmd
  <2> QED
    BY <1>1, <2>1, <2>2, <2>3, <2>4, <2>5, <2>6, <2>7, Flags
<1> HIDE DEF kept, s1, d, i, sk, y
<1>6. Aside(s1, u) /\ u \in Host
  BY <1>3, FieldsAside, GoodFacts, AsideFacts
<1> HIDE DEF u
<1>7. Good(u, k, h) /\ Aside(u, v)
  BY <1>3, <1>6, AsideGood, ClearAside
<1> HIDE DEF v
<1>8. Good(v, k, h)
  BY <1>7, AsideGood
<1>9. Good(y, k, h)
  BY <1>2, <1>3, <1>4, <1>5, <1>8
<1> QED
  BY <1>9 DEF y

LEMMA RfDeactivateGood ==
  ASSUME NEW s, NEW k, NEW h, Good(s, k, h), NEW type \in DEACTIVATE_TYPE
  PROVE  Good(RfDeactivate(s, type), k, h)
BY SmDeactivateGood DEF RfDeactivate
-----------------------------------------------------------------------------
(* Presence check by sleep and wake-up.                                    *)

LEMMA CheckRspGood ==
  ASSUME NEW s, NEW k, NEW h, Good(s, k, h), NEW ok \in BOOLEAN
  PROVE  Good(PresenceCheckRsp(s, ok), k, h)
<1> DEFINE t == [s EXCEPT !.busy = FALSE]
           u == Tell(t, "CHECKED")
<1>1. Aside(s, t)
  BY FieldsAside, GoodFacts
<1> HIDE DEF t
<1>2. Aside(t, u)
  BY <1>1, TellAside, AsideFacts
<1> HIDE DEF u
<1>3. Good(u, k, h)
  BY <1>1, <1>2, AsideGood
<1>4. Good(RfDeactivate(u, "DISCOVERY"), k, h)
  BY <1>3, RfDeactivateGood, Flags
<1> QED
  BY <1>3, <1>4 DEF PresenceCheckRsp, t, u

LEMMA SleepWakeupGood ==
  ASSUME NEW s, NEW k, NEW h, Good(s, k, h)
  PROVE  Good(SleepWakeup(s), k, h)
<1> DEFINE n == SendDeactivateCmd(s, "SLEEP")
           t == [n EXCEPT !.deact_pending = FALSE]
           u == Set(t, {"CHECKING"})
<1>1. Good(n, k, h)
  BY SendDeactivateGood, Flags
<1> HIDE DEF n
<1>2. Aside(n, t)
  BY <1>1, FieldsAside, GoodFacts
<1> HIDE DEF t
<1>3. Aside(t, u)
  BY <1>2, SetWeak, Flags DEF Aside
<1> HIDE DEF u
<1>4. Good(u, k, h)
  BY <1>1, <1>2, <1>3, AsideGood
<1>5. Good(PresenceCheckRsp(s, FALSE), k, h)
  BY CheckRspGood
<1> QED
  BY <1>4, <1>5 DEF SleepWakeup, u, t, n

LEMMA EndCheckGood ==
  ASSUME NEW s, NEW k, NEW h, Good(s, k, h), NEW ok \in BOOLEAN
  PROVE  Good(EndSleepWakeup(s, ok), k, h)
<1> DEFINE c == Clear(s, {"CHECKING"})
           s1 == PresenceCheckRsp(c, ok)
           t == [s1 EXCEPT !.deact_pending = FALSE, !.deact_notify_pending = TRUE]
           v == SmDeactivateCmd(t, s1.pending_deact_type)
<1>1. Good(c, k, h)
  <2>1. s \in Host
    BY DEF Good, Weak
  <2> QED
    BY <2>1, ClearAside, AsideGood
<1> HIDE DEF c
<1>2. Good(s1, k, h)
  BY <1>1, CheckRspGood
<1> HIDE DEF s1
<1>3. s1 \in Host /\ s1.pending_deact_type \in DEACTIVATE_TYPE /\ s1.deact_pending \in BOOLEAN
  BY <1>2, HostFields DEF Good, Weak
<1>4. Aside(s1, t)
  BY <1>3, FieldsAside
<1> HIDE DEF t
<1>5. Good(t, k, h)
  BY <1>2, <1>4, AsideGood
<1>6. Good(v, k, h)
  BY <1>3, <1>5, SmDeactivateGood
<1> HIDE DEF v
<1>7. EndSleepWakeup(s, ok) \in {s, s1, v}
  BY <1>3 DEF EndSleepWakeup, s1, c, v, t
<1> QED
  BY <1>2, <1>6, <1>7
-----------------------------------------------------------------------------
(* The state machine.  The response of a deactivation clears W4_RSP before *)
(* anything else, and so does that of DISCOVER in the idle state.          *)

LEMMA BackToIdleGood ==
  ASSUME NEW s, NEW k, NEW h, Weak(s, k, h)
  PROVE  Good(BackToIdle(s), k, h)
BY SetDeactivateGood, Flags DEF BackToIdle

LEMMA ClearGood ==
  ASSUME NEW s, NEW k, NEW h, NEW F
  PROVE  /\ Weak(s, k, h) => /\ Weak(Clear(s, F), k, h)
                             /\ Clear(s, F).disc_state = s.disc_state
                             /\ Clear(s, F).disc_flags = s.disc_flags \ F
         /\ Good(s, k, h) => Good(Clear(s, F), k, h)
         /\ Weak(s, k, h) /\ "W4_RSP" \in F => Good(Clear(s, F), k, h)
<1>1. s \in Host => Aside(s, Clear(s, F)) /\ Clear(s, F).disc_flags = s.disc_flags \ F
  BY ClearAside
<1>2. Weak(s, k, h) => /\ Weak(Clear(s, F), k, h)
                       /\ Clear(s, F).disc_state = s.disc_state
                       /\ Clear(s, F).disc_flags = s.disc_flags \ F
  BY <1>1, AsideGood DEF Weak, Aside
<1>3. Good(s, k, h) => Good(Clear(s, F), k, h)
  BY <1>1, AsideGood DEF Weak, Good
<1>4. Weak(s, k, h) /\ "W4_RSP" \in F => Good(Clear(s, F), k, h)
  BY <1>2, WeakGood
<1> QED
  BY <1>2, <1>3, <1>4

LEMMA NotifyGood ==
  ASSUME NEW s, NEW k, NEW h, Good(s, k, h), NEW e \in {"NTF", "RSP"}
  PROVE  /\ Good(NotifyDeactivation(s, e), k, h)
         /\ NotifyDeactivation(s, e).disc_state = s.disc_state
         /\ "W4_RSP" \notin s.disc_flags => "W4_RSP" \notin NotifyDeactivation(s, e).disc_flags
BY NotifyDeactivationAside, AsideGood DEF Good, Weak, Aside

LEMMA SmIdleGood ==
  ASSUME env \in Environments, NEW s, NEW k, NEW h, Weak(s, k, h), s.disc_state = "IDLE",
         NEW m, Sane(m),
         m.type \notin {"DISCOVER_RSP", "DEACTIVATE_RSP"} => Good(s, k, h)
  PROVE  Good(SmIdle(s, m), k, h)
<1> DEFINE s1 == Clear(s, {"W4_RSP"})
           restart(t) == ToIdle(NotifyDeactivation(t, "NTF"))
           started == NewState(s1, "DISCOVERY")
           w4ntf == "W4_NTF" \in s.disc_flags
           sN == CASE w4ntf -> s
                   [] ~w4ntf /\ m.arg = "DISCOVERY" -> BackToIdle(s)
                   [] OTHER -> restart(s)
           y == SmIdle(s, m)
<1>1. Good(s1, k, h) /\ Weak(s1, k, h) /\ "W4_RSP" \notin s1.disc_flags
  <2>1. s1.disc_flags = s.disc_flags \ {"W4_RSP"}
    BY ClearAside, GoodFacts
  <2>2. Good(s1, k, h)
    BY ClearGood
  <2> HIDE DEF s1
  <2> QED
    BY <2>1, <2>2, GoodFacts
<1>2. ASSUME NEW t, Good(t, k, h) PROVE Good(restart(t), k, h)
  BY <1>2, NotifyGood, ToIdleGood
<1>3. Good(started, k, h) /\ Weak(started, k, h)
  <2> HIDE DEF s1
  <2> QED
    BY <1>1, NewStateGood, Flags DEF Good
<1>4. CASE m.type = "DISCOVER_RSP"
  <2>1. y \in {BackToIdle(s1), BackToIdle(started), NotifyStarted(started)}
    BY <1>4 DEF SmIdle
  <2> HIDE DEF s1, started, y
  <2>2. Good(NotifyStarted(started), k, h)
    BY <1>3, NotifyStartedAside, AsideGood DEF Good, Weak
  <2>3. Good(y, k, h)
    BY <1>1, <1>3, <2>1, <2>2, BackToIdleGood
  <2> QED
    BY <2>3 DEF y
<1>5. CASE m.type = "DEACTIVATE_RSP"
  <2>1. y \in {restart(s1), ToIdle(s1), s1}
    BY <1>5 DEF SmIdle
  <2> HIDE DEF s1, restart, y
  <2>2. Good(y, k, h)
    BY <1>1, <1>2, <2>1, ToIdleGood
  <2> QED
    BY <2>2 DEF y
<1>6. CASE m.type \in {"DEACTIVATE_NTF", "REQ_FAILED_NTF"}
  <2>1. Good(s, k, h)
    BY <1>6
  <2>2. sN \in {s, BackToIdle(s), restart(s)}
    OBVIOUS
  <2>3. y = Clear(sN, {"W4_NTF"})
    BY <1>6 DEF SmIdle
  <2> HIDE DEF restart, sN, y
  <2>4. Good(sN, k, h)
    BY <1>2, <2>1, <2>2, BackToIdleGood
  <2>5. Good(y, k, h)
    BY <2>3, <2>4, ClearGood
  <2> QED
    BY <2>5 DEF y
<1>7. CASE m.type = "ACTIVATED_NTF"
  <2>1. y = NfcDeactivate(Set(s, {"W4_RSP", "W4_NTF"}), "IDLE")
    BY <1>7 DEF SmIdle
  <2> HIDE DEF y
  <2>2. Good(y, k, h)
    BY <2>1, SetDeactivateGood, Flags
  <2> QED
    BY <2>2 DEF y
<1>8. CASE m.type \notin {"DISCOVER_RSP", "DEACTIVATE_RSP", "DEACTIVATE_NTF", "REQ_FAILED_NTF",
                          "ACTIVATED_NTF"}
  <2>1. SmIdle(s, m) = s /\ Good(s, k, h)
    BY <1>8 DEF SmIdle
  <2> QED
    BY <2>1
<1> QED
  BY <1>4, <1>5, <1>6, <1>7, <1>8

LEMMA SmDiscoveryGood ==
  ASSUME env \in Environments, NEW s, NEW k, NEW h, Weak(s, k, h), s.disc_state = "DISCOVERY",
         NEW m, Sane(m), m.type # "DEACTIVATE_RSP" => Good(s, k, h)
  PROVE  Good(SmDiscovery(s, m), k, h)
<1> DEFINE s1 == Clear(s, {"W4_RSP"})
           s2 == Clear(s, {"W4_NTF"})
           st == IF m.arg = "listen" THEN "LISTEN_ACTIVE" ELSE "POLL_ACTIVE"
           n == NewState(s, st)
           a == ActivateOrRestart(n, m.arg, {"W4_RSP", "W4_NTF"})
           y == SmDiscovery(s, m)
<1>1. Good(s1, k, h)
  BY ClearGood
<1>2. CASE m.type = "DEACTIVATE_RSP"
  <2>1. y \in {s1, ToIdle(s1)}
    BY <1>2 DEF SmDiscovery
  <2> HIDE DEF s1, y
  <2>2. Good(y, k, h)
    BY <1>1, <2>1, ToIdleGood
  <2> QED
    BY <2>2 DEF y
<1>3. CASE m.type = "DISCOVER_NTF"
  <2>1. y \in {NfcDeactivate(s, "IDLE"), NewState(s, "W4_ALL_DISCOVERIES")}
    BY <1>3 DEF SmDiscovery
  <2> HIDE DEF y
  <2>2. Good(NewState(s, "W4_ALL_DISCOVERIES"), k, h)
    BY <1>3, NewStateGood, Flags
  <2>3. Good(y, k, h)
    BY <2>1, <2>2, NfcDeactivateGood, Flags
  <2> QED
    BY <2>3 DEF y
<1>4. CASE m.type = "ACTIVATED_NTF"
  <2>1. y \in {Set(s, {"W4_NTF"}), a}
    BY <1>4 DEF SmDiscovery
  <2>2. st \in RFST /\ m.arg \in Mode /\ Good(s, k, h)
    BY <1>4, Flags DEF Sane
  <2> HIDE DEF st
  <2>3. Good(n, k, h)
    BY <2>2, NewStateGood
  <2> HIDE DEF n
  <2>4. Good(a, k, h)
    BY <2>2, <2>3, ActivateOrRestartGood, Flags
  <2> HIDE DEF a
  <2>5. Good(Set(s, {"W4_NTF"}), k, h)
    BY <2>2, SetWeak, AsideGood, Flags DEF Good, Weak
  <2> HIDE DEF y
  <2>6. Good(y, k, h)
    BY <2>1, <2>4, <2>5
  <2> QED
    BY <2>6 DEF y
<1>5. CASE m.type \in {"DEACTIVATE_NTF", "REQ_FAILED_NTF"}
  <2>1. y \in {ToIdle(s2), s2}
    BY <1>5 DEF SmDiscovery
  <2>2. Good(s2, k, h)
    BY <1>5, ClearGood
  <2> HIDE DEF s2, y
  <2>3. Good(y, k, h)
    BY <2>1, <2>2, ToIdleGood
  <2> QED
    BY <2>3 DEF y
<1>6. CASE m.type \notin {"DEACTIVATE_RSP", "DISCOVER_NTF", "ACTIVATED_NTF", "DEACTIVATE_NTF",
                          "REQ_FAILED_NTF"}
  <2>1. SmDiscovery(s, m) = s /\ Good(s, k, h)
    BY <1>6 DEF SmDiscovery
  <2> QED
    BY <2>1
<1> QED
  BY <1>2, <1>3, <1>4, <1>5, <1>6

LEMMA SelectionEndsGood ==
  ASSUME env \in Environments, NEW s, NEW k, NEW h, Weak(s, k, h)
  PROVE  Good(SelectionEnds(s), k, h)
<1> DEFINE s1 == Clear(s, {"W4_RSP"})
           n == NotifyDeactivation(s1, "RSP")
<1>1. Good(s1, k, h)
  BY ClearGood
<1> HIDE DEF s1
<1>2. Good(n, k, h)
  BY <1>1, NotifyGood
<1> HIDE DEF n
<1>3. Good(ToIdle(n), k, h)
  BY <1>2, ToIdleGood
<1> QED
  BY <1>3 DEF SelectionEnds, n, s1

LEMMA SmAllGood ==
  ASSUME env \in Environments, NEW s, NEW k, NEW h, Weak(s, k, h),
         s.disc_state = "W4_ALL_DISCOVERIES",
         NEW m, Sane(m), m.type # "DEACTIVATE_RSP" => Good(s, k, h)
  PROVE  Good(SmW4AllDiscoveries(s, m), k, h)
<1> DEFINE n == NewState(s, "POLL_ACTIVE")
<1>1. CASE m.type = "DEACTIVATE_RSP"
  BY <1>1, SelectionEndsGood DEF SmW4AllDiscoveries
<1>2. CASE m.type = "DISCOVER_NTF"
  <2>1. SmW4AllDiscoveries(s, m) \in {NewState(s, "W4_HOST_SELECT"), s}
    BY <1>2 DEF SmW4AllDiscoveries
  <2>2. Good(NewState(s, "W4_HOST_SELECT"), k, h)
    BY <1>2, NewStateGood, Flags
  <2> QED
    BY <1>2, <2>1, <2>2
<1>3. CASE m.type = "ACTIVATED_NTF"
  <2>1. SmW4AllDiscoveries(s, m) = ActivateOrRestart(n, m.arg, {})
    BY <1>3 DEF SmW4AllDiscoveries
  <2>2. Good(n, k, h) /\ m.arg \in Mode
    BY <1>3, NewStateGood, Flags DEF Sane
  <2> HIDE DEF n
  <2> QED
    BY <2>1, <2>2, ActivateOrRestartGood, Flags
<1>4. CASE m.type \notin {"DEACTIVATE_RSP", "DISCOVER_NTF", "ACTIVATED_NTF"}
  <2>1. SmW4AllDiscoveries(s, m) = s /\ Good(s, k, h)
    BY <1>4 DEF SmW4AllDiscoveries
  <2> QED
    BY <2>1
<1> QED
  BY <1>1, <1>2, <1>3, <1>4

LEMMA SmSelectGood ==
  ASSUME env \in Environments, NEW s, NEW k, NEW h, Weak(s, k, h),
         s.disc_state = "W4_HOST_SELECT",
         NEW m, Sane(m), m.type # "DEACTIVATE_RSP" => Good(s, k, h)
  PROVE  Good(SmW4HostSelect(s, m), k, h)
<1> DEFINE active == NewState(s, "POLL_ACTIVE")
           n == NotifyActivation(active, m.arg)
           c == Clear(s, {"NOTIFY"})
<1>1. CASE m.type = "DEACTIVATE_RSP"
  BY <1>1, SelectionEndsGood DEF SmW4HostSelect
<1> SUFFICES ASSUME m.type # "DEACTIVATE_RSP"
             PROVE  Good(SmW4HostSelect(s, m), k, h)
  BY <1>1
<1>2. Good(s, k, h) /\ s \in Host
  BY DEF Weak
<1>3. CASE m.type = "SELECT_RSP"
  <2>1. SmW4HostSelect(s, m) \in {c, Tell(c, "SELECTED"), EndSleepWakeup(s, FALSE), s}
    BY <1>3 DEF SmW4HostSelect
  <2>2. Good(c, k, h)
    BY <1>2, ClearGood
  <2> HIDE DEF c
  <2>3. Good(Tell(c, "SELECTED"), k, h)
    BY <2>2, TellAside, AsideGood, GoodFacts
  <2> QED
    BY <1>2, <2>1, <2>2, <2>3, EndCheckGood
<1>4. CASE m.type = "ACTIVATED_NTF"
  <2>1. SmW4HostSelect(s, m) \in {EndSleepWakeup(n, TRUE), ActivateOrRestart(active, m.arg, {})}
    BY <1>4 DEF SmW4HostSelect
  <2>2. Good(active, k, h) /\ m.arg \in Mode
    BY <1>2, <1>4, NewStateGood, Flags DEF Sane
  <2> HIDE DEF active
  <2>3. Good(n, k, h)
    BY <2>2, NotifyActivationAside, AsideGood, GoodFacts
  <2> HIDE DEF n
  <2> QED
    BY <2>1, <2>2, <2>3, EndCheckGood, ActivateOrRestartGood, Flags
<1>5. CASE m.type = "INTF_ERROR_NTF"
  <2>1. SmW4HostSelect(s, m) \in {EndSleepWakeup(s, FALSE), Tell(s, "SELECTED")}
    BY <1>5 DEF SmW4HostSelect
  <2>2. Good(Tell(s, "SELECTED"), k, h)
    BY <1>2, TellAside, AsideGood
  <2> QED
    BY <1>2, <2>1, <2>2, EndCheckGood
<1>6. CASE m.type \notin {"SELECT_RSP", "ACTIVATED_NTF", "INTF_ERROR_NTF"}
  <2>1. SmW4HostSelect(s, m) = NfcDeactivate(s, "IDLE")
    BY <1>6 DEF SmW4HostSelect
  <2> QED
    BY <2>1, NfcDeactivateGood, Flags
<1> QED
  BY <1>3, <1>4, <1>5, <1>6

LEMMA ActiveRspGood ==
  ASSUME env \in Environments, NEW s, NEW k, NEW h, Weak(s, k, h)
  PROVE  Good(ActiveDeactivateRsp(s), k, h)
<1> DEFINE s1 == Clear(s, {"W4_RSP"})
           n == NotifyDeactivation(s1, "NTF")
<1>1. Good(s1, k, h)
  BY ClearGood
<1>2. ActiveDeactivateRsp(s) \in {s1, ToIdle(n)}
  BY DEF ActiveDeactivateRsp
<1> HIDE DEF s1
<1>3. Good(n, k, h)
  BY <1>1, NotifyGood
<1> HIDE DEF n
<1> QED
  BY <1>1, <1>2, <1>3, ToIdleGood

LEMMA ToDiscoveryGood ==
  ASSUME NEW s, NEW k, NEW h, Good(s, k, h), s.disc_state # "IDLE"
  PROVE  Good(ToDiscovery(s), k, h)
<1> DEFINE n == NewState(s, "DISCOVERY")
<1>1. Good(n, k, h) /\ Weak(n, k, h)
  BY NewStateGood, Flags DEF Good
<1> HIDE DEF n
<1>2. Good(NfcDeactivate(n, "IDLE"), k, h)
  BY <1>1, NfcDeactivateGood, Flags
<1> QED
  BY <1>1, <1>2 DEF ToDiscovery, n

LEMMA AsleepGood ==
  ASSUME NEW s, NEW k, NEW h, Good(s, k, h), s.disc_state # "IDLE"
  PROVE  Good(Asleep(s), k, h)
<1> DEFINE d == NotifyDeactivation(s, "NTF")
           r == [d EXCEPT !.retry = 0]
           s1 == NewState(r, "W4_HOST_SELECT")
           e == EndSleepWakeup(s1, TRUE)
           v == [e EXCEPT !.activated = FALSE]
<1>1. Good(d, k, h) /\ d.disc_state # "IDLE" /\ d \in Host
  <2>1. Good(d, k, h) /\ d.disc_state = s.disc_state
    BY NotifyGood
  <2> HIDE DEF d
  <2> QED
    BY <2>1, GoodFacts
<1> HIDE DEF d
<1>2. Good(r, k, h) /\ r.disc_state # "IDLE"
  <2>1. 0 \in 0..3
    OBVIOUS
  <2>2. Aside(d, r)
    BY <1>1, <2>1, FieldsAside
  <2> QED
    BY <1>1, <2>2, AsideGood, AsideFacts
<1> HIDE DEF r
<1>3. Good(s1, k, h)
  BY <1>2, NewStateGood, Flags
<1>4. s1.deact_pending \in BOOLEAN
  BY <1>3, HostFields DEF Good, Weak
<1>5. Asleep(s) \in {s1, v, NfcSend(s1, "SELECT")}
  BY <1>4 DEF Asleep, d, r
<1> HIDE DEF s1
<1>6. Good(e, k, h)
  BY <1>3, EndCheckGood
<1> HIDE DEF e
<1>7. Good(v, k, h)
  BY <1>6, FieldsAside, AsideGood, GoodFacts
<1> HIDE DEF v
<1>8. Good(NfcSend(s1, "SELECT"), k, h)
  BY <1>3, SendGood DEF Command
<1> QED
  BY <1>3, <1>5, <1>7, <1>8

LEMMA SleepRefusedGood ==
  ASSUME NEW s, NEW k, NEW h, Good(s, k, h)
  PROVE  Good(SleepRefused(s), k, h)
<1> DEFINE e == EndSleepWakeup(s, TRUE)
           v == [e EXCEPT !.activated = FALSE]
           checking == "CHECKING" \in s.disc_flags
           s1 == IF checking /\ s.deact_pending THEN v
                 ELSE IF checking THEN NfcSend(s, "SELECT") ELSE s
           d == SendDeactivateCmd(s1, "DISCOVERY")
           again == IF checking /\ s1.deact_pending THEN s1 ELSE d
           u == [again EXCEPT !.retry = 0]
           r == s1.retry + 1
           w == [s1 EXCEPT !.retry = r]
           z == SendDeactivateCmd(w, "SLEEP")
<1>1. Good(e, k, h)
  BY EndCheckGood
<1> HIDE DEF e
<1>2. Good(v, k, h)
  BY <1>1, FieldsAside, AsideGood, GoodFacts
<1>3. Good(NfcSend(s, "SELECT"), k, h)
  BY SendGood DEF Command
<1>4. Good(s1, k, h)
  <2> HIDE DEF v
  <2> QED
    BY <1>2, <1>3
<1>5. SleepRefused(s) = IF s1.retry = 3 THEN u ELSE z
  BY DEF SleepRefused, e
<1> HIDE DEF s1
<1>6. Good(d, k, h)
  BY <1>4, SendDeactivateGood, Flags
<1> HIDE DEF d
<1>7. Good(again, k, h)
  BY <1>4, <1>6
<1> HIDE DEF again
<1>8. Good(u, k, h)
  <2>1. 0 \in 0..3
    OBVIOUS
  <2>2. Aside(again, u)
    BY <1>7, <2>1, FieldsAside, GoodFacts
  <2> HIDE DEF u
  <2> QED
    BY <1>7, <2>2, AsideGood
<1> HIDE DEF u
<1>9. ASSUME s1.retry # 3 PROVE Good(z, k, h)
  <2>1. r \in 0..3 /\ s1 \in Host
    BY <1>4, <1>9, HostFields DEF Good, Weak
  <2> HIDE DEF r
  <2>2. Aside(s1, w)
    BY <2>1, FieldsAside
  <2>3. Good(w, k, h)
    BY <1>4, <2>2, AsideGood
  <2> HIDE DEF w
  <2> QED
    BY <2>3, SendDeactivateGood, Flags
<1> HIDE DEF z
<1> QED
  BY <1>5, <1>8, <1>9

(* What both active states begin with.                                     *)
LEMMA EndedGood ==
  ASSUME NEW s, NEW k, NEW h, Good(s, k, h)
  PROVE  LET s1 == [Clear(s, {"W4_NTF"}) EXCEPT !.tle = FALSE]
             told == NotifyDeactivation(s1, "NTF")
         IN  /\ Good(s1, k, h) /\ s1.disc_state = s.disc_state
             /\ Good(told, k, h) /\ told.disc_state = s.disc_state
<1> DEFINE c == Clear(s, {"W4_NTF"})
           s1 == [c EXCEPT !.tle = FALSE]
<1>1. Good(c, k, h) /\ c \in Host /\ c.disc_state = s.disc_state
  BY ClearGood, GoodFacts
<1> HIDE DEF c
<1>2. Aside(c, s1)
  BY <1>1, FieldsAside
<1> HIDE DEF s1
<1>3. Good(s1, k, h) /\ s1.disc_state = s.disc_state
  BY <1>1, <1>2, AsideGood DEF Aside
<1>4. Good(NotifyDeactivation(s1, "NTF"), k, h) /\ NotifyDeactivation(s1, "NTF").disc_state = s.disc_state
  BY <1>3, NotifyGood
<1> QED
  BY <1>3, <1>4 DEF s1, c

LEMMA SmPollGood ==
  ASSUME env \in Environments, NEW s, NEW k, NEW h, Weak(s, k, h), s.disc_state = "POLL_ACTIVE",
         NEW m, Sane(m), m.type # "DEACTIVATE_RSP" => Good(s, k, h)
  PROVE  Good(SmPollActive(s, m), k, h)
<1> DEFINE s1 == [Clear(s, {"W4_NTF"}) EXCEPT !.tle = FALSE]
           told == NotifyDeactivation(s1, "NTF")
           i == ToIdle(told)
           d == ToDiscovery(told)
           y == SmPollActive(s, m)
<1>1. CASE m.type = "DEACTIVATE_RSP"
  BY <1>1, ActiveRspGood DEF SmPollActive
<1> SUFFICES ASSUME m.type # "DEACTIVATE_RSP"
             PROVE  Good(y, k, h)
  BY <1>1
<1>2. y \in {s1, SleepRefused(s1), Asleep(s1), EndSleepWakeup(i, FALSE), EndSleepWakeup(d, FALSE), s}
  <2>1. CASE m.type \in {"DEACTIVATE_NTF", "REQ_FAILED_NTF"} /\ "W4_RSP" \in s.disc_flags
    BY <2>1 DEF SmPollActive
  <2>2. CASE m.type = "REQ_FAILED_NTF" /\ "W4_RSP" \notin s.disc_flags
    BY <2>2 DEF SmPollActive
  <2>3. CASE m.type = "DEACTIVATE_NTF" /\ "W4_RSP" \notin s.disc_flags
    <3>1. m.arg \in {"SLEEP", "IDLE", "DISCOVERY"}
      BY <2>3 DEF Sane, DEACTIVATE_TYPE
    <3>2. y = CASE m.arg = "SLEEP" -> Asleep(s1)
                [] m.arg = "IDLE" -> EndSleepWakeup(i, FALSE)
                [] m.arg = "DISCOVERY" -> EndSleepWakeup(d, FALSE)
      BY <2>3 DEF SmPollActive
    <3> HIDE DEF s1, i, d, y
    <3> QED
      BY <3>1, <3>2
  <2>4. CASE m.type \notin {"DEACTIVATE_NTF", "REQ_FAILED_NTF"}
    BY <2>4 DEF SmPollActive
  <2> QED
    BY <2>1, <2>2, <2>3, <2>4
<1>3. Good(s, k, h)
  OBVIOUS
<1>4. /\ Good(s1, k, h) /\ s1.disc_state = "POLL_ACTIVE"
      /\ Good(told, k, h) /\ told.disc_state = "POLL_ACTIVE"
  BY <1>3, EndedGood
<1> HIDE DEF s1, told, y
<1>5. Good(i, k, h) /\ Good(d, k, h)
  BY <1>4, ToIdleGood, ToDiscoveryGood
<1> HIDE DEF i, d
<1> QED
  BY <1>2, <1>3, <1>4, <1>5, SleepRefusedGood, AsleepGood, EndCheckGood

LEMMA SmListenGood ==
  ASSUME env \in Environments, NEW s, NEW k, NEW h, Weak(s, k, h), s.disc_state = "LISTEN_ACTIVE",
         NEW m, Sane(m), m.type # "DEACTIVATE_RSP" => Good(s, k, h)
  PROVE  Good(SmListenActive(s, m), k, h)
<1> DEFINE s1 == [Clear(s, {"W4_NTF"}) EXCEPT !.tle = FALSE]
           told == NotifyDeactivation(s1, "NTF")
           y == SmListenActive(s, m)
<1>1. CASE m.type = "DEACTIVATE_RSP"
  BY <1>1, ActiveRspGood DEF SmListenActive
<1> SUFFICES ASSUME m.type # "DEACTIVATE_RSP"
             PROVE  Good(y, k, h)
  BY <1>1
<1>2. y \in {s1, ToIdle(told), NewState(told, "LISTEN_SLEEP"), ToDiscovery(told), s}
  <2>1. CASE m.type \in {"DEACTIVATE_NTF", "REQ_FAILED_NTF"}
    BY <2>1 DEF SmListenActive
  <2>2. CASE m.type \notin {"DEACTIVATE_NTF", "REQ_FAILED_NTF"}
    BY <2>2 DEF SmListenActive
  <2> QED
    BY <2>1, <2>2
<1>3. Good(s, k, h)
  OBVIOUS
<1>4. /\ Good(s1, k, h) /\ Good(told, k, h) /\ told.disc_state = "LISTEN_ACTIVE"
  BY <1>3, EndedGood
<1> HIDE DEF s1, told, y
<1>5. Good(NewState(told, "LISTEN_SLEEP"), k, h)
  BY <1>4, NewStateGood, Flags
<1> QED
  BY <1>2, <1>3, <1>4, <1>5, ToIdleGood, ToDiscoveryGood

LEMMA SmSleepGood ==
  ASSUME env \in Environments, NEW s, NEW k, NEW h, Weak(s, k, h), s.disc_state = "LISTEN_SLEEP",
         NEW m, Sane(m), m.type # "DEACTIVATE_RSP" => Good(s, k, h)
  PROVE  Good(SmListenSleep(s, m), k, h)
<1> DEFINE s1 == Clear(s, {"W4_RSP"})
           c == Clear(s1, {"W4_NTF"})
           t == [c EXCEPT !.tle = FALSE]
           s2 == NotifyDeactivation(t, "RSP")
           n1 == NotifyDeactivation(s1, "RSP")
           a == NewState(s, "LISTEN_ACTIVE")
           y == SmListenSleep(s, m)
<1> SUFFICES Good(y, k, h)
  OBVIOUS
<1>1. Good(s1, k, h) /\ s1 \in Host /\ s1.disc_state = "LISTEN_SLEEP"
  BY ClearGood, GoodFacts
<1>2. /\ m.type = "DEACTIVATE_RSP" => y \in {s1, ToIdle(n1)}
      /\ m.type \in {"DEACTIVATE_NTF", "REQ_FAILED_NTF"} => y \in {NewState(s2, "DISCOVERY"), ToIdle(s2)}
  <2>1. CASE m.type = "DEACTIVATE_RSP"
    BY <2>1 DEF SmListenSleep
  <2>2. CASE m.type \in {"DEACTIVATE_NTF", "REQ_FAILED_NTF"}
    BY <2>2 DEF SmListenSleep
  <2> QED
    BY <2>1, <2>2
<1>3. /\ m.type = "ACTIVATED_NTF" => y = ActivateOrRestart(a, m.arg, {})
      /\ m.type \notin {"DEACTIVATE_RSP", "DEACTIVATE_NTF", "REQ_FAILED_NTF", "ACTIVATED_NTF"} => y = s
  BY DEF SmListenSleep
<1> HIDE DEF y, s1
<1>5. Good(n1, k, h)
  BY <1>1, NotifyGood
<1> HIDE DEF n1
<1>6. Good(c, k, h) /\ c \in Host /\ c.disc_state = "LISTEN_SLEEP"
  BY <1>1, ClearGood, GoodFacts
<1> HIDE DEF c
<1>7. Good(t, k, h) /\ t.disc_state = "LISTEN_SLEEP"
  <2>1. Aside(c, t)
    BY <1>6, FieldsAside
  <2> QED
    BY <1>6, <2>1, AsideGood DEF Aside
<1> HIDE DEF t
<1>8. Good(s2, k, h) /\ s2.disc_state = "LISTEN_SLEEP"
  BY <1>7, NotifyGood
<1> HIDE DEF s2
<1>9. Good(NewState(s2, "DISCOVERY"), k, h)
  BY <1>8, NewStateGood, Flags
<1>10. CASE m.type = "DEACTIVATE_RSP"
  BY <1>1, <1>2, <1>5, <1>10, ToIdleGood
<1>11. CASE m.type \in {"DEACTIVATE_NTF", "REQ_FAILED_NTF"}
  BY <1>2, <1>8, <1>9, <1>11, ToIdleGood
<1>12. CASE m.type = "ACTIVATED_NTF"
  <2>1. Good(a, k, h) /\ m.arg \in Mode
    BY <1>12, NewStateGood, Flags DEF Sane
  <2> HIDE DEF a
  <2> QED
    BY <1>3, <1>12, <2>1, ActivateOrRestartGood, Flags
<1>13. CASE m.type \notin {"DEACTIVATE_RSP", "DEACTIVATE_NTF", "REQ_FAILED_NTF", "ACTIVATED_NTF"}
  BY <1>3, <1>13
<1> QED
  BY <1>10, <1>11, <1>12, <1>13

(* nfa_dm_disc_sm_execute.                                                 *)
LEMMA ExecuteGood ==
  ASSUME env \in Environments, NEW s, NEW k, NEW h, Weak(s, k, h), NEW m, Sane(m),
         /\ m.type # "DEACTIVATE_RSP" /\ ~(m.type = "DISCOVER_RSP" /\ s.disc_state = "IDLE")
         => Good(s, k, h)
  PROVE  Good(SmExecute(s, m), k, h)
<1>1. s.disc_state \in RFST
  BY HostFields DEF Weak
<1>2. CASE s.disc_state = "IDLE"
  BY <1>2, SmIdleGood DEF SmExecute
<1>3. CASE s.disc_state = "DISCOVERY"
  BY <1>3, SmDiscoveryGood DEF SmExecute
<1>4. CASE s.disc_state = "W4_ALL_DISCOVERIES"
  BY <1>4, SmAllGood DEF SmExecute
<1>5. CASE s.disc_state = "W4_HOST_SELECT"
  BY <1>5, SmSelectGood DEF SmExecute
<1>6. CASE s.disc_state = "POLL_ACTIVE"
  BY <1>6, SmPollGood DEF SmExecute
<1>7. CASE s.disc_state = "LISTEN_ACTIVE"
  BY <1>7, SmListenGood DEF SmExecute
<1>8. CASE s.disc_state = "LISTEN_SLEEP"
  BY <1>8, SmSleepGood DEF SmExecute
<1> QED
  BY <1>1, <1>2, <1>3, <1>4, <1>5, <1>6, <1>7, <1>8, Flags
-----------------------------------------------------------------------------
(* The application's calls.                                                *)

LEMMA EventTypes ==
  /\ "STARTED" \in Event /\ "STOPPED" \in Event /\ "SELECTED" \in Event
  /\ "DEACTIVATED" \in Event /\ "CHECKED" \in Event /\ "POLL_DISABLED" \in Event
BY DEF Event

(* The application waits for an event.                                     *)
LEMMA WaitsAside ==
  ASSUME NEW s \in Host, NEW e \in Event
  PROVE  Aside(s, [s EXCEPT !.waits = s.waits \union {e}])
<1>1. s.waits \union {e} \in SUBSET Event
  BY HostFields
<1> QED
  BY <1>1, FieldsAside

LEMMA StartCallGood ==
  ASSUME env \in Environments, NEW s, NEW k, NEW h, Good(s, k, h)
  PROVE  Good(StartRfDiscovery(s), k, h)
<1> DEFINE s1 == [s EXCEPT !.waits = s.waits \union {"STARTED"}]
           t == Set(s1, {"ENABLED", "NOTIFY"})
<1>1. Good(s1, k, h) /\ s1 \in Host /\ s1.disc_state = s.disc_state
  BY WaitsAside, EventTypes, AsideGood, GoodFacts, AsideFacts
<1>2. StartRfDiscovery(s) = IF "ENABLED" \in s.disc_flags \/ s.disc_state # "IDLE"
                              THEN Tell(s1, "STARTED") ELSE StartRfDiscover(t)
  BY DEF StartRfDiscovery
<1> HIDE DEF s1
<1>3. Good(Tell(s1, "STARTED"), k, h)
  BY <1>1, TellAside, AsideGood
<1>4. Good(t, k, h) /\ t.disc_state = s.disc_state
  BY <1>1, SetWeak, AsideGood, Flags
<1> HIDE DEF t
<1> QED
  BY <1>2, <1>3, <1>4, StartGood

LEMMA StopCallGood ==
  ASSUME NEW s, NEW k, NEW h, Good(s, k, h)
  PROVE  Good(StopRfDiscovery(s), k, h)
<1> DEFINE w == [s EXCEPT !.waits = s.waits \union {"STOPPED"}]
           s1 == Clear(w, {"ENABLED"})
           t == Set(s1, {"STOPPING"})
           d == RfDeactivate(t, "IDLE")
<1>1. Good(w, k, h) /\ w \in Host
  BY WaitsAside, EventTypes, AsideGood, GoodFacts, AsideFacts
<1>2. StopRfDiscovery(s) \in {d, t, TellStopped(s1)}
  BY DEF StopRfDiscovery
<1> HIDE DEF w
<1>3. Good(s1, k, h) /\ s1 \in Host
  BY <1>1, ClearGood, GoodFacts
<1> HIDE DEF s1
<1>4. Good(t, k, h)
  BY <1>3, SetWeak, AsideGood, Flags
<1> HIDE DEF t
<1>5. Good(d, k, h)
  BY <1>4, RfDeactivateGood, Flags
<1>6. Good(TellStopped(s1), k, h)
  BY <1>3, TellAside, AsideGood
<1> HIDE DEF d
<1> QED
  BY <1>2, <1>4, <1>5, <1>6

LEMMA DeactivateCallGood ==
  ASSUME NEW s, NEW k, NEW h, Good(s, k, h), NEW sleep \in BOOLEAN
  PROVE  Good(Deactivate(s, sleep), k, h)
<1> DEFINE type == CASE s.disc_state = "W4_ALL_DISCOVERIES" -> "IDLE"
                     [] s.disc_state = "W4_HOST_SELECT" /\ sleep -> "IDLE"
                     [] s.disc_state \notin {"W4_ALL_DISCOVERIES", "W4_HOST_SELECT", "LISTEN_SLEEP"}
                          /\ sleep -> "SLEEP"
                     [] OTHER -> "DISCOVERY"
           w == [s EXCEPT !.waits = s.waits \union {"DEACTIVATED"}]
<1>1. type \in DEACTIVATE_TYPE
  BY DEF DEACTIVATE_TYPE
<1>2. Deactivate(s, sleep) = IF RefusesDeactivate(s, type) THEN s ELSE SmDeactivateCmd(w, type)
  BY DEF Deactivate
<1> HIDE DEF type
<1>3. Good(w, k, h)
  BY WaitsAside, EventTypes, AsideGood, GoodFacts
<1> HIDE DEF w
<1> QED
  BY <1>1, <1>2, <1>3, SmDeactivateGood

LEMMA CheckCallGood ==
  ASSUME NEW s, NEW k, NEW h, Good(s, k, h)
  PROVE  Good(RwPresenceCheck(s), k, h)
<1> DEFINE w == s.waits \union {"CHECKED"}
           t == [s EXCEPT !.busy = TRUE, !.waits = w]
<1>1. w \in SUBSET Event /\ s \in Host
  BY HostFields, EventTypes DEF Good, Weak
<1>2. RwPresenceCheck(s) \in {s, SleepWakeup(t)}
  BY DEF RwPresenceCheck
<1> HIDE DEF w
<1>3. Aside(s, t)
  BY <1>1, FieldsAside
<1>4. Good(t, k, h)
  BY <1>3, AsideGood
<1> HIDE DEF t
<1> QED
  BY <1>2, <1>4, SleepWakeupGood

LEMMA SelectCallGood ==
  ASSUME NEW s, NEW k, NEW h, Good(s, k, h)
  PROVE  Good(Select(s), k, h)
<1> DEFINE w == [s EXCEPT !.waits = s.waits \union {"SELECTED"}]
           t == Set(w, {"NOTIFY"})
<1>1. Good(w, k, h) /\ w \in Host
  BY WaitsAside, EventTypes, AsideGood, GoodFacts, AsideFacts
<1>2. Select(s) \in {Clear(s, {"NOTIFY"}), NfcSend(t, "SELECT")}
  BY DEF Select
<1> HIDE DEF w
<1>3. Good(t, k, h)
  BY <1>1, SetWeak, AsideGood, Flags
<1> HIDE DEF t
<1>4. Good(NfcSend(t, "SELECT"), k, h)
  BY <1>3, SendGood DEF Command
<1> QED
  BY <1>2, <1>4, ClearGood

LEMMA PollingCallsGood ==
  ASSUME NEW s, NEW k, NEW h, Good(s, k, h)
  PROVE  Good(EnablePolling(s), k, h) /\ Good(DisablePolling(s), k, h)
<1> DEFINE e == [s EXCEPT !.polling = TRUE, !.entry = TRUE]
           s1 == [s EXCEPT !.polling = FALSE]
           gone == [s1 EXCEPT !.entry = FALSE]
           d == RfDeactivate(s1, "IDLE")
           u == [d EXCEPT !.entry = FALSE]
           w == d.waits \union {"POLL_DISABLED"}
           v == [d EXCEPT !.stop_evt = TRUE, !.waits = w]
<1>1. s \in Host /\ s.entry \in BOOLEAN
  BY HostFields DEF Good, Weak
<1>2. DisablePolling(s) \in {s, u, v, gone}
  BY <1>1 DEF DisablePolling
<1>3. EnablePolling(s) \in {s, e}
  BY DEF EnablePolling
<1>4. Aside(s, e) /\ Aside(s, s1)
  BY <1>1, FieldsAside
<1> HIDE DEF e, s1
<1>5. Aside(s1, gone)
  BY <1>4, FieldsAside, AsideFacts
<1> HIDE DEF gone
<1>6. Good(e, k, h) /\ Good(s1, k, h) /\ Good(gone, k, h)
  BY <1>4, <1>5, AsideGood
<1>7. Good(d, k, h) /\ d \in Host
  BY <1>6, RfDeactivateGood, Flags, GoodFacts
<1> HIDE DEF d
<1>8. w \in SUBSET Event
  BY <1>7, HostFields, EventTypes
<1> HIDE DEF w
<1>9. Aside(d, u) /\ Aside(d, v)
  BY <1>7, <1>8, FieldsAside
<1> HIDE DEF u, v
<1>10. Good(u, k, h) /\ Good(v, k, h)
  BY <1>7, <1>9, AsideGood
<1> QED
  BY <1>2, <1>3, <1>6, <1>10

LEMMA DisableCallGood ==
  ASSUME NEW s, NEW k, NEW h, Good(s, k, h)
  PROVE  Good(Disable(s), k, h)
<1> DEFINE w == [s EXCEPT !.power = "disabling", !.waits = {}]
           s1 == Clear(w, {"ENABLED"})
           s2 == Set(s1, {"DISABLING"})
           s3 == SmDeactivateCmd(s2, "IDLE")
<1>1. Aside(s, w)
  <2>1. {} \in SUBSET Event /\ s \in Host
    BY DEF Good, Weak
  <2> QED
    BY <2>1, FieldsAside
<1>2. Disable(s) \in {s1, s2, s3, Clear(s3, {"DISABLING"})}
  BY DEF Disable
<1> HIDE DEF w
<1>3. Good(s1, k, h) /\ s1 \in Host
  BY <1>1, AsideGood, ClearGood, GoodFacts
<1> HIDE DEF s1
<1>4. Good(s2, k, h)
  BY <1>3, SetWeak, AsideGood, Flags
<1> HIDE DEF s2
<1>5. Good(s3, k, h)
  BY <1>4, SmDeactivateGood, Flags
<1> HIDE DEF s3
<1> QED
  BY <1>2, <1>3, <1>4, <1>5, ClearGood

LEMMA ServeGood ==
  ASSUME env \in Environments, NEW s, NEW k, NEW h, Good(s, k, h), NEW call \in Call
  PROVE  Good(Serve(s, call), k, h)
<1>1. Serve(s, call) \in {StartRfDiscovery(s), StopRfDiscovery(s), Deactivate(s, TRUE),
                          Deactivate(s, FALSE), RwPresenceCheck(s), Select(s),
                          EnablePolling(s), DisablePolling(s), Disable(s)}
  BY DEF Serve, Call
<1> QED
  BY <1>1, StartCallGood, StopCallGood, DeactivateCallGood, CheckCallGood, SelectCallGood,
     PollingCallsGood, DisableCallGood
-----------------------------------------------------------------------------
(* The steps.                                                              *)

(* The answered command leaves the queue, which makes room for a pending   *)
(* discovery.                                                              *)
LEMMA PopGood ==
  ASSUME NEW s, NEW h, Good(s, 1, h)
  PROVE  Good(CheckCmdQueue([s EXCEPT !.cmds = Tail(s.cmds)]), 0, "none")
<1> DEFINE q == Tail(s.cmds)
           t == [s EXCEPT !.cmds = q]
           r == <<"DISCOVER">>
           d == [t EXCEPT !.disc_pending = FALSE, !.cmds = r]
           n == CheckCmdQueue(t)
<1> SUFFICES Good(n, 0, "none")
  OBVIOUS
<1>1. s \in Host /\ s.cmds \in Seq(Command) /\ 1 <= Len(s.cmds)
  BY HostFields DEF Good, Weak
<1>2. /\ q \in Seq(Command) /\ Len(q) = Len(s.cmds) - 1 /\ DOMAIN q = 1..Len(q)
      /\ \A i \in DOMAIN s.cmds : i > 1 => i - 1 \in DOMAIN q /\ q[i - 1] = s.cmds[i]
  BY <1>1
<1>3. r \in Seq(Command) /\ DOMAIN r = {1} /\ r[1] = "DISCOVER" /\ r # <<>> /\ Len(r) = 1
  BY DEF Command
<1> HIDE DEF q, r
<1>4. /\ t \in Host /\ t.cmds = q /\ t.disc_pending = s.disc_pending
      /\ t.disc_state = s.disc_state /\ t.disc_flags = s.disc_flags
  <2>1. Put(t, s.disc_flags, s.disc_state, q, s.disc_pending)
    BY <1>1, <1>2, FieldSet
  <2> HIDE DEF t
  <2> QED
    BY <2>1 DEF Put
<1> HIDE DEF t
<1>5. n = IF s.disc_pending /\ q = <<>> THEN d ELSE t
  BY <1>4 DEF CheckCmdQueue, r
<1> HIDE DEF n
<1>6. /\ d \in Host /\ d.cmds = r /\ ~d.disc_pending
      /\ d.disc_state = s.disc_state /\ d.disc_flags = s.disc_flags
  <2>1. Put(d, t.disc_flags, t.disc_state, r, FALSE)
    BY <1>3, <1>4, FieldSet
  <2> HIDE DEF d
  <2> QED
    BY <1>4, <2>1 DEF Put
<1> HIDE DEF d
<1>7. ASSUME NEW C, Sent(s, 1, C) PROVE q # <<>> /\ Sent(t, 0, C)
  <2>1. PICK i \in DOMAIN s.cmds : i > 1 /\ s.cmds[i] \in C
    BY <1>7 DEF Sent
  <2>2. i - 1 \in DOMAIN q /\ q[i - 1] \in C /\ i - 1 > 0
    BY <1>1, <1>2, <2>1
  <2>3. q # <<>>
    BY <1>2, <2>2
  <2> QED
    BY <1>4, <2>2, <2>3 DEF Sent
<1>8. \/ "W4_RSP" \notin s.disc_flags
      \/ Sent(s, 1, DEACTIVATE_TYPE)
      \/ s.disc_state = "IDLE" /\ (s.disc_pending \/ Sent(s, 1, Command \ {"SELECT"}))
  BY DEF Good, Due
<1>9. CASE s.disc_pending /\ q = <<>>
  <2>1. "W4_RSP" \notin d.disc_flags \/ d.disc_state = "IDLE"
    BY <1>6, <1>7, <1>8, <1>9
  <2>2. Sent(d, 0, Command \ {"SELECT"})
    <3>1. 1 \in DOMAIN d.cmds /\ 1 > 0 /\ d.cmds[1] \in Command \ {"SELECT"}
      BY <1>3, <1>6 DEF Command
    <3> QED
      BY <3>1 DEF Sent
  <2>3. Weak(d, 0, "none")
    BY <1>3, <1>6 DEF Weak
  <2> QED
    BY <1>5, <1>9, <2>1, <2>2, <2>3 DEF Good, Due
<1>10. CASE ~(s.disc_pending /\ q = <<>>)
  <2>1. Weak(t, 0, "none")
    BY <1>1, <1>2, <1>4, <1>10 DEF Weak
  <2>2. Due(t, 0)
    BY <1>4, <1>7, <1>8 DEF Due
  <2> QED
    BY <1>5, <1>10, <2>1, <2>2 DEF Good
<1> QED
  BY <1>9, <1>10

(* A message that joins those for the task.                                *)
LEMMA AppendUp ==
  ASSUME up \in Seq(Message), Answers, NEW m, Sane(m),
         m.type \in Rsp => ~Answered /\ host.cmds # <<>> /\ m.type = RspOf(host.cmds[1]),
         up' = Append(up, m), UNCHANGED host
  PROVE  up' \in Seq(Message) /\ Answers'
<1> DEFINE n == Len(up) + 1
<1>1. m \in Message
  BY DEF Sane
<1>2. /\ up' \in Seq(Message) /\ DOMAIN up' = 1..n /\ DOMAIN up = 1..Len(up) /\ up'[n] = m
      /\ Len(up) \in Nat /\ \A i \in DOMAIN up : up'[i] = up[i] /\ i \in 1..n /\ i # n
      /\ \A i \in 1..n : i = n \/ i \in DOMAIN up
  BY <1>1
<1> HIDE DEF n
<1>3. ASSUME NEW i \in DOMAIN up'
      PROVE  /\ Sane(up'[i])
             /\ up'[i].type \in Rsp =>
                  /\ host'.cmds # <<>> /\ up'[i].type = RspOf(host'.cmds[1])
                  /\ \A j \in DOMAIN up' : up'[j].type \in Rsp => j = i
  <2>1. CASE i = n
    <3>1. m.type \in Rsp => \A j \in DOMAIN up : up[j].type \notin Rsp
      BY DEF Answered
    <3> QED
      BY <1>2, <2>1, <3>1
  <2>2. CASE i # n
    <3>1. i \in DOMAIN up /\ up'[i] = up[i]
      BY <1>2, <2>2
    <3>2. up[i].type \in Rsp => m.type \notin Rsp
      BY <3>1 DEF Answered
    <3>3. /\ Sane(up[i])
          /\ up[i].type \in Rsp =>
               /\ host.cmds # <<>> /\ up[i].type = RspOf(host.cmds[1])
               /\ \A j \in DOMAIN up : up[j].type \in Rsp => j = i
      BY <3>1 DEF Answers
    <3> QED
      BY <1>2, <3>1, <3>2, <3>3
  <2> QED
    BY <2>1, <2>2
<1> QED
  BY <1>2, <1>3 DEF Answers

(* The first of them is taken.                                             *)
LEMMA TakeUp ==
  ASSUME up \in Seq(Message), Answers, up # <<>>, up' = Tail(up),
         \/ Head(up).type \in Rsp
         \/ ~Answered
         \/ host'.cmds # <<>> /\ host'.cmds[1] = host.cmds[1]
  PROVE  /\ up' \in Seq(Message) /\ Answers' /\ Sane(Head(up))
         /\ Head(up).type \in Rsp => host.cmds # <<>> /\ Head(up).type = RspOf(host.cmds[1])
<1>1. /\ up' \in Seq(Message) /\ 1 \in DOMAIN up /\ Head(up) = up[1]
      /\ \A i \in DOMAIN up' : up'[i] = up[i + 1] /\ i + 1 \in DOMAIN up /\ i + 1 # 1 /\ i \in Int
  OBVIOUS
<1>2. /\ Sane(Head(up))
      /\ Head(up).type \in Rsp =>
           /\ host.cmds # <<>> /\ Head(up).type = RspOf(host.cmds[1])
           /\ \A j \in DOMAIN up : up[j].type \in Rsp => j = 1
  BY <1>1 DEF Answers
<1>3. ASSUME NEW i \in DOMAIN up'
      PROVE  /\ Sane(up'[i])
             /\ up'[i].type \in Rsp =>
                  /\ host'.cmds # <<>> /\ up'[i].type = RspOf(host'.cmds[1])
                  /\ \A j \in DOMAIN up' : up'[j].type \in Rsp => j = i
  <2>1. up'[i] = up[i + 1] /\ i + 1 \in DOMAIN up /\ i + 1 # 1 /\ i \in Int
    BY <1>1
  <2>2. /\ Sane(up[i + 1])
        /\ up[i + 1].type \in Rsp =>
             /\ host.cmds # <<>> /\ up[i + 1].type = RspOf(host.cmds[1])
             /\ \A j \in DOMAIN up : up[j].type \in Rsp => j = i + 1
    BY <2>1 DEF Answers
  <2>3. up[i + 1].type \in Rsp => Answered
    BY <2>1 DEF Answered
  <2>4. ASSUME up[i + 1].type \in Rsp, NEW j \in DOMAIN up', up'[j].type \in Rsp
        PROVE  j = i
    <3>1. j + 1 = i + 1 /\ j \in Int
      BY <1>1, <2>2, <2>4
    <3> QED
      BY <2>1, <3>1
  <2>5. up[i + 1].type \in Rsp => host'.cmds # <<>> /\ host'.cmds[1] = host.cmds[1]
    BY <1>2, <2>1, <2>3
  <2> QED
    BY <2>1, <2>2, <2>4, <2>5
<1> QED
  BY <1>1, <1>2, <1>3 DEF Answers

(* The fields of the NFCC.                                                 *)
LEMMA NfccTypes ==
  ASSUME nfcc \in Nfcc
  PROVE  /\ nfcc.state \in RFST /\ nfcc.owes \in DEACTIVATE_TYPE \union {"none"}
         /\ \A st \in RFST : [nfcc EXCEPT !.state = st] \in Nfcc
         /\ \A st \in RFST, b \in BOOLEAN : [nfcc EXCEPT !.state = st, !.polls = b] \in Nfcc
         /\ \A st \in RFST : [nfcc EXCEPT !.state = st, !.owes = "none"] \in Nfcc
         /\ \A st \in RFST : [nfcc EXCEPT !.selecting = FALSE, !.state = st] \in Nfcc
         /\ \A b \in BOOLEAN : [nfcc EXCEPT !.selecting = b] \in Nfcc
         /\ \A o \in DEACTIVATE_TYPE \union {"none"} : [nfcc EXCEPT !.owes = o] \in Nfcc
         /\ [nfcc EXCEPT !.state = "IDLE", !.owes = "none", !.selecting = FALSE] \in Nfcc
<1>1. "IDLE" \in RFST
  BY DEF RFST
<1> QED
  BY <1>1 DEF Nfcc

LEMMA MessageTypes ==
  /\ \A a \in {"OK", "SEMANTIC_ERROR", "FAILED"}, c \in Command : Sane(Msg(RspOf(c), a))
  /\ \A c : RspOf(c) \in Rsp
  /\ \A a \in DEACTIVATE_TYPE : Sane(Msg("DEACTIVATE_NTF", a))
  /\ \A a \in Mode : Sane(Msg("ACTIVATED_NTF", a))
  /\ \A a \in {"MORE", "LAST", "ABORT"} : Sane(Msg("DISCOVER_NTF", a))
  /\ Sane(Msg("REQ_FAILED_NTF", "SLEEP")) /\ Sane(Msg("INTF_ERROR_NTF", "OK"))
  /\ \A t, a : Msg(t, a).type = t
<1>1. \A t, a : Msg(t, a).type = t /\ Msg(t, a).arg = a
  BY DEF Msg
<1>2. \A c : RspOf(c) \in Rsp /\ RspOf(c) # "DEACTIVATE_NTF" /\ RspOf(c) # "ACTIVATED_NTF"
  BY DEF RspOf, Rsp
<1>3. \A t \in Rsp, a \in {"OK", "SEMANTIC_ERROR", "FAILED"} : Msg(t, a) \in Message
  BY DEF Message, Msg
<1>4. \A a \in {"OK", "SEMANTIC_ERROR", "FAILED"}, c \in Command : Sane(Msg(RspOf(c), a))
  BY <1>1, <1>2, <1>3 DEF Sane
<1>5. \A a \in DEACTIVATE_TYPE : Sane(Msg("DEACTIVATE_NTF", a))
  BY DEF Sane, Msg, Message
<1>6. \A a \in Mode : Sane(Msg("ACTIVATED_NTF", a))
  BY DEF Sane, Msg, Message
<1>7. \A a \in {"MORE", "LAST", "ABORT"} : Sane(Msg("DISCOVER_NTF", a))
  BY DEF Sane, Msg, Message
<1>8. Sane(Msg("REQ_FAILED_NTF", "SLEEP")) /\ Sane(Msg("INTF_ERROR_NTF", "OK"))
  BY DEF Sane, Msg, Message, DEACTIVATE_TYPE
<1> QED
  BY <1>1, <1>2, <1>4, <1>5, <1>6, <1>7, <1>8

(* What may be said by a step that only adds a message.                    *)
LEMMA SaysGood ==
  ASSUME IInv, NEW m, Sane(m), up' = Append(up, m), UNCHANGED <<host, env>>, nfcc' \in Nfcc,
         m.type \in Rsp => ~Answered /\ host.cmds # <<>> /\ m.type = RspOf(host.cmds[1])
  PROVE  IInv'
<1>1. up' \in Seq(Message) /\ Answers'
  BY AppendUp DEF IInv, TypeOK
<1>2. Good(host', 0, "none")
  BY DEF IInv
<1>3. TypeOK'
  BY <1>1 DEF IInv, TypeOK
<1> QED
  BY <1>1, <1>2, <1>3 DEF IInv

(* A step of the task that leaves the messages and the answered command.   *)
LEMMA TaskGood ==
  ASSUME IInv, UNCHANGED <<nfcc, up, env>>,
         \A h : Good(host, 0, h) => Good(host', 0, h)
  PROVE  IInv'
<1>1. Good(host', 0, "none")
  BY DEF IInv
<1>2. host' \in Host
  BY <1>1 DEF Good, Weak
<1>3. TypeOK'
  BY <1>2 DEF IInv, TypeOK
<1>4. ASSUME host.cmds # <<>> PROVE host'.cmds # <<>> /\ host'.cmds[1] = host.cmds[1]
  <2> DEFINE h == host.cmds[1]
  <2>1. host.cmds \in Seq(Command)
    BY HostFields DEF IInv, TypeOK
  <2>2. h \in Command /\ h # "none"
    BY <1>4, <2>1 DEF Command, DEACTIVATE_TYPE
  <2>3. Good(host, 0, h)
    BY <1>4 DEF IInv, Good, Weak
  <2>4. Good(host', 0, h)
    BY <2>3
  <2> HIDE DEF h
  <2>5. host'.cmds # <<>> /\ host'.cmds[1] = h
    BY <2>2, <2>4 DEF Good, Weak
  <2> QED
    BY <2>5 DEF h
<1>5. Answers'
  BY <1>4 DEF IInv, Answers
<1> QED
  BY <1>1, <1>3, <1>5 DEF IInv

LEMMA ReceiveKept == ASSUME IInv, Receive PROVE IInv'
<1> DEFINE m == Head(up)
           dropped == m = Msg("DEACTIVATE_NTF", "DISCOVERY") /\ host.disc_pending
           s == IF dropped THEN host ELSE SmExecute(host, m)
           p == CheckCmdQueue([s EXCEPT !.cmds = Tail(s.cmds)])
<1>1. /\ env \in Environments /\ host \in Host /\ up \in Seq(Message) /\ up # <<>>
      /\ up' = Tail(up) /\ Good(host, 0, "none") /\ Answers
      /\ host' = IF m.type \in Rsp THEN p ELSE s
      /\ nfcc' = nfcc /\ env' = env
  BY DEF IInv, TypeOK, Receive
<1>2. Sane(m) /\ host.cmds \in Seq(Command)
  <2>1. 1 \in DOMAIN up /\ m = up[1]
    BY <1>1
  <2> QED
    BY <1>1, <2>1, HostFields DEF Answers
<1>3. dropped => m.type \notin Rsp
  BY DEF Msg, Rsp
<1>4. s = IF dropped THEN host ELSE SmExecute(host, m)
  OBVIOUS
<1>5. CASE m.type \in Rsp
  <2>1. host.cmds # <<>> /\ m.type = RspOf(host.cmds[1])
    <3>1. 1 \in DOMAIN up /\ m = up[1]
      BY <1>1
    <3> QED
      BY <1>1, <1>5, <3>1 DEF Answers
  <2>2. Weak(host, 1, "none")
    BY <1>1, <1>2, <2>1 DEF Good, Weak
  <2>3. ASSUME m.type # "DEACTIVATE_RSP", ~(m.type = "DISCOVER_RSP" /\ host.disc_state = "IDLE")
        PROVE  Good(host, 1, "none")
    <3>1. CASE "W4_RSP" \notin host.disc_flags
      BY <2>2, <3>1, WeakGood
    <3>2. CASE Sent(host, 0, DEACTIVATE_TYPE)
      <4>1. PICK i \in DOMAIN host.cmds : i > 0 /\ host.cmds[i] \in DEACTIVATE_TYPE
        BY <3>2 DEF Sent
      <4>2. host.cmds[1] \in {"DISCOVER", "SELECT"}
        BY <2>1, <2>3 DEF RspOf
      <4>3. i # 1
        BY <4>1, <4>2 DEF DEACTIVATE_TYPE
      <4>4. i > 1
        BY <1>2, <4>1, <4>3
      <4> QED
        BY <2>2, <4>1, <4>4 DEF Good, Due, Sent
    <3>3. CASE host.disc_state = "IDLE" /\ host.disc_pending
      BY <2>2, <3>3 DEF Good, Due
    <3>4. CASE host.disc_state = "IDLE" /\ Sent(host, 0, Command \ {"SELECT"})
      <4>1. PICK i \in DOMAIN host.cmds : i > 0 /\ host.cmds[i] \in Command \ {"SELECT"}
        BY <3>4 DEF Sent
      <4>2. m.type \notin {"DEACTIVATE_RSP", "DISCOVER_RSP"}
        BY <2>3, <3>4
      <4>3. host.cmds[1] = "SELECT"
        BY <2>1, <4>2 DEF RspOf
      <4>4. i > 1
        BY <1>2, <4>1, <4>3
      <4> QED
        BY <2>2, <3>4, <4>1, <4>4 DEF Good, Due, Sent
    <3> QED
      BY <1>1, <3>1, <3>2, <3>3, <3>4 DEF Good, Due
  <2> HIDE DEF m, dropped
  <2>4. Good(SmExecute(host, m), 1, "none")
    BY <1>1, <1>2, <2>2, <2>3, ExecuteGood
  <2>5. Good(s, 1, "none")
    BY <1>3, <1>5, <2>4
  <2> HIDE DEF s
  <2>6. Good(p, 0, "none")
    BY <2>5, PopGood
  <2> HIDE DEF p
  <2>7. host' = p
    BY <1>1, <1>5
  <2>8. up' \in Seq(Message) /\ Answers'
    BY <1>1, <1>5, TakeUp DEF m
  <2>9. Good(host', 0, "none") /\ host' \in Host
    BY <2>6, <2>7 DEF Good, Weak
  <2>10. TypeOK'
    BY <1>1, <2>8, <2>9 DEF IInv, TypeOK
  <2> QED
    BY <2>8, <2>9, <2>10 DEF IInv
<1>6. CASE m.type \notin Rsp
  <2>1. PICK h : /\ Good(host, 0, h)
                 /\ Answered => h # "none" /\ h = host.cmds[1]
    <3>1. CASE ~Answered
      BY <1>1, <3>1
    <3>2. CASE Answered
      <4>1. host.cmds # <<>>
        BY <1>1, <3>2 DEF Answered, Answers
      <4>2. host.cmds[1] \in Command
        BY <1>2, <4>1
      <4>3. host.cmds[1] # "none"
        BY <4>2 DEF Command, DEACTIVATE_TYPE
      <4>4. Good(host, 0, host.cmds[1])
        BY <1>1, <4>1 DEF Good, Weak
      <4> QED
        BY <4>3, <4>4
    <3> QED
      BY <3>1, <3>2
  <2> HIDE DEF m, dropped
  <2>2. m.type \notin {"DEACTIVATE_RSP", "DISCOVER_RSP"} /\ Weak(host, 0, h)
    BY <1>6, <2>1 DEF Rsp, Good
  <2>3. Good(SmExecute(host, m), 0, h)
    BY <1>1, <1>2, <2>1, <2>2, ExecuteGood
  <2>4. Good(s, 0, h)
    BY <2>1, <2>3
  <2> HIDE DEF s
  <2>5. host' = s
    BY <1>1, <1>6
  <2>6. /\ Answered => host'.cmds # <<>> /\ host'.cmds[1] = host.cmds[1]
        /\ Good(host', 0, "none") /\ host' \in Host
    BY <2>1, <2>4, <2>5 DEF Good, Weak
  <2>7. up' \in Seq(Message) /\ Answers'
    BY <1>1, <2>6, TakeUp
  <2>8. TypeOK'
    BY <1>1, <2>6, <2>7 DEF IInv, TypeOK
  <2> QED
    BY <2>6, <2>7, <2>8 DEF IInv
<1> QED
  BY <1>5, <1>6

(* The other steps of the task, and the calls.                             *)
LEMMA TimersKept ==
  ASSUME IInv, DeactNtfTimeout \/ SubsystemsGone \/ DisableTimeout
  PROVE  IInv'
<1>1. UNCHANGED <<nfcc, up, env>> /\ host \in Host
  BY DEF DeactNtfTimeout, SubsystemsGone, DisableTimeout, IInv, TypeOK
<1>2. ASSUME DeactNtfTimeout, NEW h, Good(host, 0, h) PROVE Good(host', 0, h)
  <2> DEFINE t == [host EXCEPT !.tle = FALSE]
  <2>1. host' = ForceToIdle(t)
    BY <1>2 DEF DeactNtfTimeout
  <2>2. Aside(host, t)
    BY <1>1, FieldsAside
  <2> HIDE DEF t
  <2> QED
    BY <1>2, <2>1, <2>2, AsideGood, ForceToIdleGood
<1>3. ASSUME SubsystemsGone, NEW h, Good(host, 0, h) PROVE Good(host', 0, h)
  <2> DEFINE t == [host EXCEPT !.subsystems = FALSE]
  <2>1. host' = SysCheckDisabled(t)
    BY <1>3 DEF SubsystemsGone
  <2>2. Aside(host, t)
    BY <1>1, FieldsAside
  <2> HIDE DEF t
  <2>3. Aside(t, SysCheckDisabled(t))
    BY <2>2, ShutdownAside, AsideFacts
  <2> QED
    BY <1>3, <2>1, <2>2, <2>3, AsideGood
<1>4. ASSUME DisableTimeout, NEW h, Good(host, 0, h) PROVE Good(host', 0, h)
  <2> DEFINE t == DisableComplete(host)
             u == [t EXCEPT !.forced = TRUE]
  <2>1. host' = u
    BY <1>4 DEF DisableTimeout
  <2>2. Aside(host, t)
    BY <1>1, ShutdownAside
  <2> HIDE DEF t
  <2>3. Aside(t, u)
    BY <2>2, FieldsAside, AsideFacts
  <2> HIDE DEF u
  <2> QED
    BY <1>4, <2>1, <2>2, <2>3, AsideGood
<1>5. \A h : Good(host, 0, h) => Good(host', 0, h)
  BY <1>2, <1>3, <1>4
<1> QED
  BY <1>1, <1>5, TaskGood

LEMMA CallKept ==
  ASSUME IInv, NEW call \in Call, ApiCall(call)
  PROVE  IInv'
<1> DEFINE c == host.ncalls + 1
           t == [host EXCEPT !.ncalls = c]
<1>1. /\ UNCHANGED <<nfcc, up, env>> /\ host \in Host /\ env \in Environments
      /\ host' = Serve(t, call)
  BY DEF ApiCall, IInv, TypeOK
<1>2. c \in Nat
  BY <1>1, HostFields
<1> HIDE DEF c
<1>3. Aside(host, t)
  BY <1>1, <1>2, FieldsAside
<1> HIDE DEF t
<1>4. ASSUME NEW h, Good(host, 0, h) PROVE Good(host', 0, h)
  <2>1. Good(t, 0, h)
    BY <1>3, <1>4, AsideGood
  <2> QED
    BY <1>1, <2>1, ServeGood
<1> QED
  BY <1>1, <1>4, TaskGood

(* The NFCC.                                                               *)
LEMMA CommandKept == ASSUME IInv, NfccCommand PROVE IInv'
<1> DEFINE cmd == Head(host.cmds)
           Said(status) == up' = Append(up, Msg(RspOf(cmd), status))
<1>1. /\ host.cmds # <<>> /\ ~Answered /\ UNCHANGED <<host, env>> /\ nfcc \in Nfcc
      /\ host.entry \in BOOLEAN /\ host.cmds \in Seq(Command)
  BY HostFields DEF NfccCommand, IInv, TypeOK
<1>2. cmd \in Command /\ cmd = host.cmds[1]
  BY <1>1
<1>3. \E status \in {"OK", "SEMANTIC_ERROR", "FAILED"} : Said(status) /\ nfcc' \in Nfcc
  <2>1. ASSUME NEW status, NEW next, Answer(cmd, status, next)
        PROVE  Said(status) /\ nfcc' = next
    BY <2>1 DEF Answer, RspOf
  <2> DEFINE idle == [nfcc EXCEPT !.state = "IDLE", !.owes = "none", !.selecting = FALSE]
             found == [nfcc EXCEPT !.state = "DISCOVERY", !.polls = host.entry]
             chosen == [nfcc EXCEPT !.selecting = TRUE]
             owing == [nfcc EXCEPT !.owes = cmd]
  <2>2. \/ Answer(cmd, "OK", found) \/ Answer(cmd, "SEMANTIC_ERROR", nfcc)
        \/ Answer(cmd, "OK", chosen) \/ Answer(cmd, "FAILED", nfcc) \/ Answer(cmd, "OK", idle)
        \/ cmd \in DEACTIVATE_TYPE /\ Answer(cmd, "OK", owing)
    BY DEF NfccCommand
  <2>3. /\ found \in Nfcc /\ chosen \in Nfcc /\ idle \in Nfcc
        /\ cmd \in DEACTIVATE_TYPE => owing \in Nfcc
    BY <1>1, NfccTypes, Flags
  <2> HIDE DEF idle, found, chosen, owing, Said, cmd
  <2> QED
    BY <1>1, <2>1, <2>2, <2>3
<1> HIDE DEF cmd
<1>4. PICK status \in {"OK", "SEMANTIC_ERROR", "FAILED"} : Said(status) /\ nfcc' \in Nfcc
  BY <1>3
<1> DEFINE m == Msg(RspOf(cmd), status)
<1>5. Sane(m) /\ m.type = RspOf(host.cmds[1])
  BY <1>2, MessageTypes
<1>6. up' = Append(up, m)
  BY <1>4
<1> HIDE DEF m
<1> QED
  BY <1>1, <1>4, <1>5, <1>6, SaysGood

LEMMA NotificationKept ==
  ASSUME IInv, NfccDeactivated \/ NfccField \/ NfccSelected
  PROVE  IInv'
<1>1. UNCHANGED <<host, env>> /\ nfcc \in Nfcc
  BY DEF NfccDeactivated, NfccField, NfccSelected, IInv, TypeOK
<1>2. ASSUME NEW m, Sane(m), m.type \notin Rsp, up' = Append(up, m), nfcc' \in Nfcc
      PROVE  IInv'
  BY <1>1, <1>2, SaysGood
<1>3. CASE NfccDeactivated
  <2>1. nfcc.owes \in DEACTIVATE_TYPE
    BY <1>1, <1>3, NfccTypes DEF NfccDeactivated
  <2>2. AfterDeactivation \in RFST
    BY <2>1 DEF AfterDeactivation, DEACTIVATE_TYPE, RFST
  <2>3. CASE /\ nfcc' = [nfcc EXCEPT !.state = AfterDeactivation, !.owes = "none"]
             /\ up' = Append(up, Msg("DEACTIVATE_NTF", nfcc.owes))
    <3>1. nfcc' \in Nfcc
      BY <1>1, <2>2, <2>3, NfccTypes
    <3>2. Sane(Msg("DEACTIVATE_NTF", nfcc.owes)) /\ Msg("DEACTIVATE_NTF", nfcc.owes).type \notin Rsp
      BY <2>1, MessageTypes DEF Rsp
    <3> QED
      BY <1>2, <2>3, <3>1, <3>2
  <2>4. CASE /\ nfcc' = [nfcc EXCEPT !.owes = "none"]
             /\ up' = Append(up, Msg("REQ_FAILED_NTF", "SLEEP"))
    <3>1. nfcc' \in Nfcc
      BY <1>1, <2>4, NfccTypes
    <3>2. Sane(Msg("REQ_FAILED_NTF", "SLEEP")) /\ Msg("REQ_FAILED_NTF", "SLEEP").type \notin Rsp
      BY MessageTypes DEF Rsp
    <3> QED
      BY <1>2, <2>4, <3>1, <3>2
  <2> QED
    BY <1>3, <2>3, <2>4 DEF NfccDeactivated
<1>4. CASE NfccField
  <2>1. PICK e \in FieldEvents : /\ nfcc' = [nfcc EXCEPT !.state = e.to]
                                 /\ up' = Append(up, e.msg)
    BY <1>4 DEF NfccField
  <2>2. \A x \in FieldEvents :
          /\ x.to \in RFST
          /\ \/ \E a \in DEACTIVATE_TYPE : x.msg = Msg("DEACTIVATE_NTF", a)
             \/ \E a \in Mode : x.msg = Msg("ACTIVATED_NTF", a)
             \/ \E a \in {"MORE", "LAST", "ABORT"} : x.msg = Msg("DISCOVER_NTF", a)
    BY DEF FieldEvents, RFST, DEACTIVATE_TYPE, Mode
  <2>3. nfcc' \in Nfcc
    BY <1>1, <2>1, <2>2, NfccTypes
  <2>4. Sane(e.msg) /\ e.msg.type \notin Rsp
    BY <2>2, MessageTypes DEF Rsp
  <2> QED
    BY <1>2, <2>1, <2>3, <2>4
<1>5. CASE NfccSelected
  <2>1. \/ /\ nfcc' = [nfcc EXCEPT !.selecting = FALSE, !.state = "POLL_ACTIVE"]
           /\ up' = Append(up, Msg("ACTIVATED_NTF", "poll"))
        \/ /\ nfcc' = [nfcc EXCEPT !.selecting = FALSE]
           /\ up' = Append(up, Msg("INTF_ERROR_NTF", "OK"))
    BY <1>5 DEF NfccSelected
  <2>2. nfcc' \in Nfcc
    BY <1>1, <2>1, NfccTypes, Flags
  <2>3. /\ Sane(Msg("ACTIVATED_NTF", "poll")) /\ Msg("ACTIVATED_NTF", "poll").type \notin Rsp
        /\ Sane(Msg("INTF_ERROR_NTF", "OK")) /\ Msg("INTF_ERROR_NTF", "OK").type \notin Rsp
    BY MessageTypes DEF Rsp, Mode
  <2> QED
    BY <1>2, <2>1, <2>2, <2>3
<1> QED
  BY <1>3, <1>4, <1>5
-----------------------------------------------------------------------------
(* The theorems.                                                           *)

LEMMA InitGood == ASSUME Init PROVE IInv
<1> DEFINE p == "poll" \in env.modes
           e == <<>>
<1>1. p \in BOOLEAN /\ e \in Seq(Command) /\ {} \in SUBSET DISC_FLAGS /\ {} \in SUBSET Event
  OBVIOUS
<1>2. /\ host = [disc_state |-> "IDLE", disc_flags |-> {},
                 activated_handle |-> "none", proto |-> "none",
                 deact_pending |-> FALSE, pending_deact_type |-> "IDLE",
                 deact_notify_pending |-> FALSE, tle |-> FALSE, retry |-> 0,
                 polling |-> p, entry |-> p,
                 stop_evt |-> FALSE, deact_evt |-> FALSE, activated |-> FALSE, busy |-> FALSE,
                 disc_pending |-> FALSE, cmds |-> e, power |-> "up", subsystems |-> TRUE,
                 acts |-> 0, waits |-> {}, forced |-> FALSE, ncalls |-> 0]
      /\ nfcc = [state |-> "IDLE", owes |-> "none", selecting |-> FALSE, polls |-> FALSE]
      /\ env \in Environments /\ up = <<>>
  BY DEF Init
<1> HIDE DEF p, e
<1>3. host \in Host
  BY <1>1, <1>2 DEF Host, RFST, DEACTIVATE_TYPE
<1>4. TypeOK
  BY <1>2, <1>3 DEF TypeOK, Nfcc, RFST
<1>5. host.disc_flags = {} /\ ~host.disc_pending /\ host.cmds = <<>>
  BY <1>2 DEF e
<1>6. Good(host, 0, "none")
  BY <1>3, <1>5 DEF Good, Weak, Due
<1>7. Answers
  BY <1>2 DEF Answers
<1> QED
  BY <1>4, <1>6, <1>7 DEF IInv

LEMMA StepGood == ASSUME IInv, [Next]_vars PROVE IInv'
<1>1. CASE UNCHANGED vars
  <2>1. UNCHANGED <<host, nfcc, up, env>>
    BY <1>1 DEF vars
  <2>2. TypeOK' /\ Answers'
    BY <2>1 DEF IInv, TypeOK, Answers
  <2>3. Good(host', 0, "none")
    BY <2>1 DEF IInv
  <2> QED
    BY <2>2, <2>3 DEF IInv
<1>2. CASE Next
  BY <1>2, ReceiveKept, TimersKept, CallKept, CommandKept, NotificationKept DEF Next, NfccStep
<1> QED
  BY <1>1, <1>2

(* Every handler keeps the types of the state.                             *)
THEOREM TypeCorrect == Spec => []TypeOK
<1>1. Init => IInv
  BY InitGood
<1>2. IInv /\ [Next]_vars => IInv'
  BY StepGood
<1>3. IInv => TypeOK
  BY DEF IInv
<1> QED
  BY <1>1, <1>2, <1>3, PTL DEF Spec

(* While a response is awaited, a command that will be answered is in the  *)
(* queue (nfa_dm_disc_sm_execute, nfa_dm_send_deactivate_cmd): W4_RSP does *)
(* not outlive what sets it.                                               *)
THEOREM ResponseComes == Spec => []RspAwaited
<1>1. Init => IInv
  BY InitGood
<1>2. IInv /\ [Next]_vars => IInv'
  BY StepGood
<1>3. IInv => RspAwaited
  BY HostFields DEF IInv, Good, Weak, Due, Sent, RspAwaited
<1> QED
  BY <1>1, <1>2, <1>3, PTL DEF Spec
=============================================================================
