------------------------ MODULE NfcNcifWindowProofs ------------------------
(***************************************************************************)
(* Proofs about NfcNcif, continued: a closed command window opens again.   *)
(*                                                                         *)
(* By ChannelIsOwned a closed window is with the HAL, or a response to the *)
(* last command is in the mailbox, or the command is written and not       *)
(* answered.  In the last case only the response timer is left to notice   *)
(* a loss, and it must run (Watched).  The one handler that could stop it  *)
(* with a command outstanding is that of CORE_RESET_NTF, which an NFCC of  *)
(* NCI 2.0 sends after the response.  Boot says why it does not: from the  *)
(* CORE_RESET to the notification the stack writes nothing, as nothing     *)
(* waits in the queue, no discovery is pending, and no other answer comes  *)
(* (Early).  A handler is compared with Mild, which keeps Watched, and     *)
(* with Steady, which keeps Early as well.                                 *)
(***************************************************************************)
EXTENDS NfcNcifProofs

ResetRsp == {m \in Message : m.mt = "RSP" /\ m.op = "CORE_RESET"}
ResetNtf == {m \in Message : m.mt = "NTF" /\ m.op = "CORE_RESET"}

(* A CORE_RESET is outstanding; none is queued. *)
ResetCmd    == {c \in Cmd : c.op = "CORE_RESET"}
ResetOut(x) == ~None(x.hal.pending, ResetCmd)
NoReset(x)  == None(x.nfc.nci_cmd_xmit_q, ResetCmd)

(* The CORE_RESET_NTF is due, or is not read; and it is the only one. *)
NtfDue(x)  == x.hal.ntf \/ ~None(x.hal.mbox, ResetNtf)
NtfOnce(x) ==
    \/ x.hal.ntf /\ None(x.hal.mbox, ResetNtf)
    \/ ~x.hal.ntf /\ Once(x.hal.mbox, ResetNtf)

(* The stack has nothing to write. *)
NoDiscover(x) == "DISCOVER_PENDING" \notin x.nfc.flags
Early(x) ==
    x.nfc.nfc_state \in {"CORE_INIT", "NONE"} /\ x.nfc.nci_cmd_xmit_q = <<>> /\ NoDiscover(x)

(* A command that waits for its answer is timed. *)
Watched(x) == x.hal.pending # <<>> => x.nfc.nci_wait_rsp_timer

Booting(x) ==
    /\ ResetOut(x) => Early(x) /\ ~NtfDue(x)
    /\ NtfDue(x) => /\ Early(x) /\ NtfOnce(x) /\ x.hal.pending = <<>> /\ NciVersion = "2_0"
                    /\ None(x.hal.mbox, Answered \ ResetRsp)
Resting == {"W4_HAL_OPEN", "W4_HAL_CLOSE", "NFCC_POWER_OFF_SLEEP"}
Boot(x) ==
    /\ NoReset(x) /\ Watched(x)
    /\ (x.hal.ready \/ x.nfc.nfc_state \in Resting) => NoDiscover(x)
    /\ x.hal.link = "OPEN" => Booting(x)
WInv == IInv /\ (Calm => Boot(Here))

-----------------------------------------------------------------------------
(* What a handler does to the boot.                                        *)

(* It writes no CORE_RESET, and times what it writes. *)
Mild(x, y) ==
    /\ y.hal.ntf = x.hal.ntf
    /\ NoReset(x) => NoReset(y) /\ (ResetOut(y) => ResetOut(x))
    /\ Watched(x) => Watched(y)

(* It writes nothing, and leaves nothing to write. *)
Still(x, y) ==
    /\ y.hal.pending = x.hal.pending /\ y.nfc.nci_cmd_xmit_q = x.nfc.nci_cmd_xmit_q
    /\ NoDiscover(x) => NoDiscover(y)
    /\ y.nfc.nfc_state \in {x.nfc.nfc_state, "NONE"}

(* It writes nothing early in the boot. *)
Steady(x, y) == Mild(x, y) /\ (Early(x) => Still(x, y))

(* No change. *)
LEMMA SteadyRefl == ASSUME NEW x PROVE Steady(x, x)
BY DEF Steady, Mild, Still

(* One change after another. *)
LEMMA MildTrans == ASSUME NEW x, NEW y, NEW z, Mild(x, y), Mild(y, z) PROVE Mild(x, z)
BY DEF Mild

(* Early in the boot, too. *)
LEMMA SteadyTrans == ASSUME NEW x, NEW y, NEW z, Steady(x, y), Steady(y, z) PROVE Steady(x, z)
<1>1. Mild(x, z)
  BY MildTrans DEF Steady
<1>2. ASSUME Early(x) PROVE Still(x, z)
  <2>1. Still(x, y)
    BY <1>2 DEF Steady
  <2>2. Early(y)
    BY <1>2, <2>1 DEF Early, Still
  <2>3. Still(y, z)
    BY <2>2 DEF Steady
  <2> QED
    BY <2>1, <2>3 DEF Still
<1> QED
  BY <1>1, <1>2 DEF Steady

(* Changing the control block, but not the queue nor a timer that is needed. *)
LEMMA MildNfc ==
  ASSUME NEW x, NEW n, n.nci_cmd_xmit_q = x.nfc.nci_cmd_xmit_q,
         (x.hal.pending # <<>> /\ x.nfc.nci_wait_rsp_timer) => n.nci_wait_rsp_timer
  PROVE  /\ Mild(x, Nfc(x, n))
         /\ (/\ "DISCOVER_PENDING" \in n.flags => "DISCOVER_PENDING" \in x.nfc.flags
             /\ n.nfc_state \in {x.nfc.nfc_state, "NONE"}) => Steady(x, Nfc(x, n))
<1>1. Nfc(x, n).nfc = n /\ Nfc(x, n).hal = x.hal
  BY DEF Nfc
<1> QED
  BY <1>1 DEF Mild, Steady, Still, NoReset, ResetOut, Watched, NoDiscover

(* Queueing a command other than CORE_RESET. *)
LEMMA EnqueueMild ==
  ASSUME NEW x \in Pair, NEW c \in Cmd, c.op # "CORE_RESET"
  PROVE  Mild(x, Enqueue(x, c))
<1> DEFINE q == x.nfc.nci_cmd_xmit_q
           r == Append(q, c)
           n == [x.nfc EXCEPT !.nci_cmd_xmit_q = r]
           y == Enqueue(x, c)
<1>1. q \in Seq(Cmd) /\ c \notin ResetCmd
  BY PairFields, BlockTypes DEF ResetCmd
<1>2. None(q, ResetCmd) => None(r, ResetCmd)
  BY <1>1, NoneAppend
<1> HIDE DEF r
<1>3. n.nci_cmd_xmit_q = r /\ n.nci_wait_rsp_timer = x.nfc.nci_wait_rsp_timer
  BY PairFields DEF ControlBlock
<1>4. y.nfc = n /\ y.hal = x.hal
  BY DEF Enqueue, Nfc, r
<1> HIDE DEF y, n
<1>5. Mild(x, y)
  BY <1>2, <1>3, <1>4 DEF Mild, NoReset, ResetOut, Watched
<1> QED
  BY <1>5 DEF y

(* Writing the head of the queue starts the timer. *)
LEMMA WriteHeadSteady ==
  ASSUME NEW x \in Pair
  PROVE  Steady(x, WriteHead(x))
<1> DEFINE n == x.nfc
           q == n.nci_cmd_xmit_q
           c == Head(q)
           m == [n EXCEPT !.nci_cmd_xmit_q = Tail(@), !.last_hdr = c.op,
                            !.p_vsc_cback = IF c.id # 0 THEN c.id ELSE @,
                            !.rawVsCbflag = @ \/ c.op = "RAW",
                            !.nci_cmd_window = @ - 1, !.nci_wait_rsp_timer = TRUE]
           h == HalWrite(x.hal, c)
           y == WriteHead(x)
<1>0. CASE n.nci_cmd_window = 0 \/ n.nci_cmd_xmit_q = <<>>
  BY <1>0, SteadyRefl DEF WriteHead
<1> SUFFICES ASSUME n.nci_cmd_window # 0, q # <<>>
             PROVE  Steady(x, y)
  BY <1>0
<1>1. y = [nfc |-> m, hal |-> h]
  BY DEF WriteHead
<1>2. n \in ControlBlock /\ x.hal \in HalBlock /\ q \in Seq(Cmd) /\ x.hal.pending \in Seq(Cmd)
  BY PairFields, BlockTypes, HalTypes
<1>3. c \in Cmd
  BY <1>2
<1>4. None(q, ResetCmd) => c \notin ResetCmd /\ None(Tail(q), ResetCmd)
  BY <1>2, NoneTail
<1> HIDE DEF c
<1>5. m.nci_cmd_xmit_q = Tail(q) /\ m.nci_wait_rsp_timer
  BY <1>2 DEF ControlBlock
<1>6. h.ntf = x.hal.ntf /\ h.pending \in {x.hal.pending, Append(x.hal.pending, c)}
  BY <1>2 DEF HalWrite, HalBlock
<1>7. (c \notin ResetCmd /\ None(x.hal.pending, ResetCmd)) => None(h.pending, ResetCmd)
  <2>1. ASSUME c \notin ResetCmd, None(x.hal.pending, ResetCmd)
        PROVE  None(Append(x.hal.pending, c), ResetCmd)
    BY <1>2, <1>3, <2>1, NoneAppend
  <2> HIDE DEF h
  <2> QED
    BY <1>6, <2>1
<1> HIDE DEF m, h
<1>8. y.nfc = m /\ y.hal = h
  BY <1>1
<1> HIDE DEF y
<1>9. Mild(x, y)
  BY <1>4, <1>5, <1>6, <1>7, <1>8 DEF Mild, NoReset, ResetOut, Watched
<1> QED
  BY <1>9 DEF Steady, Early

(* Changing the flags and the record of a pending discovery. *)
LEMMA FlagsMild ==
  ASSUME NEW x \in Pair, NEW f \in SUBSET NFC_FL, NEW b \in BOOLEAN
  PROVE  LET y == Nfc(x, [x.nfc EXCEPT !.flags = f, !.p_disc_pending = b]) IN
         y \in Pair /\ y.nfc.flags = f /\ Mild(x, y)
<1> DEFINE n == [x.nfc EXCEPT !.flags = f, !.p_disc_pending = b]
<1>1. n \in ControlBlock
  BY PairFields, FieldTypes
<1>2. /\ n.nci_cmd_xmit_q = x.nfc.nci_cmd_xmit_q /\ n.flags = f
      /\ n.nci_wait_rsp_timer = x.nfc.nci_wait_rsp_timer
  BY PairFields DEF ControlBlock
<1> HIDE DEF n
<1>3. Nfc(x, n) \in Pair /\ Nfc(x, n).nfc = n
  BY <1>1, NfcType
<1>4. Mild(x, Nfc(x, n))
  BY <1>2, MildNfc
<1> QED
  BY <1>2, <1>3, <1>4 DEF n

(* The DISCOVER after HAL_PRE_DISCOVER. *)
LEMMA SendDiscoverMild ==
  ASSUME Typed, NEW x \in Pair, NEW ch \in Choice
  PROVE  Mild(x, SendDiscover(x, ch))
<1> DEFINE f == x.nfc.flags \ {"DISCOVER_PENDING"}
           y == Nfc(x, [x.nfc EXCEPT !.flags = f, !.p_disc_pending = FALSE])
           d == Internal("DISCOVER")
           z == Enqueue(y, d)
<1>1. SendDiscover(x, ch) \in {y, WriteHead(z)}
  BY DEF SendDiscover
<1>2. f \in SUBSET NFC_FL
  BY PairFields, BlockTypes
<1> HIDE DEF f
<1>3. y \in Pair /\ Mild(x, y)
  BY <1>2, FlagsMild
<1> HIDE DEF y
<1>4. d \in Cmd /\ d.op # "CORE_RESET"
  BY InternalType DEF Internal, StackCmd
<1> HIDE DEF d
<1>5. z \in Pair /\ Mild(y, z)
  BY <1>3, <1>4, EnqueueType, EnqueueMild
<1> HIDE DEF z
<1>6. Mild(z, WriteHead(z))
  BY <1>5, WriteHeadSteady DEF Steady
<1>7. Mild(x, WriteHead(z))
  BY <1>3, <1>5, <1>6, MildTrans
<1> QED
  BY <1>1, <1>3, <1>7

(* Handing the window over writes a command only for a pending discovery. *)
LEMMA HandOverSteady ==
  ASSUME Typed, NEW x \in Pair, NEW ch \in Choice
  PROVE  Steady(x, HandOver(x, ch))
<1> DEFINE a == x.nfc.flags \ {"CONTROL_REQUESTED"}
           n == [x.nfc EXCEPT !.flags = a]
           g(f) == [n EXCEPT !.flags = f \cup {"CONTROL_GRANTED"}, !.nci_cmd_window = 0]
           r(f, j) == [nfc |-> g(f), hal |-> HalStart(x.hal, j)]
           y == HandOver(x, ch)
<1>1. a \in SUBSET NFC_FL
  BY PairFields, BlockTypes
<1>2. \/ y \in {x, Nfc(x, n)}
      \/ "DISCOVER_PENDING" \in x.nfc.flags /\ y = SendDiscover(Nfc(x, n), ch)
      \/ \E f \in SUBSET x.nfc.flags, j \in Control : y = r(f, j)
  <2> DEFINE k == a \ {"HAL_REQUESTED"}
  <2>1. n.flags = a
    BY PairFields DEF ControlBlock
  <2>2. a \in SUBSET x.nfc.flags /\ k \in SUBSET x.nfc.flags
        /\ "prediscover" \in Control /\ "granted" \in Control
    BY DEF Control
  <2>3. y \in {x, Nfc(x, n), r(a, "prediscover"), r(k, "granted")}
        \/ ("DISCOVER_PENDING" \in x.nfc.flags /\ y = SendDiscover(Nfc(x, n), ch))
    <3> HIDE DEF Control
    <3> QED
      BY <2>1 DEF HandOver
  <2> HIDE DEF y, r, a, k
  <2> QED
    BY <2>2, <2>3
<1> HIDE DEF y, a
<1>3. n \in ControlBlock
  BY <1>1, PairFields, FieldTypes
<1>4. /\ n.nci_cmd_xmit_q = x.nfc.nci_cmd_xmit_q /\ n.flags = a
      /\ n.nci_wait_rsp_timer = x.nfc.nci_wait_rsp_timer /\ n.nfc_state = x.nfc.nfc_state
  BY PairFields DEF ControlBlock
<1>5. \A f : /\ g(f).flags = f \cup {"CONTROL_GRANTED"} /\ g(f).nfc_state = n.nfc_state
             /\ g(f).nci_cmd_xmit_q = n.nci_cmd_xmit_q
             /\ g(f).nci_wait_rsp_timer = n.nci_wait_rsp_timer
  BY <1>3 DEF ControlBlock
<1>6. \A j : HalStart(x.hal, j).pending = x.hal.pending /\ HalStart(x.hal, j).ntf = x.hal.ntf
  BY PairFields DEF HalStart, HalBlock
<1> HIDE DEF n, g
<1>7. Steady(x, Nfc(x, n)) /\ Nfc(x, n) \in Pair
  BY <1>3, <1>4, MildNfc, NfcType DEF a
<1>8. ASSUME "DISCOVER_PENDING" \in x.nfc.flags PROVE Steady(x, SendDiscover(Nfc(x, n), ch))
  <2>1. Mild(x, SendDiscover(Nfc(x, n), ch))
    BY <1>7, SendDiscoverMild, MildTrans DEF Steady
  <2> QED
    BY <1>8, <2>1 DEF Steady, Early, NoDiscover
<1>9. ASSUME NEW f \in SUBSET x.nfc.flags, NEW j \in Control PROVE Steady(x, r(f, j))
  <2> DEFINE z == r(f, j)
  <2>1. /\ z.nfc.nci_cmd_xmit_q = x.nfc.nci_cmd_xmit_q /\ z.hal.pending = x.hal.pending
        /\ z.nfc.nci_wait_rsp_timer = x.nfc.nci_wait_rsp_timer /\ z.hal.ntf = x.hal.ntf
        /\ z.nfc.nfc_state = x.nfc.nfc_state /\ z.nfc.flags = f \cup {"CONTROL_GRANTED"}
    BY <1>4, <1>5, <1>6
  <2> HIDE DEF z
  <2>2. Steady(x, z)
    BY <2>1 DEF Steady, Mild, Still, NoReset, ResetOut, Watched, NoDiscover
  <2> QED
    BY <2>2 DEF z
<1>10. Steady(x, y)
  <2> HIDE DEF r
  <2> QED
    BY <1>2, <1>7, <1>8, <1>9, SteadyRefl
<1> QED
  BY <1>10 DEF y

(* nfc_ncif_check_cmd_queue. *)
LEMMA CheckSteady ==
  ASSUME Typed, NEW x \in Pair, NEW ch \in Choice
  PROVE  Steady(x, CheckCmdQueue(x, ch))
<1>1. WriteHead(x) \in Pair /\ Steady(x, WriteHead(x))
  BY WriteHeadType, WriteHeadSteady
<1>2. Steady(WriteHead(x), HandOver(WriteHead(x), ch))
  BY <1>1, HandOverSteady
<1> QED
  BY <1>1, <1>2, SteadyTrans DEF CheckCmdQueue

(* nfc_ncif_send_cmd, for a command other than CORE_RESET. *)
LEMMA SendCmdMild ==
  ASSUME Typed, NEW x \in Pair, NEW ch \in Choice, NEW c \in Cmd, c.op # "CORE_RESET"
  PROVE  Mild(x, SendCmd(x, c, ch))
<1>1. Enqueue(x, c) \in Pair /\ Mild(x, Enqueue(x, c))
  BY EnqueueType, EnqueueMild
<1>2. Mild(Enqueue(x, c), CheckCmdQueue(Enqueue(x, c), ch))
  BY <1>1, CheckSteady DEF Steady
<1> QED
  BY <1>1, <1>2, MildTrans DEF SendCmd

(* The same for the commands of the stack itself. *)
LEMMA SendMild ==
  ASSUME Typed, NEW x \in Pair, NEW ch \in Choice, NEW op \in StackCmd, op # "CORE_RESET"
  PROVE  Mild(x, Send(x, op, ch))
<1>1. Internal(op) \in Cmd /\ Internal(op).op # "CORE_RESET"
  BY InternalType DEF Internal
<1>2. Mild(x, x)
  BY SteadyRefl DEF Steady
<1> QED
  BY <1>1, <1>2, SendCmdMild DEF Send

-----------------------------------------------------------------------------
(* Responses and notifications. *)

(* A response read stops the timer: no command is outstanding. *)
LEMMA UpdateWindowSteady ==
  ASSUME Typed, NEW x \in Pair, NEW ch \in Choice, x.hal.pending = <<>>
  PROVE  Steady(x, UpdateWindow(x, ch))
<1> DEFINE w == x.nfc.nci_cmd_window + 1
           n == [x.nfc EXCEPT !.nci_wait_rsp_timer = FALSE, !.p_vsc_cback = 0,
                              !.nci_cmd_window = w]
           y == Nfc(x, n)
<1>1. CASE x.nfc.nci_cmd_window = NCI_MAX_CMD_WINDOW
  BY <1>1, SteadyRefl DEF UpdateWindow
<1> SUFFICES ASSUME x.nfc.nci_cmd_window # NCI_MAX_CMD_WINDOW
             PROVE  Steady(x, UpdateWindow(x, ch))
  BY <1>1
<1>2. UpdateWindow(x, ch) = CheckCmdQueue(y, ch)
  BY DEF UpdateWindow
<1>3. w \in 0..NCI_MAX_CMD_WINDOW /\ 0 \in 0..MaxCmds /\ x.nfc \in ControlBlock
  BY PairFields, BlockTypes, EnvTypes, WindowAssumption
<1> HIDE DEF w
<1>4. n \in ControlBlock
  BY <1>3, FieldTypes
<1>5. /\ n.flags = x.nfc.flags /\ n.nfc_state = x.nfc.nfc_state
      /\ n.nci_cmd_xmit_q = x.nfc.nci_cmd_xmit_q
  BY <1>3 DEF ControlBlock
<1> HIDE DEF n
<1>6. y \in Pair /\ Steady(x, y)
  BY <1>4, <1>5, MildNfc, NfcType
<1> HIDE DEF y
<1>7. Steady(y, CheckCmdQueue(y, ch))
  BY <1>6, CheckSteady
<1> QED
  BY <1>2, <1>6, <1>7, SteadyTrans

(* The vendor command's callback. *)
LEMMA VendorSteady ==
  ASSUME Typed, NEW x \in Pair, NEW m
  PROVE  Steady(x, VendorCallback(x, m)) /\ VendorCallback(x, m).hal = x.hal
<1> DEFINE b == [to |-> x.nfc.p_vsc_cback, answers |-> m.id]
           n == [x.nfc EXCEPT !.back = b]
<1>1. VendorCallback(x, m) \in {x, Nfc(x, n)}
  BY DEF VendorCallback
<1>2. /\ n.flags = x.nfc.flags /\ n.nfc_state = x.nfc.nfc_state
      /\ n.nci_cmd_xmit_q = x.nfc.nci_cmd_xmit_q
      /\ n.nci_wait_rsp_timer = x.nfc.nci_wait_rsp_timer
  BY PairFields DEF ControlBlock
<1> HIDE DEF n
<1>3. Steady(x, Nfc(x, n)) /\ Nfc(x, n).hal = x.hal
  BY <1>2, MildNfc DEF Nfc
<1> QED
  BY <1>1, <1>3, SteadyRefl

(* The response to a raw vendor command. *)
LEMMA RawSteady ==
  ASSUME Typed, NEW x \in Pair, NEW m \in Message, NEW ch \in Choice, x.hal.pending = <<>>
  PROVE  Steady(x, RawVsRsp(x, m, ch))
<1> DEFINE y == VendorCallback(x, m)
           n == [y.nfc EXCEPT !.p_vsc_cback = 0, !.rawVsCbflag = FALSE]
           u == Nfc(y, n)
           z == UpdateWindow(u, ch)
           k == [z.nfc EXCEPT !.rawVsCbflag = FALSE]
<1>1. RawVsRsp(x, m, ch) = Nfc(z, k)
  BY DEF RawVsRsp
<1>2. y \in Pair /\ Steady(x, y) /\ y.hal.pending = <<>>
  BY VendorSteady, VendorType
<1> HIDE DEF y
<1>3. n \in ControlBlock
  <2>1. 0 \in 0..MaxCmds
    BY EnvTypes
  <2> QED
    BY <1>2, <2>1, PairFields, FieldTypes
<1>4. /\ n.flags = y.nfc.flags /\ n.nfc_state = y.nfc.nfc_state
      /\ n.nci_cmd_xmit_q = y.nfc.nci_cmd_xmit_q
      /\ n.nci_wait_rsp_timer = y.nfc.nci_wait_rsp_timer
  BY <1>2, PairFields DEF ControlBlock
<1> HIDE DEF n
<1>5. u \in Pair /\ Steady(y, u) /\ u.hal.pending = <<>>
  BY <1>2, <1>3, <1>4, MildNfc, NfcType
<1> HIDE DEF u
<1>6. z \in Pair /\ Steady(u, z)
  BY <1>5, UpdateWindowSteady, UpdateWindowType
<1> HIDE DEF z
<1>7. /\ k.flags = z.nfc.flags /\ k.nfc_state = z.nfc.nfc_state
      /\ k.nci_cmd_xmit_q = z.nfc.nci_cmd_xmit_q
      /\ k.nci_wait_rsp_timer = z.nfc.nci_wait_rsp_timer
  BY <1>6, PairFields DEF ControlBlock
<1> HIDE DEF k
<1>8. Steady(z, Nfc(z, k))
  BY <1>7, MildNfc
<1> QED
  BY <1>1, <1>2, <1>5, <1>6, <1>8, SteadyTrans

(* The CORE_RESET response: an NFCC of NCI 2.0 has the timer run on. *)
LEMMA ResetRspMild ==
  ASSUME Typed, NEW x \in Pair, NEW m, m.ok, NEW ch \in Choice
  PROVE  LET y == ProcResetRsp(x, m, ch) IN
         Mild(x, y) /\ (NciVersion = "2_0" => Steady(x, y))
<1> DEFINE a == [x.nfc EXCEPT !.nci_wait_rsp_timer = TRUE]
           b == [x.nfc EXCEPT !.nci_version = "1_0"]
           u == Nfc(x, b)
<1>1. /\ NciVersion = "2_0" => ProcResetRsp(x, m, ch) = Nfc(x, a)
      /\ NciVersion # "2_0" => ProcResetRsp(x, m, ch) = Send(u, "CORE_INIT", ch)
  BY DEF ProcResetRsp
<1>2. b \in ControlBlock
  BY PairFields, FieldTypes
<1>3. /\ a.flags = x.nfc.flags /\ a.nfc_state = x.nfc.nfc_state
      /\ a.nci_cmd_xmit_q = x.nfc.nci_cmd_xmit_q /\ a.nci_wait_rsp_timer
      /\ b.nci_cmd_xmit_q = x.nfc.nci_cmd_xmit_q
      /\ b.nci_wait_rsp_timer = x.nfc.nci_wait_rsp_timer
  BY PairFields DEF ControlBlock
<1> HIDE DEF a, b
<1>4. Steady(x, Nfc(x, a))
  BY <1>3, MildNfc
<1>5. u \in Pair /\ Mild(x, u)
  BY <1>2, <1>3, MildNfc, NfcType
<1> HIDE DEF u
<1>6. Mild(u, Send(u, "CORE_INIT", ch))
  BY <1>5, SendMild DEF StackCmd
<1>7. Mild(x, Send(u, "CORE_INIT", ch))
  BY <1>5, <1>6, MildTrans
<1> QED
  BY <1>1, <1>4, <1>7 DEF Steady

(* The CORE_INIT response. *)
LEMMA InitRspMild ==
  ASSUME Typed, NEW x \in Pair, NEW m, m.ok, NEW ch \in Choice
  PROVE  Mild(x, ProcInitRsp(x, m, ch))
<1> DEFINE n == [x.nfc EXCEPT !.nfc_state = "W4_POST_INIT_CPLT", !.p_nci_init_rsp = TRUE]
           h == HalStart(x.hal, "post_init")
           y == ProcInitRsp(x, m, ch)
<1>1. y = [nfc |-> n, hal |-> h]
  BY DEF ProcInitRsp
<1>2. /\ n.nci_cmd_xmit_q = x.nfc.nci_cmd_xmit_q
      /\ n.nci_wait_rsp_timer = x.nfc.nci_wait_rsp_timer
  BY PairFields DEF ControlBlock
<1>3. h.ntf = x.hal.ntf /\ h.pending = x.hal.pending
  BY PairFields DEF HalStart, HalBlock
<1> HIDE DEF n, h
<1>4. y.nfc = n /\ y.hal = h
  BY <1>1
<1> HIDE DEF y
<1>5. Mild(x, y)
  BY <1>2, <1>3, <1>4 DEF Mild, NoReset, ResetOut, Watched
<1> QED
  BY <1>5 DEF y

(* The response to the last command. *)
LEMMA RspMild ==
  ASSUME Typed, NCI_MAX_CMD_WINDOW = 1, NEW x \in Pair, NEW m \in Message, m.mt = "RSP", m.ok,
         NEW ch \in Choice, Idle(x), m.op = x.nfc.last_hdr, x.nfc.nfc_state \in Ran
  PROVE  LET y == ProcRsp(x, m, ch) IN
         Mild(x, y) /\ (m.op = "CORE_RESET" /\ NciVersion = "2_0" => Steady(x, y))
<1> DEFINE d == [x.nfc EXCEPT !.disc_on = TRUE]
           o == x.nfc.disc_on /\ ~ch.idle
           e == [x.nfc EXCEPT !.disc_on = o]
           z == CASE m.op = "CORE_RESET" -> ProcResetRsp(x, m, ch)
                  [] m.op = "CORE_INIT"  -> ProcInitRsp(x, m, ch)
                  [] m.op \in UserCmds   -> VendorCallback(x, m)
                  [] m.op = "DISCOVER"   -> Nfc(x, d)
                  [] m.op = "DEACTIVATE" -> Nfc(x, e)
                  [] m.op = "DISCOVER_MAP" -> x
           k == [z.nfc EXCEPT !.last_hdr = "NONE"]
<1>1. m.op \in StackCmd \cup UserCmds /\ UserCmds \subseteq {"VSC", "RAW"}
  BY MessageTypes, EnvTypes
<1>2. m.op # "NONE"
  BY <1>1 DEF StackCmd
<1>3. ProcRsp(x, m, ch) = UpdateWindow(Nfc(z, k), ch)
  BY <1>2 DEF ProcRsp
<1> HIDE DEF o
<1>4. /\ z \in Pair /\ z.hal.pending = <<>> /\ Mild(x, z)
      /\ (m.op = "CORE_RESET" /\ NciVersion = "2_0" => Steady(x, z))
  <2>0. o \in BOOLEAN
    BY DEF o
  <2>1. d \in ControlBlock /\ e \in ControlBlock
    BY <2>0, PairFields, FieldTypes
  <2>2. \A n \in {d, e} : /\ n.nci_cmd_xmit_q = x.nfc.nci_cmd_xmit_q
           /\ n.nci_wait_rsp_timer = x.nfc.nci_wait_rsp_timer
    BY PairFields DEF ControlBlock
  <2> HIDE DEF d, e
  <2>3. \A n \in {d, e} : Nfc(x, n) \in Pair /\ Nfc(x, n).hal = x.hal /\ Mild(x, Nfc(x, n))
    BY <2>1, <2>2, MildNfc, NfcType
  <2>4. \A y \in {ProcResetRsp(x, m, ch), ProcInitRsp(x, m, ch), VendorCallback(x, m), x} :
           y \in Pair /\ y.hal.pending = <<>>
    BY ResetRspStep, ResetRspType, InitRspStep, InitRspType, VendorNear DEF Idle, Unused
  <2>5. \A y \in {ProcResetRsp(x, m, ch), ProcInitRsp(x, m, ch), VendorCallback(x, m), x} : Mild(x, y)
    BY ResetRspMild, InitRspMild, VendorSteady, SteadyRefl DEF Steady
  <2>6. x.hal.pending = <<>>
    BY DEF Idle, Unused
  <2>7. z \in {ProcResetRsp(x, m, ch), ProcInitRsp(x, m, ch), VendorCallback(x, m), x, Nfc(x, d), Nfc(x, e)}
        /\ (m.op = "CORE_RESET" => z = ProcResetRsp(x, m, ch))
    BY <1>1 DEF StackCmd
  <2> HIDE DEF z
  <2>8. z \in Pair /\ z.hal.pending = <<>> /\ Mild(x, z)
    BY <2>3, <2>4, <2>5, <2>6, <2>7
  <2> QED
    BY <2>7, <2>8, ResetRspMild
<1> HIDE DEF z
<1>5. k \in ControlBlock
  BY <1>4, PairFields, FieldTypes
<1>6. /\ k.flags = z.nfc.flags /\ k.nci_cmd_xmit_q = z.nfc.nci_cmd_xmit_q
      /\ k.nfc_state = z.nfc.nfc_state /\ k.nci_wait_rsp_timer = z.nfc.nci_wait_rsp_timer
  BY <1>4, PairFields DEF ControlBlock
<1> HIDE DEF k
<1>7. Nfc(z, k) \in Pair /\ Steady(z, Nfc(z, k)) /\ Nfc(z, k).hal.pending = <<>>
  BY <1>4, <1>5, <1>6, MildNfc, NfcType
<1> DEFINE y == UpdateWindow(Nfc(z, k), ch)
<1>8. Steady(Nfc(z, k), y)
  BY <1>7, UpdateWindowSteady
<1> HIDE DEF y
<1>9. Steady(z, y)
  BY <1>7, <1>8, SteadyTrans
<1>10. Mild(x, y) /\ (m.op = "CORE_RESET" /\ NciVersion = "2_0" => Steady(x, y))
  BY <1>4, <1>9, MildTrans, SteadyTrans DEF Steady
<1> QED
  BY <1>3, <1>10 DEF y

(* The CORE_RESET notification: it stops the timer, as nothing is          *)
(* outstanding, and CORE_INIT is sent.                                     *)
LEMMA ResetNtfMild ==
  ASSUME Typed, NEW x \in Pair, NEW m \in Message, m.ok, NEW ch \in Choice, x.hal.pending = <<>>
  PROVE  Mild(x, ProcResetNtf(x, m, ch))
<1> DEFINE n == [x.nfc EXCEPT !.nci_wait_rsp_timer = FALSE, !.nci_version = "2_0"]
           y == Nfc(x, n)
<1>1. ProcResetNtf(x, m, ch) = Send(y, "CORE_INIT", ch)
  BY DEF ProcResetNtf
<1>2. n \in ControlBlock
  BY PairFields, BlockTypes, FieldTypes
<1>3. n.nci_cmd_xmit_q = x.nfc.nci_cmd_xmit_q
  BY PairFields DEF ControlBlock
<1> HIDE DEF n
<1>4. y \in Pair /\ Mild(x, y)
  BY <1>2, <1>3, MildNfc, NfcType
<1> HIDE DEF y
<1>5. Mild(y, Send(y, "CORE_INIT", ch))
  BY <1>4, SendMild DEF StackCmd
<1> QED
  BY <1>1, <1>4, <1>5, MildTrans

-----------------------------------------------------------------------------
(* Events of the HAL. *)

(* nfc_enabled reports. *)
LEMMA NotifySteady ==
  ASSUME NEW x \in Pair, NEW ok \in BOOLEAN
  PROVE  Steady(x, NotifyEnableStatus(x, ok))
<1> DEFINE kept == x.nfc.flags \ {"RESTARTING", "POWER_CYCLE_NFCC"}
           f == IF ok THEN kept ELSE kept \cup {"POWER_OFF_SLEEP"}
           r == IF ok THEN "RESTART_OK" ELSE "RESTART_FAILED"
           s == IF ok THEN "ENABLE_OK" ELSE "ENABLE_FAILED"
           a == [x.nfc EXCEPT !.flags = f, !.report = r]
           b == [x.nfc EXCEPT !.report = s]
           y == NotifyEnableStatus(x, ok)
<1>1. y \in {x, Nfc(x, a), Nfc(x, b)}
  BY DEF NotifyEnableStatus
<1>2. "DISCOVER_PENDING" \in f => "DISCOVER_PENDING" \in x.nfc.flags
  OBVIOUS
<1> HIDE DEF f, r, s
<1>3. a.flags = f /\ b.flags = x.nfc.flags
  BY PairFields DEF ControlBlock
<1>4. \A n \in {a, b} : /\ n.nfc_state = x.nfc.nfc_state /\ n.nci_cmd_xmit_q = x.nfc.nci_cmd_xmit_q
                        /\ n.nci_wait_rsp_timer = x.nfc.nci_wait_rsp_timer
  BY PairFields DEF ControlBlock
<1> HIDE DEF a, b
<1>5. \A n \in {a, b} : Steady(x, Nfc(x, n))
  BY <1>2, <1>3, <1>4, MildNfc
<1> HIDE DEF y
<1> QED
  BY <1>1, <1>5, SteadyRefl DEF y

(* nfc_set_state. *)
LEMMA SetStateMild ==
  ASSUME NEW x \in Pair, NEW st \in NFC_STATE
  PROVE  LET y == SetState(x, st) IN Mild(x, y) /\ (st = "NONE" => Steady(x, y))
<1> DEFINE n == [x.nfc EXCEPT !.nfc_state = st]
<1>1. /\ n.nfc_state = st /\ n.flags = x.nfc.flags /\ n.nci_cmd_xmit_q = x.nfc.nci_cmd_xmit_q
      /\ n.nci_wait_rsp_timer = x.nfc.nci_wait_rsp_timer
  BY PairFields DEF ControlBlock
<1> HIDE DEF n
<1>2. Mild(x, Nfc(x, n)) /\ (st = "NONE" => Steady(x, Nfc(x, n)))
  BY <1>1, MildNfc
<1> QED
  BY <1>2 DEF SetState, n

(* A failed start. *)
LEMMA FailedSteady ==
  ASSUME NEW x \in Pair, NEW st \in NFC_STATE
  PROVE  LET y == NotifyEnableStatus(SetState(x, st), FALSE) IN
         /\ Mild(x, y) /\ (st = "NONE" => Steady(x, y))
         /\ y.nfc.flags \subseteq x.nfc.flags \cup {"POWER_OFF_SLEEP"}
<1> DEFINE u == SetState(x, st)
           y == NotifyEnableStatus(u, FALSE)
<1>1. u \in Pair /\ Mild(x, u) /\ (st = "NONE" => Steady(x, u)) /\ u.nfc.flags = x.nfc.flags
  BY SetStateMild, SetStateStep
<1> HIDE DEF u
<1>2. Steady(u, y)
  BY <1>1, NotifySteady
<1>3. y.nfc.flags \subseteq u.nfc.flags \cup {"POWER_OFF_SLEEP"}
  <2> DEFINE f == (u.nfc.flags \ {"RESTARTING", "POWER_CYCLE_NFCC"}) \cup {"POWER_OFF_SLEEP"}
             a(r) == [u.nfc EXCEPT !.flags = f, !.report = r]
             b(r) == [u.nfc EXCEPT !.report = r]
  <2>1. \E r : y \in {u, Nfc(u, a(r)), Nfc(u, b(r))}
    BY DEF NotifyEnableStatus
  <2>2. \A r : a(r).flags = f /\ b(r).flags = u.nfc.flags
    BY <1>1, PairFields DEF ControlBlock
  <2>3. f \subseteq u.nfc.flags \cup {"POWER_OFF_SLEEP"}
    OBVIOUS
  <2> HIDE DEF a, b, f, y
  <2> QED
    BY <2>1, <2>2, <2>3 DEF Nfc
<1> HIDE DEF y
<1>4. Mild(x, y) /\ (st = "NONE" => Steady(x, y))
  BY <1>1, <1>2, MildTrans, SteadyTrans DEF Steady
<1> QED
  BY <1>1, <1>3, <1>4 DEF y, u

(* A start that succeeds. *)
LEMMA StartedMild ==
  ASSUME Typed, NEW x \in Pair, NEW ch \in Choice
  PROVE  Mild(x, Enabled(x, TRUE, ch))
<1> DEFINE u == SetState(x, "IDLE")
           v == Send(u, "DISCOVER_MAP", ch)
           y == NotifyEnableStatus(v, TRUE)
<1>0. Enabled(x, TRUE, ch) = y
  BY DEF Enabled
<1>1. u \in Pair /\ Mild(x, u)
  BY SetStateMild, SetStateType DEF NFC_STATE
<1> HIDE DEF u
<1>2. v \in Pair /\ Mild(u, v)
  BY <1>1, SendType, SendMild DEF StackCmd
<1> HIDE DEF v
<1>3. Mild(v, y)
  BY <1>2, NotifySteady DEF Steady
<1> QED
  BY <1>0, <1>1, <1>2, <1>3, MildTrans

(* The end of the HAL's post-init. *)
LEMMA PostInitSteady ==
  ASSUME Typed, NEW x \in Pair, NEW ok \in BOOLEAN, NEW ch \in Choice,
         ok \/ "RESTARTING" \notin x.nfc.flags
  PROVE  Steady(x, HandlePostInit(x, ok, ch))
<1> DEFINE y == IF x.nfc.nfc_state = "W4_POST_INIT_CPLT" THEN Enabled(x, ok, ch) ELSE x
           n == [y.nfc EXCEPT !.p_nci_init_rsp = FALSE]
           z == HandlePostInit(x, ok, ch)
<1>1. z \in {Nfc(y, n), x}
  BY DEF HandlePostInit
<1>2. y \in Pair /\ Steady(x, y)
  <2>1. CASE x.nfc.nfc_state # "W4_POST_INIT_CPLT"
    BY <2>1, SteadyRefl
  <2>2. CASE x.nfc.nfc_state = "W4_POST_INIT_CPLT"
    <3>1. y \in {Enabled(x, TRUE, ch), NotifyEnableStatus(SetState(x, "NONE"), FALSE)}
      BY <2>2 DEF Enabled
    <3>2. Mild(x, Enabled(x, TRUE, ch)) /\ Enabled(x, TRUE, ch) \in Pair
      BY StartedMild, StartedStep
    <3>3. /\ Mild(x, NotifyEnableStatus(SetState(x, "NONE"), FALSE))
          /\ NotifyEnableStatus(SetState(x, "NONE"), FALSE) \in Pair
      BY FailedSteady, FailedStep DEF NFC_STATE
    <3>4. Mild(x, y) /\ y \in Pair
      <4> HIDE DEF y
      <4> QED
        BY <3>1, <3>2, <3>3
    <3> QED
      BY <2>2, <3>4 DEF Steady, Early
  <2> QED
    BY <2>1, <2>2
<1> HIDE DEF y
<1>3. /\ n.flags = y.nfc.flags /\ n.nfc_state = y.nfc.nfc_state
      /\ n.nci_cmd_xmit_q = y.nfc.nci_cmd_xmit_q
      /\ n.nci_wait_rsp_timer = y.nfc.nci_wait_rsp_timer
  BY <1>2, PairFields DEF ControlBlock
<1> HIDE DEF n
<1>4. Steady(x, Nfc(y, n))
  BY <1>2, <1>3, MildNfc, SteadyTrans
<1> HIDE DEF z
<1> QED
  BY <1>1, <1>4, SteadyRefl DEF z

(* The HAL gives the window back. *)
LEMMA GivenBackSteady ==
  ASSUME Typed, NEW x \in Pair, NEW ch \in Choice
  PROVE  Steady(x, HandlePreDiscover(x, ch)) /\ Steady(x, HandleRelease(x, ch))
<1> DEFINE f == x.nfc.flags \ {"CONTROL_GRANTED"}
           n == [x.nfc EXCEPT !.nci_cmd_window = NCI_MAX_CMD_WINDOW, !.flags = f]
           u == GivenBack(x)
           c == CheckCmdQueue(u, ch)
<1>1. /\ HandleRelease(x, ch) \in {x, c}
      /\ \/ HandlePreDiscover(x, ch) = c
         \/ "DISCOVER_PENDING" \in x.nfc.flags /\ HandlePreDiscover(x, ch) = SendDiscover(u, ch)
  BY DEF HandlePreDiscover, HandleRelease
<1>2. u = Nfc(x, n) /\ u \in Pair
  BY GivenBackType DEF GivenBack
<1>3. n.flags = f /\ n.nfc_state = x.nfc.nfc_state /\ n.nci_cmd_xmit_q = x.nfc.nci_cmd_xmit_q
      /\ n.nci_wait_rsp_timer = x.nfc.nci_wait_rsp_timer
  BY PairFields DEF ControlBlock
<1> HIDE DEF n, u
<1>4. Steady(x, u)
  BY <1>2, <1>3, MildNfc
<1>5. Steady(x, c)
  BY <1>2, <1>4, CheckSteady, SteadyTrans
<1>6. Mild(x, SendDiscover(u, ch))
  BY <1>2, <1>4, SendDiscoverMild, MildTrans DEF Steady
<1> HIDE DEF c
<1>7. ASSUME "DISCOVER_PENDING" \in x.nfc.flags PROVE Steady(x, SendDiscover(u, ch))
  BY <1>6, <1>7 DEF Steady, Early, NoDiscover
<1> QED
  BY <1>1, <1>5, <1>7, SteadyRefl

(* A request is noted. *)
LEMMA FlaggedMild ==
  ASSUME NEW x \in Pair, NEW f \in SUBSET NFC_FL
  PROVE  LET y == Flagged(x, f) IN
         Mild(x, y) /\ ("DISCOVER_PENDING" \notin f => Steady(x, y))
<1> DEFINE g == x.nfc.flags \cup f
           n == [x.nfc EXCEPT !.flags = g]
<1>1. /\ n.flags = g /\ n.nfc_state = x.nfc.nfc_state /\ n.nci_cmd_xmit_q = x.nfc.nci_cmd_xmit_q
      /\ n.nci_wait_rsp_timer = x.nfc.nci_wait_rsp_timer
  BY PairFields DEF ControlBlock
<1> HIDE DEF n
<1>2. Mild(x, Nfc(x, n)) /\ ("DISCOVER_PENDING" \notin f => Steady(x, Nfc(x, n)))
  BY <1>1, MildNfc
<1> QED
  BY <1>2 DEF Flagged, n

-----------------------------------------------------------------------------
(* The boot goes on. *)

(* A step that writes nothing while the boot waits for the NFCC. *)
Waiting(x) == x.hal.link = "OPEN" /\ (ResetOut(x) \/ NtfDue(x))
LEMMA BootOn ==
  ASSUME NEW x, NEW y, Boot(x), Mild(x, y), y.hal.mbox = x.hal.mbox, y.hal.link = x.hal.link,
         (Waiting(x) /\ Early(x)) => Still(x, y),
         (y.hal.ready \/ y.nfc.nfc_state \in Resting) => NoDiscover(y)
  PROVE  Boot(y)
<1>1. NoReset(y) /\ Watched(y) /\ (ResetOut(y) => ResetOut(x))
  BY DEF Boot, Mild
<1>2. (NtfDue(y) <=> NtfDue(x)) /\ (NtfOnce(y) <=> NtfOnce(x))
  BY DEF Mild, NtfDue, NtfOnce
<1>3. ASSUME y.hal.link = "OPEN" PROVE Booting(y)
  <2>1. Booting(x)
    BY <1>3 DEF Boot
  <2>2. ASSUME ResetOut(x) \/ NtfDue(x)
        PROVE  Early(y) /\ y.hal.pending = x.hal.pending
    <3>1. Early(x) /\ Still(x, y)
      BY <1>3, <2>1, <2>2 DEF Booting, Waiting
    <3> QED
      BY <3>1 DEF Early, Still
  <2>3. None(x.hal.mbox, Answered \ ResetRsp) <=> None(y.hal.mbox, Answered \ ResetRsp)
    OBVIOUS
  <2> QED
    BY <1>1, <1>2, <2>1, <2>2, <2>3 DEF Booting
<1> QED
  BY <1>1, <1>3 DEF Boot

(* A step of a stack that runs. *)
LEMMA BootRuns ==
  ASSUME NEW x, NEW y, Boot(x), Running(x), Near(x, y), Mild(x, y),
         (Waiting(x) /\ Early(x)) => Still(x, y)
  PROVE  Boot(y)
<1>1. ~y.hal.ready /\ y.nfc.nfc_state \notin Resting
  BY DEF Running, Near, Ran, Resting
<1> QED
  BY <1>1, BootOn DEF Near

(* The same, for a step that writes nothing early. *)
LEMMA BootSteady ==
  ASSUME NEW x, NEW y, Boot(x), Running(x), Near(x, y), Steady(x, y)
  PROVE  Boot(y)
BY BootRuns DEF Steady

(* A transport that is not open. *)
LEMMA BootShut ==
  ASSUME NEW y, NoReset(y), y.hal.pending = <<>>, y.hal.link # "OPEN",
         (y.hal.ready \/ y.nfc.nfc_state \in Resting) => NoDiscover(y)
  PROVE  Boot(y)
BY DEF Boot, Watched

(* The pair that a handler returns. *)
LEMMA BootBecomes ==
  ASSUME NEW y \in Pair, Become(y), Boot(y)
  PROVE  Boot(There)
<1>1. There = y
  BY PairFields DEF There, Become
<1> QED
  BY <1>1

(* Pairs that agree on the fields that the boot depends on. *)
LEMMA BootSame ==
  ASSUME NEW x, NEW y, Same(x, y), Boot(x)
  PROVE  Boot(y)
<1>1. Mild(x, y) /\ Still(x, y)
  BY DEF Same, Twin, Mild, Still, NoReset, ResetOut, Watched, NoDiscover
<1>2. y.hal.mbox = x.hal.mbox /\ y.hal.link = x.hal.link
  BY DEF Same, Twin
<1>3. (y.hal.ready \/ y.nfc.nfc_state \in Resting) => NoDiscover(y)
  BY DEF Same, Twin, Boot, NoDiscover
<1> QED
  BY <1>1, <1>2, <1>3, BootOn

(* A message is read. *)
LEMMA BootReads ==
  ASSUME NEW w \in Pair, NEW x, Reads(w, x), Boot(w)
  PROVE  LET m == Head(w.hal.mbox) IN
         /\ Boot(x)
         /\ (x.hal.link = "OPEN" /\ m \in ResetNtf) => (~NtfDue(x) /\ x.hal.pending = <<>>)
         /\ (x.hal.link = "OPEN" /\ NtfDue(x)) => (NciVersion = "2_0" /\ m \notin Answered \ ResetRsp)
<1> DEFINE q == w.hal.mbox
           m == Head(q)
           A == Answered \ ResetRsp
<1>1. q \in Seq(Message) /\ q # <<>> /\ x.hal.mbox = Tail(q)
  BY PairFields, HalTypes DEF Reads
<1>2. (None(q, ResetNtf) => None(Tail(q), ResetNtf) /\ m \notin ResetNtf)
      /\ (None(q, A) => None(Tail(q), A) /\ m \notin A)
  BY <1>1, NoneTail
<1>3. /\ (Once(q, ResetNtf) /\ m \in ResetNtf) => None(Tail(q), ResetNtf)
      /\ (Once(q, ResetNtf) /\ m \notin ResetNtf) => Once(Tail(q), ResetNtf)
  BY <1>1, OnceTail
<1> HIDE DEF A, m
<1>4. /\ x.hal.pending = w.hal.pending /\ x.hal.ntf = w.hal.ntf /\ x.hal.link = w.hal.link
      /\ x.hal.ready = w.hal.ready /\ x.nfc.nfc_state = w.nfc.nfc_state
      /\ x.nfc.flags = w.nfc.flags /\ x.nfc.nci_cmd_xmit_q = w.nfc.nci_cmd_xmit_q
      /\ x.nfc.nci_wait_rsp_timer = w.nfc.nci_wait_rsp_timer
  BY DEF Reads, Twin
<1>5. /\ (NoReset(x) <=> NoReset(w)) /\ (Watched(x) <=> Watched(w)) /\ (Early(x) <=> Early(w))
      /\ (NoDiscover(x) <=> NoDiscover(w)) /\ (ResetOut(x) <=> ResetOut(w))
  BY <1>4 DEF NoReset, Watched, Early, NoDiscover, ResetOut
<1>6. NtfDue(x) => NtfDue(w)
  BY <1>1, <1>2, <1>4 DEF NtfDue
<1>7. m \in ResetNtf => NtfDue(w)
  BY <1>2 DEF NtfDue
<1>8. ASSUME NtfDue(w), NtfOnce(w)
      PROVE  (m \in ResetNtf => ~NtfDue(x)) /\ (m \notin ResetNtf => NtfOnce(x))
  BY <1>1, <1>2, <1>3, <1>4, <1>8 DEF NtfDue, NtfOnce
<1>9. ASSUME x.hal.link = "OPEN"
      PROVE  /\ Booting(x)
             /\ m \in ResetNtf => (~NtfDue(x) /\ x.hal.pending = <<>>)
             /\ NtfDue(x) => (NciVersion = "2_0" /\ m \notin A)
  <2>1. Booting(w)
    BY <1>4, <1>9 DEF Boot
  <2>2. NtfDue(w) => /\ Early(w) /\ NtfOnce(w) /\ w.hal.pending = <<>> /\ NciVersion = "2_0"
                     /\ None(q, A)
    BY <2>1 DEF Booting, A
  <2>3. NtfDue(x) => None(x.hal.mbox, A) /\ m \notin A /\ NtfOnce(x)
    BY <1>1, <1>2, <1>6, <1>8, <2>2
  <2> QED
    BY <1>4, <1>5, <1>6, <1>7, <1>8, <2>1, <2>2, <2>3 DEF Booting, A
<1>10. Boot(x)
  BY <1>4, <1>5, <1>9 DEF Boot
<1> QED
  BY <1>9, <1>10 DEF A, m

-----------------------------------------------------------------------------
(* NFC_TASK reads its mailbox. *)

(* The handler of a stack that runs. *)
LEMMA BootReadStep ==
  ASSUME Typed, NCI_MAX_CMD_WINDOW = 1, Undisturbed, NEW w \in Pair, Chan(w), Phase(w),
         Running(w), Boot(w), NEW x, Reads(w, x), NEW ch \in Choice
  PROVE  LET m == Head(w.hal.mbox)
             y == IF m.mt = "EVT" THEN HandleHalEvt(x, m, ch) ELSE ProcessEvent(x, m, ch)
         IN  Boot(y)
<1> DEFINE m == Head(w.hal.mbox)
           y == IF m.mt = "EVT" THEN HandleHalEvt(x, m, ch) ELSE ProcessEvent(x, m, ch)
<1>1. x \in Pair /\ Running(x) /\ Phase(x) /\ Allowed(m) /\ m.op # "OPEN_CPLT"
  BY ReadsRunning DEF Reads, Twin
<1>2. m \in Message
  BY PairFields, HalTypes DEF Reads
<1>3. w.hal.link # "OPENING" /\ x.hal.link # "OPENING" /\ x.nfc.nfc_state \in Ran
  BY <1>1 DEF Running, Ran
<1>4. (m \notin Answered /\ m \notin Returned) => Chan(x)
  BY ReadsOther
<1>5. m \in Answered => Idle(x) /\ m.op = x.nfc.last_hdr
  BY <1>3, ReadsAnswer
<1>6. m \in Returned => Idle(x) /\ ~x.nfc.nci_wait_rsp_timer /\ "CONTROL_GRANTED" \in x.nfc.flags
  BY <1>3, ReadsReturned
<1>7. /\ Boot(x)
      /\ (x.hal.link = "OPEN" /\ m \in ResetNtf) => (~NtfDue(x) /\ x.hal.pending = <<>>)
      /\ (x.hal.link = "OPEN" /\ NtfDue(x)) => (NciVersion = "2_0" /\ m \notin Answered \ ResetRsp)
  BY BootReads
<1>8. x.hal.pending = <<>> => ~ResetOut(x)
  BY NotBoth DEF ResetOut
<1> SUFFICES Boot(y)
  OBVIOUS
<1> HIDE DEF m
<1>9. CASE m.mt = "RSP"
  <2>1. m \in Answered /\ x.hal.pending = <<>>
    BY <1>2, <1>5, <1>9 DEF Answered, Idle, Unused
  <2>2. y \in {RawVsRsp(x, m, ch), ProcRsp(x, m, ch)}
    BY <1>9 DEF ProcessEvent
  <2>3. Boot(RawVsRsp(x, m, ch))
    <3>1. Near(x, RawVsRsp(x, m, ch)) /\ Steady(x, RawVsRsp(x, m, ch))
      BY <1>1, <1>2, <1>5, <2>1, RawStep, RawSteady
    <3> QED
      BY <1>1, <1>7, <3>1, BootSteady
  <2>4. Boot(ProcRsp(x, m, ch))
    <3> DEFINE z == ProcRsp(x, m, ch)
    <3>1. /\ Near(x, z) /\ Mild(x, z)
          /\ (m.op = "CORE_RESET" /\ NciVersion = "2_0") => Steady(x, z)
      <4>1. m.ok
        BY <1>1, <1>9 DEF Allowed
      <4> QED
        BY <1>1, <1>2, <1>3, <1>5, <1>9, <2>1, <4>1, RspStep, RspMild
    <3> HIDE DEF z
    <3>2. Waiting(x) => m.op = "CORE_RESET" /\ NciVersion = "2_0"
      BY <1>7, <1>8, <2>1 DEF Waiting, ResetRsp
    <3>3. Boot(z)
      BY <1>1, <1>7, <3>1, <3>2, BootRuns DEF Steady
    <3> QED
      BY <3>3 DEF z
  <2> HIDE DEF y
  <2> QED
    BY <2>2, <2>3, <2>4
<1>10. CASE m.mt = "NTF"
  <2>1. m.op \in {"CORE_RESET", "OTHER"} /\ m.ok
    BY <1>1, <1>2, <1>10, MessageTypes DEF Allowed
  <2>2. Chan(x)
    BY <1>4, <1>10, <2>1 DEF Answered, Returned
  <2>3. m.op # "CORE_RESET" => ~x.nfc.rawVsCbflag
    BY <1>1, <2>1 DEF Allowed, Phase, Undisturbed, NoRecovery, UserCmds
  <2>4. (m.op = "CORE_RESET" => y = ProcResetNtf(x, m, ch)) /\ (m.op # "CORE_RESET" => y = x)
    BY <1>10, <2>1, <2>3 DEF ProcessEvent
  <2> HIDE DEF y
  <2>5. CASE m.op # "CORE_RESET"
    BY <1>7, <2>4, <2>5
  <2>6. CASE m.op = "CORE_RESET"
    <3>1. m \in ResetNtf
      BY <1>2, <1>10, <2>6 DEF ResetNtf
    <3>2. x.hal.pending = <<>> /\ ~Waiting(x)
      BY <1>1, <1>7, <1>8, <3>1 DEF Phase, Waiting
    <3>3. Near(x, y)
      BY <1>1, <1>2, <2>1, <2>4, <2>6, ResetNtfStep DEF Step
    <3>4. Mild(x, y)
      BY <1>1, <1>2, <2>1, <2>4, <2>6, <3>2, ResetNtfMild
    <3> QED
      BY <1>1, <1>7, <3>2, <3>3, <3>4, BootRuns
  <2> QED
    BY <2>5, <2>6
<1>11. CASE m.mt = "EVT"
  <2>1. y = HandleHalEvt(x, m, ch)
    BY <1>11
  <2> HIDE DEF y
  <2>2. m.op \in HalEvent \ {"OPEN_CPLT"} /\ m \notin Answered /\ m.ok \in BOOLEAN
    BY <1>1, <1>2, <1>11, MessageTypes DEF Answered
  <2>3. ASSUME NEW z, Near(x, z), Steady(x, z) PROVE Boot(z)
    BY <1>1, <1>7, <2>3, BootSteady
  <2>4. ASSUME m.op \notin {"PRE_DISCOVER_CPLT", "RELEASE_CONTROL"} PROVE Chan(x)
    BY <1>4, <2>2, <2>4 DEF Returned
  <2>5. Near(x, NotifyEnableStatus(SetState(x, "NONE"), FALSE))
        /\ Steady(x, NotifyEnableStatus(SetState(x, "NONE"), FALSE))
    BY <1>1, FailedStep, FailedSteady DEF Ran, NFC_STATE
  <2>6. ASSUME m.op = "CLOSE_CPLT" PROVE Boot(y)
    <3>1. y = HandleClose(x)
      BY <2>1, <2>6 DEF HandleHalEvt
    <3>2. y \in {x, NotifyEnableStatus(SetState(x, "NONE"), FALSE)}
      BY <1>3, <3>1 DEF HandleClose, Ran
    <3> QED
      BY <1>7, <2>3, <2>5, <3>2
  <2>7. ASSUME m.op = "POST_INIT_CPLT" PROVE Boot(y)
    <3>1. y = HandlePostInit(x, m.ok, ch)
      BY <2>1, <2>7 DEF HandleHalEvt
    <3>2. m.ok \/ "RESTARTING" \notin x.nfc.flags
      BY <1>1, <2>7 DEF Allowed, Phase, Undisturbed, NoRecovery
    <3>3. Near(x, y) /\ Steady(x, y)
      BY <1>1, <2>2, <3>1, <3>2, PostInitStep, PostInitSteady
    <3> QED
      BY <2>3, <3>3
  <2>8. ASSUME m.op \in {"PRE_DISCOVER_CPLT", "RELEASE_CONTROL"} PROVE Boot(y)
    <3>1. m \in Returned
      BY <1>2, <2>8 DEF Returned
    <3>2. y \in {HandlePreDiscover(x, ch), HandleRelease(x, ch)}
      BY <2>1, <2>8 DEF HandleHalEvt
    <3>3. Near(x, y)
      BY <1>1, <1>6, <3>1, <3>2, GivenBackStep
    <3>4. Steady(x, y)
      BY <1>1, <3>2, GivenBackSteady
    <3> QED
      BY <2>3, <3>3, <3>4
  <2>9. ASSUME m.op = "REQUEST_CONTROL" PROVE Boot(y)
    <3> DEFINE f == {"CONTROL_REQUESTED", "HAL_REQUESTED"}
               u == Flagged(x, f)
    <3>1. y = CheckCmdQueue(u, ch)
      BY <2>1, <2>9 DEF HandleHalEvt
    <3>2. f \in SUBSET NFC_FL /\ {"CONTROL_GRANTED", "RESTARTING", "DISCOVER_PENDING"} \cap f = {}
      BY DEF NFC_FL
    <3> HIDE DEF f
    <3>3. u \in Pair /\ Step(x, u) /\ Steady(x, u)
      BY <1>1, <3>2, FlaggedStep, FlaggedMild
    <3> HIDE DEF u
    <3>4. Step(u, y) /\ Steady(u, y)
      BY <3>1, <3>3, CheckStep, CheckSteady
    <3>5. Near(x, y)
      BY <3>3, <3>4, NearTrans DEF Step
    <3>6. Steady(x, y)
      BY <3>3, <3>4, SteadyTrans
    <3> QED
      BY <2>3, <3>5, <3>6
  <2>10. ASSUME m.op = "ERROR" PROVE Boot(y)
    <3>1. y \in {x, Enabled(x, FALSE, ch)}
      BY <2>1, <2>10 DEF HandleHalEvt
    <3>2. "RESTARTING" \notin x.nfc.flags
      BY <1>1, <2>10 DEF Allowed, Phase, Undisturbed, NoRecovery
    <3>3. y \in {x, HalClose(x), NotifyEnableStatus(SetState(x, "NONE"), FALSE)}
      BY <3>1, <3>2 DEF Enabled
    <3>4. Boot(HalClose(x))
      <4> DEFINE z == HalClose(x)
      <4>1. z.nfc = x.nfc /\ z.hal.ready = x.hal.ready /\ z.hal.link = "CLOSING" /\ z.hal.pending = <<>>
        BY <1>1, CloseFacts
      <4> HIDE DEF z
      <4>2. Boot(z)
        BY <1>1, <1>3, <1>7, <4>1, BootShut DEF Boot, NoReset, Running, Ran, Resting
      <4> QED
        BY <4>2 DEF z
    <3> QED
      BY <1>7, <2>3, <2>5, <3>3, <3>4
  <2> QED
    BY <2>2, <2>6, <2>7, <2>8, <2>9, <2>10 DEF HalEvent
<1> QED
  BY <1>2, <1>9, <1>10, <1>11, MessageTypes

(* The handlers before the transport is used and after it is closed. *)
LEMMA BootReadEnds ==
  ASSUME Typed, NCI_MAX_CMD_WINDOW = 1, Undisturbed, NEW w \in Pair, Chan(w), Phase(w),
         Opened(w) \/ Failed(w) \/ Closing(w), Boot(w), NEW x, Reads(w, x), NEW ch \in Choice
  PROVE  LET m == Head(w.hal.mbox)
             y == IF m.mt = "EVT" THEN HandleHalEvt(x, m, ch) ELSE ProcessEvent(x, m, ch)
         IN  Boot(y)
<1> DEFINE m == Head(w.hal.mbox)
           y == IF m.mt = "EVT" THEN HandleHalEvt(x, m, ch) ELSE ProcessEvent(x, m, ch)
           z(st) == NotifyEnableStatus(SetState(x, st), FALSE)
<1>1. Boot(x) /\ x \in Pair
  BY BootReads DEF Reads, Twin
<1>2. /\ m \in Message /\ 1 \in DOMAIN w.hal.mbox /\ w.hal.mbox[1] = m
  BY PairFields, HalTypes, TailIndex DEF Reads
<1>3. /\ x.hal.link = w.hal.link /\ x.hal.ready = w.hal.ready /\ x.hal.pending = w.hal.pending
      /\ x.nfc.nfc_state = w.nfc.nfc_state /\ x.nfc.flags = w.nfc.flags
      /\ x.nfc.nci_cmd_xmit_q = w.nfc.nci_cmd_xmit_q
  BY DEF Reads, Twin
<1> SUFFICES Boot(y)
  OBVIOUS
<1> HIDE DEF m
<1>4. ASSUME NEW st \in NFC_STATE
      PROVE  /\ Mild(x, z(st)) /\ (st = "NONE" => Steady(x, z(st)))
             /\ z(st).hal = x.hal /\ z(st).nfc.nci_cmd_xmit_q = x.nfc.nci_cmd_xmit_q
             /\ NoDiscover(x) => NoDiscover(z(st))
  <2> DEFINE v == z(st)
  <2>1. /\ Mild(x, v) /\ (st = "NONE" => Steady(x, v))
        /\ v.nfc.flags \subseteq x.nfc.flags \cup {"POWER_OFF_SLEEP"}
    BY <1>1, FailedSteady
  <2>2. v.hal = x.hal /\ v.nfc.nci_cmd_xmit_q = x.nfc.nci_cmd_xmit_q
    BY <1>1, FailedStep
  <2> HIDE DEF v
  <2>3. NoDiscover(x) => NoDiscover(v)
    BY <2>1 DEF NoDiscover
  <2> QED
    BY <2>1, <2>2, <2>3 DEF v
<1> HIDE DEF z
<1>5. CASE Opened(w)
  <2>1. m.op = "ERROR" /\ Allowed(m)
    BY <1>2, <1>5 DEF Opened, Phase
  <2>2. m.mt = "EVT"
    BY <1>2, <2>1, MessageTypes, EnvTypes DEF StackCmd
  <2>3. "RESTARTING" \notin x.nfc.flags
    BY <1>3, <2>1 DEF Allowed, Phase, Undisturbed, NoRecovery
  <2>4. x.nfc.nfc_state \in {"W4_HAL_OPEN", "NONE"} /\ x.hal.ready
    BY <1>3, <1>5 DEF Opened
  <2>5. y \in {x, z("NONE")}
    <3>1. y \in {x, Enabled(x, FALSE, ch)}
      BY <2>1, <2>2 DEF HandleHalEvt
    <3> QED
      BY <2>3, <2>4, <3>1 DEF Enabled, z
  <2>6. "NONE" \in NFC_STATE /\ NoDiscover(x)
    BY <1>1, <2>4 DEF NFC_STATE, Boot
  <2>7. Boot(z("NONE"))
    BY <1>1, <1>4, <2>6, BootOn DEF Steady
  <2> HIDE DEF y
  <2> QED
    BY <1>1, <2>5, <2>7
<1>6. CASE Failed(w)
  <2>1. m = Evt("OPEN_CPLT", FALSE)
    BY <1>6 DEF Failed, m
  <2>2. m.op = "OPEN_CPLT" /\ m.mt = "EVT"
    BY <2>1 DEF Evt
  <2>3. x.nfc.nfc_state = "W4_HAL_OPEN" /\ x.hal.link = "CLOSED" /\ x.hal.pending = <<>>
    BY <1>3, <1>6 DEF Failed, Phase
  <2>4. y = Enabled(x, FALSE, ch)
    BY <2>2 DEF HandleHalEvt
  <2> HIDE DEF y
  <2>5. PICK st \in {"NONE", "NFCC_POWER_OFF_SLEEP"} : y = z(st)
    BY <2>3, <2>4 DEF Enabled, z
  <2>6. st \in NFC_STATE /\ NoDiscover(x) /\ NoReset(x)
    BY <1>1, <2>3 DEF NFC_STATE, Boot, Resting
  <2> QED
    BY <1>4, <2>3, <2>5, <2>6, BootShut DEF NoReset
<1>7. CASE Closing(w)
  <2> DEFINE f == x.nfc.flags \ {"POWER_OFF_SLEEP"}
             n == [x.nfc EXCEPT !.nfc_state = "NFCC_POWER_OFF_SLEEP", !.flags = f,
                                !.report = "POWER_OFF"]
             k == [x.nfc EXCEPT !.nfc_state = "NONE", !.report = "DISABLE",
                                !.p_resp_cback = FALSE]
             e == Evt("CLOSE_CPLT", TRUE)
  <2>1. w.hal.mbox = <<e>> /\ w.hal.link = "CLOSED"
    BY <1>7 DEF Closing, Reads
  <2> HIDE DEF e
  <2>2. Head(<<e>>) = e
    OBVIOUS
  <2>3. m = e
    BY <2>1, <2>2 DEF m
  <2>4. m.op = "CLOSE_CPLT" /\ m.mt = "EVT"
    BY <2>3 DEF Evt, e
  <2>5. x.nfc.nfc_state = "W4_HAL_CLOSE" /\ x.hal.pending = <<>> /\ x.hal.link = "CLOSED"
    BY <1>3, <1>7, <2>1 DEF Closing, Phase
  <2>6. y = HandleClose(x)
    BY <2>4 DEF HandleHalEvt
  <2>7. y \in {x, Nfc(x, n), Nfc(x, k)}
    BY <2>5, <2>6 DEF HandleClose, Disabled
  <2>8. NoDiscover(x) /\ NoReset(x)
    BY <1>1, <2>5 DEF Boot, Resting
  <2>9. /\ n.flags = f /\ n.nci_cmd_xmit_q = x.nfc.nci_cmd_xmit_q
        /\ k.flags = x.nfc.flags /\ k.nci_cmd_xmit_q = x.nfc.nci_cmd_xmit_q
    BY <1>1, PairFields DEF ControlBlock
  <2> HIDE DEF n, k, y
  <2>10. /\ y.hal = x.hal /\ y.nfc.nci_cmd_xmit_q = x.nfc.nci_cmd_xmit_q
         /\ y.nfc.flags \subseteq x.nfc.flags
    <3>1. f \subseteq x.nfc.flags
      OBVIOUS
    <3> HIDE DEF f
    <3> QED
      BY <2>7, <2>9, <3>1 DEF Nfc
  <2>11. NoDiscover(y) /\ NoReset(y)
    BY <2>8, <2>10 DEF NoDiscover, NoReset
  <2> QED
    BY <2>5, <2>10, <2>11, BootShut
<1> QED
  BY <1>5, <1>6, <1>7

-----------------------------------------------------------------------------
(* The steps of NFC_TASK. *)
Booted == Owned /\ Boot(Here)

(* NFC_TASK reads a message. *)
LEMMA ReadMboxBoot == ASSUME Booted, ReadMbox PROVE Boot(There)
<1> DEFINE m == Head(hal.mbox)
           q == Tail(hal.mbox)
           h == [hal EXCEPT !.mbox = q]
           x == Hal(Now, h)
<1>0. Owned /\ Boot(Here)
  BY DEF Booted
<1>1. PICK ch \in Choice :
        Become(IF m.mt = "EVT" THEN HandleHalEvt(x, m, ch) ELSE ProcessEvent(x, m, ch))
  BY DEF ReadMbox
<1>2. q \in Seq(Message) /\ hal.mbox # <<>>
  BY <1>0, OwnedFacts, HalTypes DEF ReadMbox
<1>3. Reads(Here, x)
  <2> HIDE DEF q
  <2>1. h \in HalBlock
    BY <1>0, <1>2, OwnedFacts DEF HalBlock
  <2>2. /\ h.pending = hal.pending /\ h.job = hal.job /\ h.recovered = hal.recovered
        /\ h.link = hal.link /\ h.ready = hal.ready /\ h.ntf = hal.ntf /\ h.mbox = q
    BY <1>0, OwnedFacts DEF HalBlock
  <2> HIDE DEF h
  <2>3. Twin(Here, Hal(Now, h)) /\ Hal(Now, h).hal = h
    BY <1>0, <2>1, <2>2, HalTwin DEF Owned
  <2> QED
    BY <1>0, <1>2, <2>2, <2>3, OwnedFacts DEF Reads, q
<1> HIDE DEF x
<1> DEFINE y == IF m.mt = "EVT" THEN HandleHalEvt(x, m, ch) ELSE ProcessEvent(x, m, ch)
<1>4. /\ Here \in Pair /\ Chan(Here) /\ Phase(Here) /\ Undisturbed /\ Here.hal.mbox # <<>>
      /\ m = Head(Here.hal.mbox)
  BY <1>0, <1>2, OwnedFacts DEF Owned, Calm
<1> HIDE DEF m
<1>5. Boot(y)
  <2>1. CASE Running(Here)
    BY <1>0, <1>3, <1>4, <2>1, OwnedFacts, BootReadStep
  <2>2. CASE Opened(Here) \/ Failed(Here) \/ Closing(Here)
    BY <1>0, <1>3, <1>4, <2>2, OwnedFacts, BootReadEnds
  <2>3. Running(Here) \/ Opened(Here) \/ Failed(Here) \/ Closing(Here)
    BY <1>4 DEF Phase, Opening, Off
  <2> QED
    BY <2>1, <2>2, <2>3
<1>6. Become(y)
  BY <1>1
<1>7. There = y
  <2>1. y = [nfc |-> y.nfc, hal |-> y.hal]
    <3>1. x \in Pair /\ m \in Message
      BY <1>3, <1>4, PairFields, HalTypes DEF Reads, Twin
    <3>2. y \in Pair
      BY <1>0, <1>1, <3>1, OwnedFacts, MessageTypes, HalEvtType, ProcessType
    <3> HIDE DEF y
    <3> QED
      BY <3>2, PairFields
  <2> HIDE DEF y
  <2> QED
    BY <1>6, <2>1 DEF There, Become
<1> QED
  BY <1>5, <1>7

(* CORE_RESET is written to a fresh window: the boot starts. *)
LEMMA ReadyBoot == ASSUME Booted, TransportReady PROVE Boot(There)
<1> DEFINE h == [hal EXCEPT !.ready = FALSE]
           x == Hal(Now, h)
           u == SetState(x, "CORE_INIT")
           c == Internal("CORE_RESET")
           v == Enqueue(u, c)
           y == WriteHead(v)
<1>0. Owned /\ Boot(Here)
  BY DEF Booted
<1>1. PICK ch \in Choice : Become(Send(u, "CORE_RESET", ch))
  BY DEF TransportReady
<1>2. Opened(Here) /\ Chan(Here) /\ Phase(Here)
  <2>1. Here.hal.ready
    BY <1>0, OwnedFacts DEF TransportReady
  <2> QED
    BY <1>0, <2>1 DEF Owned, Phase, Opening, Failed, Closing, Off, Running
<1>3. h \in HalBlock
  BY <1>0, OwnedFacts DEF HalBlock
<1>4. h.pending = hal.pending /\ h.link = hal.link /\ h.mbox = hal.mbox /\ ~h.ready /\ h.ntf = hal.ntf
  BY <1>0, OwnedFacts DEF HalBlock
<1> HIDE DEF h
<1>5. x \in Pair /\ x.nfc = Now.nfc /\ x.hal = h
  BY <1>0, <1>3, OwnedFacts, HalType
<1> HIDE DEF x
<1>6. x.nfc.flags = nfc_cb.flags /\ x.nfc.nci_cmd_xmit_q = <<>> /\ x.nfc.nci_cmd_window = 1
  BY <1>0, <1>2, <1>5, OwnedFacts, NowTwin DEF Same, Twin, Owned, Opened, Fresh
<1>7. /\ u \in Pair /\ u.hal = h /\ u.nfc.nfc_state = "CORE_INIT"
      /\ u.nfc.flags = nfc_cb.flags /\ u.nfc.nci_cmd_xmit_q = <<>> /\ u.nfc.nci_cmd_window = 1
  BY <1>5, <1>6, SetStateStep DEF NFC_STATE
<1> HIDE DEF u
<1>8. c \in Cmd /\ v \in Pair
  BY <1>0, <1>7, OwnedFacts, InternalType, EnqueueType DEF StackCmd
<1>9. h.pending = <<>> /\ h.link = "OPEN" /\ ~h.ntf /\ None(h.mbox, ResetNtf) /\ NoDiscover(Here)
  <2>1. hal.pending = <<>>
    BY <1>0, <1>2, OwnedFacts DEF Opened, Fresh, Chan, Free, Busy, Lent, Lost, Unused
  <2>2. None(hal.mbox, ResetNtf)
    BY <1>0, <1>2, OwnedFacts DEF Opened, None, ResetNtf
  <2>3. hal.link = "OPEN" /\ ~hal.ntf /\ NoDiscover(Here)
    BY <1>0, <1>2, OwnedFacts DEF Opened, Boot
  <2> QED
    BY <1>4, <2>1, <2>2, <2>3
<1>10. "DISCOVER_PENDING" \notin nfc_cb.flags
  BY <1>0, <1>9, OwnedFacts DEF NoDiscover
<1>11. Boot(u)
  BY <1>4, <1>7, <1>9, <1>10, NotBoth
     DEF Boot, NoReset, Watched, Resting, Booting, ResetOut, NtfDue
<1> HIDE DEF c
<1>12. /\ v.hal = h /\ v.nfc.nfc_state = "CORE_INIT" /\ v.nfc.flags = nfc_cb.flags
       /\ v.nfc.nci_cmd_xmit_q = <<c>> /\ v.nfc.nci_cmd_window = 1
  <2> DEFINE r == Append(u.nfc.nci_cmd_xmit_q, c)
             n == [u.nfc EXCEPT !.nci_cmd_xmit_q = r]
  <2>1. v.nfc = n /\ v.hal = h
    BY <1>7 DEF Enqueue, Nfc
  <2>2. r = <<c>>
    BY <1>7
  <2> HIDE DEF r
  <2>3. /\ n.nfc_state = u.nfc.nfc_state /\ n.flags = u.nfc.flags /\ n.nci_cmd_xmit_q = r
        /\ n.nci_cmd_window = u.nfc.nci_cmd_window
    BY <1>7, PairFields DEF ControlBlock
  <2> HIDE DEF n, v
  <2> QED
    BY <1>7, <2>1, <2>2, <2>3
<1> HIDE DEF v
<1>13. /\ y.nfc.nfc_state = "CORE_INIT" /\ y.nfc.flags = nfc_cb.flags /\ y.nfc.nci_cmd_xmit_q = <<>>
       /\ y.nfc.nci_cmd_window = 0 /\ y.nfc.nci_wait_rsp_timer
       /\ ~y.hal.ready /\ ~y.hal.ntf /\ y.hal.mbox = h.mbox
  <2> DEFINE n == v.nfc
             q == n.nci_cmd_xmit_q
             p == Append(h.pending, Head(q))
             k == [n EXCEPT !.nci_cmd_xmit_q = Tail(@), !.last_hdr = Head(q).op,
                            !.p_vsc_cback = IF Head(q).id # 0 THEN Head(q).id ELSE @,
                            !.rawVsCbflag = @ \/ Head(q).op = "RAW",
                            !.nci_cmd_window = @ - 1, !.nci_wait_rsp_timer = TRUE]
             g == [h EXCEPT !.pending = p]
  <2>1. q # <<>> /\ Tail(q) = <<>> /\ n.nci_cmd_window = 1
    BY <1>12
  <2>2. y = [nfc |-> k, hal |-> g]
    BY <1>9, <1>12, <2>1 DEF WriteHead, HalWrite
  <2>3. /\ k.nfc_state = n.nfc_state /\ k.flags = n.flags /\ k.nci_cmd_xmit_q = Tail(q)
        /\ k.nci_cmd_window = n.nci_cmd_window - 1 /\ k.nci_wait_rsp_timer
    BY <1>8, PairFields DEF ControlBlock
  <2>4. g.ready = h.ready /\ g.ntf = h.ntf /\ g.mbox = h.mbox
    BY <1>3 DEF HalBlock
  <2>5. n.nfc_state = "CORE_INIT" /\ n.flags = nfc_cb.flags
    BY <1>12
  <2> HIDE DEF k, g
  <2>6. y.nfc = k /\ y.hal = g
    BY <2>2
  <2> HIDE DEF y, n, q
  <2>7. k.nci_cmd_window = 0
    BY <2>1, <2>3
  <2>8. ~g.ready /\ ~g.ntf /\ g.mbox = h.mbox
    BY <1>4, <1>9, <2>4
  <2> QED
    BY <2>1, <2>3, <2>5, <2>6, <2>7, <2>8
<1> HIDE DEF y
<1>14. Early(y) /\ ~NtfDue(y)
  BY <1>9, <1>10, <1>13 DEF Early, NoDiscover, NtfDue
<1>15. Boot(y)
  BY <1>13, <1>14, NotBoth DEF Boot, NoReset, Watched, Resting, Booting
<1>16. Send(u, "CORE_RESET", ch) \in {u, y}
  <2>1. HandOver(y, ch) = y
    BY <1>0, <1>13, OwnedFacts DEF HandOver
  <2> QED
    BY <2>1 DEF Send, SendCmd, CheckCmdQueue, y, v, c
<1>17. y \in Pair
  BY <1>0, <1>8, OwnedFacts, WriteHeadType DEF y
<1> QED
  BY <1>1, <1>7, <1>11, <1>15, <1>16, <1>17, BootBecomes

(* A time-out comes only when the transport is not open. *)
LEMMA TimeoutBoot == ASSUME Booted, WaitRspTimeout \/ EarlyTimeout PROVE Boot(There)
<1>1. PICK u \in Pair : /\ Become(u) \/ Become(HalClose(u))
                        /\ Running(u) /\ Phase(u) /\ u.hal.link # "OPEN"
                        /\ u.nfc.nci_cmd_xmit_q = nfc_cb.nci_cmd_xmit_q
  BY TimeoutFacts DEF Booted
<1>2. NoReset(u) /\ ~u.hal.ready /\ u.nfc.nfc_state \notin Resting /\ u.hal.pending = <<>>
  BY <1>1, OwnedFacts DEF Booted, Boot, NoReset, Running, Resting, Phase
<1>3. Boot(u)
  BY <1>1, <1>2, BootShut
<1> DEFINE y == HalClose(u)
<1>4. /\ y \in Pair /\ y.nfc = u.nfc /\ y.hal.ready = u.hal.ready
      /\ y.hal.link = "CLOSING" /\ y.hal.pending = <<>>
  BY CloseFacts
<1>5. Become(u) \/ Become(y)
  BY <1>1
<1> HIDE DEF y
<1>6. Boot(y)
  BY <1>2, <1>4, BootShut DEF NoReset
<1> QED
  BY <1>3, <1>4, <1>5, <1>6, BootBecomes

-----------------------------------------------------------------------------
(* The API. *)

(* A start of the stack. *)
LEMMA EnableBoot == ASSUME Booted, NfcEnable PROVE Boot(There)
<1> DEFINE n == [InitNfcCb EXCEPT !.p_resp_cback = TRUE, !.asked = "ENABLE"]
           h == [hal EXCEPT !.calls = hal.calls + 1, !.mbox = <<>>, !.ready = FALSE]
           w == [nfc |-> n, hal |-> h]
           y == HalOpen(w)
<1>0. Kept
  BY EnableKept DEF Booted
<1>1. nfc_cb' = y.nfc /\ hal' = y.hal
  BY DEF NfcEnable, Become
<1>2. y.nfc = [n EXCEPT !.nfc_state = "W4_HAL_OPEN"] /\ y.hal = Transport(h, "OPENING")
  BY DEF HalOpen, SetState, Nfc, Hal
<1>3. n.flags = {} /\ n.nci_cmd_xmit_q = <<>> /\ "nfc_state" \in DOMAIN n
  BY DEF InitNfcCb
<1>4. "link" \in DOMAIN h
  BY OwnedFacts DEF Booted, HalBlock
<1> HIDE DEF n, h, y
<1>5. y.nfc.flags = {} /\ y.nfc.nci_cmd_xmit_q = <<>>
  BY <1>2, <1>3
<1>6. y.hal.link = "OPENING"
  BY <1>2, <1>4 DEF Transport
<1>7. There.nfc = y.nfc /\ There.hal = y.hal
  BY <1>1 DEF There
<1> QED
  BY <1>0, <1>5, <1>6, <1>7, NotBoth, BootShut DEF Kept, Phase, NoReset, NoDiscover

(* A shutdown or a power cycle drops what was to be written. *)
LEMMA ShutdownBoot ==
  ASSUME NEW x \in Pair
  PROVE  ShutdownNfcc(x) \in Pair /\ Boot(ShutdownNfcc(x))
<1> DEFINE h == [x.hal EXCEPT !.mbox = <<>>]
           u == GenCleanup(Hal(x, h))
           v == SetState(u, "W4_HAL_CLOSE")
           y == ShutdownNfcc(x)
<1>1. y \in {HalOpen(u), HalClose(v)}
  BY DEF ShutdownNfcc
<1>2. h \in HalBlock
  <2>1. <<>> \in Seq(Message)
    OBVIOUS
  <2> QED
    BY <2>1, PairFields DEF HalBlock
<1> HIDE DEF h
<1>3. Hal(x, h) \in Pair
  BY <1>2, HalType
<1>4. u \in Pair /\ u.nfc.nci_cmd_xmit_q = <<>> /\ "DISCOVER_PENDING" \notin u.nfc.flags
  BY <1>3, CleanupFacts
<1> HIDE DEF u
<1>5. v \in Pair /\ v.nfc.nci_cmd_xmit_q = <<>> /\ "DISCOVER_PENDING" \notin v.nfc.flags
  BY <1>4, SetStateStep DEF NFC_STATE
<1> HIDE DEF v, y
<1>6. CASE y = HalOpen(u)
  <2>1. /\ y \in Pair /\ y.nfc = [u.nfc EXCEPT !.nfc_state = "W4_HAL_OPEN"]
        /\ y.hal.link = "OPENING" /\ y.hal.pending = <<>>
    BY <1>4, <1>6, OpenFacts
  <2>2. y.nfc.nci_cmd_xmit_q = <<>> /\ "DISCOVER_PENDING" \notin y.nfc.flags
    BY <1>4, <2>1, PairFields DEF ControlBlock
  <2>3. Boot(y)
    BY <2>1, <2>2, NotBoth, BootShut DEF NoReset, NoDiscover
  <2> QED
    BY <2>1, <2>3 DEF y
<1>7. CASE y = HalClose(v)
  <2>1. y \in Pair /\ y.nfc = v.nfc /\ y.hal.link = "CLOSING" /\ y.hal.pending = <<>>
    BY <1>5, <1>7, CloseFacts
  <2>2. Boot(y)
    BY <1>5, <2>1, NotBoth, BootShut DEF NoReset, NoDiscover
  <2> QED
    BY <2>1, <2>2 DEF y
<1> QED
  BY <1>1, <1>6, <1>7

(* NFC_Disable. *)
LEMMA DisableBoot == ASSUME Booted, NfcDisable PROVE Boot(There)
<1> DEFINE x == Asked(Now, "DISABLE")
<1>0. Owned /\ Boot(Here) /\ Now \in Pair
  BY OwnedFacts DEF Booted
<1>1. /\ x \in Pair /\ x.hal = Now.hal /\ x.nfc.flags = Now.nfc.flags
      /\ x.nfc.nfc_state = Now.nfc.nfc_state /\ x.nfc.nci_cmd_xmit_q = Now.nfc.nci_cmd_xmit_q
      /\ x.nfc.nci_wait_rsp_timer = Now.nfc.nci_wait_rsp_timer
  BY <1>0, AskedFacts DEF Request
<1>2. Become(Disabled(x)) \/ Become(ShutdownNfcc(x))
  BY DEF NfcDisable, Disable
<1> HIDE DEF x
<1>3. ASSUME Become(Disabled(x)) PROVE Boot(There)
  <2> DEFINE n == [x.nfc EXCEPT !.nfc_state = "NONE", !.report = "DISABLE", !.p_resp_cback = FALSE]
             y == Disabled(x)
  <2>1. /\ n.flags = x.nfc.flags /\ n.nfc_state = "NONE" /\ n.nci_cmd_xmit_q = x.nfc.nci_cmd_xmit_q
        /\ n.nci_wait_rsp_timer = x.nfc.nci_wait_rsp_timer
    BY <1>1, PairFields DEF ControlBlock
  <2>2. y = Nfc(x, n) /\ y \in Pair
    BY <1>1, DisabledType DEF Disabled
  <2> HIDE DEF n
  <2>3. y.nfc = n /\ y.hal = x.hal
    BY <2>2 DEF Nfc
  <2> HIDE DEF y
  <2>4. Mild(Now, y) /\ Still(Now, y) /\ (NoDiscover(Now) => NoDiscover(y))
    BY <1>1, <2>1, <2>3 DEF Mild, Still, NoReset, ResetOut, Watched, NoDiscover
  <2>5. Boot(Now)
    BY <1>0, NowTwin, BootSame DEF Owned
  <2>6. (y.hal.ready \/ y.nfc.nfc_state \in Resting) => NoDiscover(y)
    BY <1>1, <2>1, <2>3, <2>4, <2>5 DEF Boot, Resting
  <2>7. Boot(y)
    BY <1>1, <2>3, <2>4, <2>5, <2>6, BootOn
  <2> QED
    BY <1>3, <2>2, <2>7, BootBecomes DEF y
<1> QED
  BY <1>1, <1>2, <1>3, ShutdownBoot, BootBecomes

(* A command of an idle stack: the boot is over. *)
LEMMA IdleBoot ==
  ASSUME Booted, nfc_cb.nfc_state = "IDLE", NEW x, Same(Here, x),
         NEW y \in Pair, Near(x, y), Mild(x, y), Become(y)
  PROVE  Boot(There)
<1>1. Boot(x) /\ Running(x)
  BY BootSame, IdleRuns, SameKept, OwnedFacts DEF Booted, Owned
<1>2. x.nfc.nfc_state = "IDLE"
  BY OwnedFacts DEF Booted, Same, Twin
<1>3. Boot(y)
  BY <1>1, <1>2, BootRuns DEF Early
<1> QED
  BY <1>3, BootBecomes

(* NFC_DiscoveryStart. *)
LEMMA DiscoveryBoot == ASSUME Booted, NfcDiscoveryStart PROVE Boot(There)
<1> DEFINE c == Called(Now)
           f == {"DISCOVER_PENDING", "CONTROL_REQUESTED"}
           x == Flagged(c, f)
           n == [x.nfc EXCEPT !.p_disc_pending = TRUE]
           u == Nfc(x, n)
<1>0. Owned /\ Typed
  BY OwnedFacts DEF Booted
<1>1. PICK ch \in Choice : \/ Become(CheckCmdQueue(u, ch)) \/ Become(x)
  BY DEF NfcDiscoveryStart
<1>2. Same(Here, c) /\ c \in Pair /\ nfc_cb.nfc_state = "IDLE"
  BY <1>0, CalledTwin DEF Owned, NfcDiscoveryStart, MayCall, Same, Twin
<1> HIDE DEF c
<1>3. f \in SUBSET NFC_FL /\ {"CONTROL_GRANTED", "RESTARTING"} \cap f = {}
  BY DEF NFC_FL
<1> HIDE DEF f
<1>4. x \in Pair /\ Near(c, x) /\ Mild(c, x)
  BY <1>2, <1>3, FlaggedStep, FlaggedMild DEF Step
<1> HIDE DEF x
<1>5. n \in ControlBlock
  BY <1>4, PairFields, BlockTypes, FieldTypes
<1>6. /\ n.flags = x.nfc.flags /\ n.rawVsCbflag = x.nfc.rawVsCbflag
      /\ n.nfc_state = x.nfc.nfc_state /\ n.nci_cmd_xmit_q = x.nfc.nci_cmd_xmit_q
      /\ n.nci_wait_rsp_timer = x.nfc.nci_wait_rsp_timer
  BY <1>4, PairFields DEF ControlBlock
<1> HIDE DEF n
<1>7. u \in Pair /\ Near(x, u) /\ Mild(x, u)
  BY <1>4, <1>5, <1>6, NfcNear, MildNfc
<1> HIDE DEF u
<1> DEFINE y == CheckCmdQueue(u, ch)
<1>8. y \in Pair /\ Near(u, y) /\ Mild(u, y)
  BY <1>0, <1>7, CheckType, CheckStep, CheckSteady DEF Step, Steady
<1>9. Become(y) \/ Become(x)
  BY <1>1
<1> HIDE DEF y
<1>10. Near(c, y) /\ Mild(c, y)
  BY <1>4, <1>7, <1>8, NearTrans, MildTrans
<1> QED
  BY <1>2, <1>4, <1>8, <1>9, <1>10, IdleBoot

(* NFC_Deactivate. *)
LEMMA DeactivateBoot == ASSUME Booted, NfcDeactivate PROVE Boot(There)
<1> DEFINE x == Called(Now)
           m == Now.nfc
           f == m.flags \ ({"DISCOVER_PENDING"} \cup
                            IF "HAL_REQUESTED" \in m.flags THEN {} ELSE {"CONTROL_REQUESTED"})
           n == [m EXCEPT !.flags = f, !.p_disc_pending = FALSE]
<1>0. Owned /\ Typed
  BY OwnedFacts DEF Booted
<1>1. PICK ch \in Choice : Become(Nfc(x, n)) \/ Become(Send(x, "DEACTIVATE", ch))
  BY DEF NfcDeactivate
<1>2. hal.calls < MaxCalls /\ nfc_cb.nfc_state = "IDLE"
  BY DEF NfcDeactivate, MayCall
<1>3. Same(Here, x) /\ x \in Pair /\ x.nfc = m
  BY <1>0, <1>2, CalledTwin, CalledNow DEF Owned
<1>4. m \in ControlBlock /\ f \in SUBSET NFC_FL /\ f \subseteq m.flags
  BY <1>0, OwnedFacts, PairFields, BlockTypes
<1> HIDE DEF x, m, f
<1>5. n \in ControlBlock
  BY <1>4 DEF ControlBlock
<1>6. /\ n.flags = f /\ n.rawVsCbflag = m.rawVsCbflag /\ n.nfc_state = m.nfc_state
      /\ n.nci_cmd_xmit_q = m.nci_cmd_xmit_q /\ n.nci_wait_rsp_timer = m.nci_wait_rsp_timer
  BY <1>4 DEF ControlBlock
<1> HIDE DEF n
<1>7. Nfc(x, n) \in Pair /\ Near(x, Nfc(x, n)) /\ Mild(x, Nfc(x, n))
  BY <1>3, <1>4, <1>5, <1>6, NfcNear, MildNfc
<1> DEFINE y == Send(x, "DEACTIVATE", ch)
<1>8. y \in Pair /\ Near(x, y) /\ Mild(x, y)
  BY <1>0, <1>3, SendType, SendStep, SendMild DEF StackCmd, Step
<1>9. Become(Nfc(x, n)) \/ Become(y)
  BY <1>1
<1> HIDE DEF y
<1> QED
  BY <1>2, <1>3, <1>7, <1>8, <1>9, IdleBoot

(* The vendor commands. *)
LEMMA VsCommandBoot == ASSUME Booted, NfcSendVsCommand PROVE Boot(There)
<1> DEFINE k == hal.cmds + 1
           h == [hal EXCEPT !.cmds = k]
           x == Hal(Now, h)
<1>0. Owned /\ Typed
  BY OwnedFacts DEF Booted
<1>1. PICK op \in UserCmds, ch \in Choice : Become(SendCmd(x, [op |-> op, id |-> k], ch))
  BY DEF NfcSendVsCommand
<1>2. k \in 0..MaxCmds /\ k \in 1..MaxCmds
  BY <1>0, OwnedFacts, EnvTypes, HalTypes DEF NfcSendVsCommand
<1> DEFINE c == [op |-> op, id |-> k]
<1>3. c \in Cmd /\ c.op # "CORE_RESET"
  <2>1. UserCmds \subseteq {"VSC", "RAW"}
    BY <1>0, EnvTypes
  <2> QED
    BY <1>1, <1>2, <2>1 DEF Cmd
<1> HIDE DEF k
<1>4. h \in HalBlock
  BY <1>0, <1>2, OwnedFacts DEF HalBlock
<1>5. /\ h.pending = hal.pending /\ h.job = hal.job /\ h.recovered = hal.recovered
      /\ h.link = hal.link /\ h.ready = hal.ready /\ h.ntf = hal.ntf /\ h.mbox = hal.mbox
  BY <1>0, OwnedFacts DEF HalBlock
<1> HIDE DEF h
<1>6. Same(Here, x) /\ x \in Pair
  BY <1>0, <1>4, <1>5, OwnedFacts, HalTwin DEF Owned, Same, Twin
<1> HIDE DEF x
<1> DEFINE y == SendCmd(x, c, ch)
<1>7. Become(y) /\ nfc_cb.nfc_state = "IDLE"
  BY <1>1 DEF NfcSendVsCommand
<1> HIDE DEF c
<1>8. y \in Pair /\ Near(x, y) /\ Mild(x, y)
  BY <1>0, <1>1, <1>3, <1>6, SendCmdType, SendCmdStep, SendCmdMild DEF Step
<1> HIDE DEF y
<1> QED
  BY <1>6, <1>7, <1>8, IdleBoot

(* Power-off sleep and the power cycle. *)
LEMMA PowerBoot == ASSUME Booted, NfcSetPowerOffSleep \/ NfcPowerCycleNFCC PROVE Boot(There)
<1> DEFINE c == Called(Now)
           u(f) == Flagged(c, {f})
           x(f, r) == Asked(u(f), r)
<1>0. Owned /\ Boot(Here) /\ Now \in Pair
  BY OwnedFacts DEF Booted
<1>1. \/ \E f \in {"POWER_OFF_SLEEP", "POWER_CYCLE_NFCC"}, r \in Request : Become(ShutdownNfcc(x(f, r)))
      \/ nfc_cb.nfc_state = "NFCC_POWER_OFF_SLEEP" /\ Become(HalOpen(x("RESTARTING", "RESTART")))
  BY DEF NfcSetPowerOffSleep, NfcPowerCycleNFCC, Request, MayCall
<1>2. Same(Here, c) /\ c \in Pair
  BY <1>0, CalledTwin DEF Owned, NfcSetPowerOffSleep, NfcPowerCycleNFCC, MayCall, Same, Twin
<1> HIDE DEF c
<1>3. ASSUME NEW f \in {"POWER_OFF_SLEEP", "POWER_CYCLE_NFCC", "RESTARTING"}, NEW r \in Request
      PROVE  /\ x(f, r) \in Pair
             /\ x(f, r).nfc.flags = c.nfc.flags \cup {f}
             /\ NoReset(c) => NoReset(x(f, r))
  <2> DEFINE v == u(f)
             y == Asked(v, r)
  <2>1. {f} \in SUBSET NFC_FL /\ "CONTROL_GRANTED" \notin {f}
    BY DEF NFC_FL
  <2>2. v \in Pair /\ v.nfc.flags = c.nfc.flags \cup {f} /\ (NoReset(c) => NoReset(v))
    BY <1>2, <2>1, FlaggedStep, FlaggedMild DEF Mild
  <2> HIDE DEF v
  <2>3. y \in Pair /\ y.nfc.flags = v.nfc.flags /\ y.nfc.nci_cmd_xmit_q = v.nfc.nci_cmd_xmit_q
    BY <2>2, AskedFacts
  <2>4. NoReset(v) => NoReset(y)
    BY <2>3 DEF NoReset
  <2> QED
    BY <2>2, <2>3, <2>4 DEF v
<1> HIDE DEF x
<1>4. ASSUME NEW f \in {"POWER_OFF_SLEEP", "POWER_CYCLE_NFCC"}, NEW r \in Request,
             Become(ShutdownNfcc(x(f, r)))
      PROVE  Boot(There)
  BY <1>3, <1>4, ShutdownBoot, BootBecomes
<1>5. ASSUME nfc_cb.nfc_state = "NFCC_POWER_OFF_SLEEP", Become(HalOpen(x("RESTARTING", "RESTART")))
      PROVE  Boot(There)
  <2> DEFINE w == x("RESTARTING", "RESTART")
             y == HalOpen(w)
  <2>1. Become(y)
    BY <1>5
  <2>2. w \in Pair /\ w.nfc.flags = c.nfc.flags \cup {"RESTARTING"} /\ (NoReset(c) => NoReset(w))
    BY <1>3 DEF Request
  <2> HIDE DEF w
  <2>3. Boot(c) /\ c.nfc.nfc_state \in Resting
    BY <1>0, <1>2, <1>5, BootSame, OwnedFacts DEF Same, Twin, Resting
  <2>4. NoReset(w) /\ NoDiscover(w)
    BY <2>2, <2>3 DEF Boot, NoDiscover
  <2>5. /\ y \in Pair /\ y.nfc = [w.nfc EXCEPT !.nfc_state = "W4_HAL_OPEN"]
        /\ y.hal.link = "OPENING" /\ y.hal.pending = <<>>
    BY <2>2, OpenFacts
  <2> HIDE DEF y
  <2>6. y.nfc.flags = w.nfc.flags /\ y.nfc.nci_cmd_xmit_q = w.nfc.nci_cmd_xmit_q
    BY <2>2, <2>5, PairFields DEF ControlBlock
  <2>7. Boot(y)
    BY <2>4, <2>5, <2>6, BootShut DEF NoReset, NoDiscover
  <2> QED
    BY <2>1, <2>5, <2>7, BootBecomes
<1> QED
  BY <1>1, <1>4, <1>5

-----------------------------------------------------------------------------
(* The steps of the HAL. *)

(* It may post what is neither an answer nor a CORE_RESET_NTF. *)
LEMMA HalBoot ==
  ASSUME Booted, NEW h, HalIs(h), h.pending = hal.pending, h.ntf = hal.ntf,
         h.ready = hal.ready, h.link = hal.link,
         \/ h.mbox = hal.mbox
         \/ \E m \in Message : /\ m \notin Answered /\ m \notin ResetNtf
                               /\ h.mbox = Append(hal.mbox, m)
  PROVE  Boot(There)
<1> DEFINE A == Answered \ ResetRsp
           p == hal.mbox
           q == h.mbox
<1>1. There.nfc = nfc_cb /\ There.hal = h /\ Here.nfc = nfc_cb /\ Here.hal = hal /\ Boot(Here)
  BY HalThere, OwnedFacts DEF Booted
<1>2. /\ None(p, ResetNtf) => None(q, ResetNtf)
      /\ Once(p, ResetNtf) => Once(q, ResetNtf)
      /\ None(p, A) => None(q, A)
  <2>1. p \in Seq(Message)
    BY OwnedFacts, HalTypes DEF Booted
  <2>2. ASSUME NEW m \in Message, m \notin Answered, m \notin ResetNtf, q = Append(p, m)
        PROVE  /\ None(p, ResetNtf) => None(q, ResetNtf)
               /\ Once(p, ResetNtf) => Once(q, ResetNtf)
               /\ None(p, A) => None(q, A)
    <3>1. m \notin A
      BY <2>2
    <3> HIDE DEF A, p, q
    <3> QED
      BY <2>1, <2>2, <3>1, NoneAppend, OnceAppend
  <2>3. q = p \/ \E m \in Message : m \notin Answered /\ m \notin ResetNtf /\ q = Append(p, m)
    OBVIOUS
  <2> HIDE DEF A, p, q
  <2> QED
    BY <2>2, <2>3
<1>3. /\ ResetOut(There) <=> ResetOut(Here)
      /\ NtfDue(There) => NtfDue(Here)
      /\ (NtfDue(There) /\ NtfOnce(Here)) => NtfOnce(There)
  BY <1>1, <1>2 DEF ResetOut, NtfDue, NtfOnce
<1>4. /\ NoReset(There) <=> NoReset(Here)
      /\ Watched(There) <=> Watched(Here)
      /\ Early(There) <=> Early(Here)
      /\ NoDiscover(There) <=> NoDiscover(Here)
  BY <1>1 DEF NoReset, Watched, Early, NoDiscover
<1>5. (h.link = "OPEN" /\ Booting(Here)) => Booting(There)
  BY <1>1, <1>2, <1>3, <1>4 DEF Booting
<1> QED
  BY <1>1, <1>4, <1>5 DEF Boot

(* The open completes, or fails. *)
LEMMA OpenCpltBoot == ASSUME Booted, HalOpenCplt PROVE Boot(There)
<1> DEFINE l(ok) == IF ok THEN "OPEN" ELSE "CLOSED"
           f(ok) == IF ok THEN hal.faults ELSE hal.faults + 1
           h(ok) == [hal EXCEPT !.link = l(ok), !.faults = f(ok)]
           k(ok) == [h(ok) EXCEPT !.ready = TRUE]
<1>0. Owned /\ Boot(Here)
  BY DEF Booted
<1>1. Opening(Here) /\ Phase(Here)
  BY <1>0, OwnedFacts DEF Owned, Phase, HalOpenCplt, Opened, Failed, Closing, Off, Running
<1>2. /\ nfc_cb.nfc_state = "W4_HAL_OPEN" /\ hal.mbox = <<>> /\ hal.pending = <<>> /\ ~hal.ntf
      /\ NoReset(Here) /\ NoDiscover(Here)
  BY <1>0, <1>1, OwnedFacts DEF Opening, Phase, Boot, Resting
<1>3. PICK ok \in BOOLEAN :
        /\ ok \/ MayFail("open")
        /\ HalIs(IF ok THEN k(ok) ELSE PostHalEvt(h(ok), "OPEN_CPLT", FALSE))
  BY <1>2 DEF HalOpenCplt
<1>4. l(ok) \in {"CLOSED", "OPENING", "OPEN", "CLOSING"} /\ f(ok) \in 0..MaxFaults
  BY <1>0, <1>3, FaultType, HalTypes, OwnedFacts DEF Owned
<1>5. ~ok => l(ok) = "CLOSED"
  OBVIOUS
<1> HIDE DEF l, f
<1>6. h(ok) \in HalBlock
  BY <1>0, <1>4, OwnedFacts DEF HalBlock
<1>7. h(ok).pending = <<>> /\ h(ok).link = l(ok)
  BY <1>0, <1>2, OwnedFacts DEF HalBlock
<1>8. k(ok).pending = <<>> /\ k(ok).mbox = <<>> /\ ~k(ok).ntf
  BY <1>0, <1>2, OwnedFacts DEF HalBlock
<1> HIDE DEF k
<1>9. CASE ok
  <2>1. There.nfc = nfc_cb /\ There.hal = k(ok)
    BY <1>0, <1>3, <1>9, HalThere
  <2>2. NoReset(There) /\ NoDiscover(There) /\ Watched(There)
    BY <1>0, <1>2, <1>8, <2>1, OwnedFacts DEF NoReset, NoDiscover, Watched
  <2>3. ~ResetOut(There) /\ ~NtfDue(There)
    BY <1>8, <2>1 DEF ResetOut, NtfDue, None
  <2> QED
    BY <2>2, <2>3 DEF Boot, Booting
<1>10. CASE ~ok
  <2> DEFINE z == PostHalEvt(h(ok), "OPEN_CPLT", FALSE)
  <2>1. HalIs(z)
    BY <1>3, <1>10
  <2>2. z.pending = h(ok).pending /\ z.link = h(ok).link
    <3>1. "OPEN_CPLT" \in HalEvent
      BY DEF HalEvent
    <3> HIDE DEF h
    <3> QED
      BY <1>0, <1>6, <3>1, EventPosted
  <2> HIDE DEF z, h
  <2>3. There.nfc = nfc_cb /\ There.hal = z
    BY <1>0, <2>1, HalThere
  <2>4. NoReset(There) /\ NoDiscover(There)
    BY <1>0, <1>2, <2>3, OwnedFacts DEF NoReset, NoDiscover
  <2> QED
    BY <1>5, <1>7, <1>10, <2>2, <2>3, <2>4, BootShut
<1> QED
  BY <1>9, <1>10

(* The close completes. *)
LEMMA CloseCpltBoot == ASSUME Booted, HalCloseCplt PROVE Boot(There)
<1> DEFINE h == [hal EXCEPT !.link = "CLOSED"]
           z == PostHalEvt(h, "CLOSE_CPLT", TRUE)
<1>0. Owned /\ Boot(Here)
  BY DEF Booted
<1>1. h \in HalBlock
  BY <1>0, OwnedFacts DEF HalBlock
<1>2. h.pending = hal.pending /\ h.link = "CLOSED" /\ h.ready = hal.ready
  BY <1>0, OwnedFacts DEF HalBlock
<1>3. HalIs(z) /\ hal.link = "CLOSING"
  BY DEF HalCloseCplt
<1> HIDE DEF h
<1>4. z.pending = h.pending /\ z.link = h.link /\ z.ready = h.ready
  <2>1. "CLOSE_CPLT" \in HalEvent
    BY DEF HalEvent
  <2> QED
    BY <1>0, <1>1, <2>1, EventPosted
<1> HIDE DEF z
<1>5. hal.pending = <<>>
  BY <1>0, <1>3, OwnedFacts DEF Owned, Phase
<1>6. There.nfc = nfc_cb /\ There.hal = z
  BY <1>0, <1>3, HalThere
<1>7. NoReset(There) /\ ((There.hal.ready \/ There.nfc.nfc_state \in Resting) => NoDiscover(There))
  BY <1>0, <1>2, <1>4, <1>6, OwnedFacts DEF Boot, NoReset, NoDiscover
<1> QED
  BY <1>2, <1>4, <1>5, <1>6, <1>7, BootShut


(* The answer of the command that was written. *)
LEMMA RspBoot == ASSUME Booted, HalRsp \/ HalRecovered PROVE Boot(There)
<1> DEFINE c == Head(hal.pending)
           p == Tail(hal.pending)
           h == [hal EXCEPT !.pending = p]
           b == h.ntf \/ (TRUE /\ c.op = "CORE_RESET" /\ NciVersion = "2_0")
           k == [h EXCEPT !.ntf = b]
           m == Rsp(c, TRUE)
           z == HalDataCback(k, m)
<1>0. Owned /\ Boot(Here) /\ Typed
  BY OwnedFacts DEF Booted
<1>1. HalRsp /\ hal.link = "OPEN" /\ hal.pending # <<>>
  <2>1. hal.recovered = <<>>
    BY <1>0, OwnedFacts DEF Owned, Chan
  <2> QED
    BY <2>1 DEF HalRecovered, HalRsp
<1>2. Running(Here) /\ nfc_cb.nfc_state # "W4_HAL_CLOSE" /\ ~hal.ready
  BY <1>0, <1>1, OpenRuns
<1>3. HalIs(z)
  <2>1. ~MayFail("lost_rsp") /\ \A op : ~MayFail(Refusal(op))
    BY <1>0 DEF Owned, Calm, Undisturbed, NoRecovery, MayFail, Refusal
  <2> QED
    BY <1>1, <2>1 DEF HalRsp, Answer
<1>4. None(hal.mbox, Answered) /\ Len(hal.pending) = 1 /\ hal.pending \in Seq(Cmd)
  BY <1>0, <1>1, OwnedFacts, HalTypes DEF Owned, Chan, Free, Busy, Lent, Lost, Unused
<1>5. p = <<>> /\ p \in Seq(Cmd) /\ c \in Cmd /\ (c.op = "CORE_RESET" <=> ResetOut(Here))
  <2>1. DOMAIN hal.pending = {1} /\ c = hal.pending[1] /\ c \in Cmd /\ p \in Seq(Cmd) /\ Len(p) = 0
    BY <1>1, <1>4, HeadTailProperties
  <2>2. p = <<>>
    BY <2>1, EmptySeq
  <2>3. c.op = "CORE_RESET" <=> ResetOut(Here)
    BY <1>0, <2>1, OwnedFacts DEF ResetOut, None, ResetCmd
  <2> QED
    BY <2>1, <2>2, <2>3
<1> HIDE DEF c
<1>6. m \in Message /\ m.mt = "RSP" /\ m.op = c.op
  <2>1. c.op \in StackCmd \cup UserCmds /\ c.id \in 0..MaxCmds /\ UserCmds \subseteq {"VSC", "RAW"}
    BY <1>0, <1>5, EnvTypes DEF Cmd
  <2> QED
    BY <2>1 DEF Rsp, Message
<1> HIDE DEF p, m
<1>7. h \in HalBlock
  BY <1>0, <1>5, OwnedFacts DEF HalBlock
<1>8. h.pending = p /\ h.link = hal.link /\ h.ready = hal.ready /\ h.mbox = hal.mbox /\ h.ntf = hal.ntf
  BY <1>0, OwnedFacts DEF HalBlock
<1> HIDE DEF h
<1>9. b \in BOOLEAN /\ (b <=> hal.ntf \/ (c.op = "CORE_RESET" /\ NciVersion = "2_0"))
  BY <1>8
<1> HIDE DEF b
<1>10. /\ k \in HalBlock
       /\ k.pending = p /\ k.link = hal.link /\ k.ready = hal.ready /\ k.mbox = hal.mbox /\ k.ntf = b
  BY <1>7, <1>8, <1>9 DEF HalBlock
<1> HIDE DEF k
<1>11. /\ z.mbox = Append(hal.mbox, m) /\ z.pending = p /\ z.ntf = b
       /\ z.link = hal.link /\ z.ready = hal.ready
  BY <1>2, <1>10, DataPosted
<1> HIDE DEF z
<1>12. There.nfc = nfc_cb /\ There.hal = z /\ Here.nfc = nfc_cb /\ Here.hal = hal
  BY <1>0, <1>3, HalThere, OwnedFacts
<1>13. ~NtfDue(Here) /\ ~hal.ntf /\ None(hal.mbox, ResetNtf)
  BY <1>0, <1>1, <1>12 DEF Boot, Booting, NtfDue
<1>14. hal.mbox \in Seq(Message)
  BY <1>0, OwnedFacts, HalTypes
<1>15. None(z.mbox, ResetNtf)
  BY <1>6, <1>11, <1>13, <1>14, NoneAppend DEF ResetNtf
<1>16. c.op = "CORE_RESET" => None(z.mbox, Answered \ ResetRsp)
  <2>1. None(hal.mbox, Answered \ ResetRsp)
    BY <1>4 DEF None
  <2>2. c.op = "CORE_RESET" => m \notin Answered \ ResetRsp
    BY <1>6 DEF ResetRsp
  <2> QED
    BY <1>6, <1>11, <1>14, <2>1, <2>2, NoneAppend
<1>17. ~ResetOut(There) /\ Watched(There) /\ There.hal.pending = <<>>
  BY <1>5, <1>11, <1>12 DEF ResetOut, None, Watched
<1>18. /\ NoReset(There)
       /\ (There.hal.ready \/ There.nfc.nfc_state \in Resting) => NoDiscover(There)
       /\ Early(There) <=> Early(Here)
  BY <1>0, <1>11, <1>12 DEF Boot, NoReset, NoDiscover, Early
<1>19. Booting(There)
  <2>1. ASSUME NtfDue(There)
        PROVE  c.op = "CORE_RESET" /\ NciVersion = "2_0" /\ NtfOnce(There) /\ Early(There)
    <3>1. z.ntf /\ c.op = "CORE_RESET" /\ NciVersion = "2_0"
      BY <1>9, <1>11, <1>12, <1>13, <1>15, <2>1 DEF NtfDue
    <3>2. NtfOnce(There)
      BY <1>12, <1>15, <3>1 DEF NtfOnce
    <3>3. Early(Here)
      BY <1>0, <1>1, <1>5, <1>12, <3>1 DEF Boot, Booting
    <3> QED
      BY <1>18, <3>1, <3>2, <3>3
  <2> QED
    BY <1>12, <1>16, <1>17, <2>1 DEF Booting
<1> QED
  BY <1>17, <1>18, <1>19 DEF Boot

(* A notification: CORE_RESET_NTF when it is due, or one that does not     *)
(* concern the boot.                                                       *)
LEMMA NotificationBoot == ASSUME Booted, HalResetNtf \/ HalStrayNtf PROVE Boot(There)
<1> DEFINE a == [hal EXCEPT !.ntf = FALSE]
           k == hal.faults + 1
           b == [hal EXCEPT !.ntf = FALSE, !.faults = k]
           d == [hal EXCEPT !.faults = k]
           r == Ntf("CORE_RESET", TRUE)
           s == Ntf("OTHER", TRUE)
<1>0. Owned /\ Boot(Here)
  BY DEF Booted
<1>1. hal.link = "OPEN"
  BY DEF HalResetNtf, HalStrayNtf
<1>2. Running(Here) /\ nfc_cb.nfc_state # "W4_HAL_CLOSE"
  BY <1>0, <1>1, OpenRuns, IdleRuns DEF HalResetNtf, HalStrayNtf
<1>3. ~MayFail("reset")
  BY <1>0 DEF Owned, Calm, Undisturbed, NoRecovery, MayFail
<1>4. \/ hal.ntf /\ HalIs(HalDataCback(a, r))
      \/ hal.ntf /\ HalIs(b)
      \/ k \in 0..MaxFaults /\ HalIs(HalDataCback(d, s))
  BY <1>0, <1>3, FaultType, OwnedFacts DEF HalResetNtf, HalStrayNtf, Owned
<1> HIDE DEF k
<1>5. a \in HalBlock /\ (k \in 0..MaxFaults => d \in HalBlock)
  BY <1>0, OwnedFacts DEF HalBlock
<1>6. \A h \in {a, b, d} :
        h.pending = hal.pending /\ h.link = hal.link /\ h.ready = hal.ready /\ h.mbox = hal.mbox
  BY <1>0, OwnedFacts DEF HalBlock
<1>7. ~a.ntf /\ ~b.ntf /\ d.ntf = hal.ntf
  BY <1>0, OwnedFacts DEF HalBlock
<1>8. /\ r \in Message /\ r \in ResetNtf /\ r \notin Answered
      /\ s \in Message /\ s \notin ResetNtf /\ s \notin Answered
  <2>1. r.mt = "NTF" /\ r.op = "CORE_RESET" /\ s.mt = "NTF" /\ s.op = "OTHER"
    BY DEF Ntf
  <2> QED
    BY <2>1, NtfType DEF ResetNtf, Answered
<1> HIDE DEF a, b, d, r, s
<1>9. Here.nfc = nfc_cb /\ Here.hal = hal /\ hal.mbox \in Seq(Message)
  BY <1>0, OwnedFacts, HalTypes
<1>10. ASSUME hal.ntf, NEW z, HalIs(z), ~z.ntf, z.pending = hal.pending, z.ready = hal.ready,
              z.mbox = hal.mbox \/ z.mbox = Append(hal.mbox, r)
       PROVE  Boot(There)
  <2> DEFINE A == Answered \ ResetRsp
  <2>1. There.nfc = nfc_cb /\ There.hal = z
    BY <1>0, <1>10, HalThere
  <2>2. /\ Early(Here) /\ None(hal.mbox, ResetNtf) /\ hal.pending = <<>>
        /\ NciVersion = "2_0" /\ None(hal.mbox, A)
    BY <1>0, <1>1, <1>9, <1>10 DEF Boot, Booting, NtfDue, NtfOnce
  <2>3. r \notin A
    BY <1>8
  <2> HIDE DEF A
  <2>4. None(z.mbox, A) /\ (None(z.mbox, ResetNtf) \/ Once(z.mbox, ResetNtf))
    <3>1. CASE z.mbox = hal.mbox
      BY <2>2, <3>1
    <3>2. CASE z.mbox = Append(hal.mbox, r)
      BY <1>8, <1>9, <2>2, <2>3, <3>2, NoneAppend
    <3> QED
      BY <1>10, <3>1, <3>2
  <2>5. NtfDue(There) => NtfOnce(There)
    BY <1>10, <2>1, <2>4 DEF NtfDue, NtfOnce
  <2>6. Early(There) /\ ~ResetOut(There) /\ Watched(There)
    BY <1>9, <1>10, <2>1, <2>2 DEF Early, NoDiscover, ResetOut, None, Watched
  <2>7. NoReset(There) /\ NoDiscover(There)
    BY <1>0, <1>9, <2>1, <2>6 DEF Boot, NoReset, Early
  <2>8. Booting(There)
    BY <1>10, <2>1, <2>2, <2>4, <2>5, <2>6 DEF Booting, A
  <2> QED
    BY <2>6, <2>7, <2>8 DEF Boot
<1>11. CASE hal.ntf /\ HalIs(HalDataCback(a, r))
  <2> DEFINE z == HalDataCback(a, r)
  <2>1. z.mbox = Append(hal.mbox, r) /\ z.pending = hal.pending /\ z.ready = hal.ready /\ ~z.ntf
    BY <1>2, <1>5, <1>6, <1>7, DataPosted
  <2> HIDE DEF z
  <2> QED
    BY <1>10, <1>11, <2>1 DEF z
<1>12. CASE hal.ntf /\ HalIs(b)
  BY <1>6, <1>7, <1>10, <1>12
<1>13. CASE k \in 0..MaxFaults /\ HalIs(HalDataCback(d, s))
  <2> DEFINE z == HalDataCback(d, s)
  <2>1. /\ z.mbox = Append(hal.mbox, s) /\ z.pending = hal.pending /\ z.ntf = hal.ntf
        /\ z.link = hal.link /\ z.ready = hal.ready
    BY <1>2, <1>5, <1>6, <1>7, <1>13, DataPosted
  <2> HIDE DEF z
  <2> QED
    BY <1>8, <1>13, <2>1, HalBoot DEF z
<1> QED
  BY <1>4, <1>11, <1>12, <1>13


(* An event other than the end of an open or a close. *)
LEMMA EventBoot ==
  ASSUME Booted, NEW h \in HalBlock, NEW e \in HalEvent, NEW ok \in BOOLEAN,
         HalIs(PostHalEvt(h, e, ok)),
         h.pending = hal.pending, h.ntf = hal.ntf, h.ready = hal.ready, h.link = hal.link,
         h.mbox = hal.mbox
  PROVE  Boot(There)
<1> DEFINE z == PostHalEvt(h, e, ok)
           m == Evt(e, ok)
<1>1. /\ z.mbox = Append(h.mbox, m) /\ m \in Message /\ m.mt = "EVT"
      /\ z.pending = h.pending /\ z.ntf = h.ntf /\ z.ready = h.ready /\ z.link = h.link
  BY EventPosted DEF Booted
<1> HIDE DEF m, z
<1>2. m \notin Answered /\ m \notin ResetNtf
  BY <1>1 DEF Answered, ResetNtf
<1>3. HalIs(z)
  BY DEF z
<1> QED
  BY <1>1, <1>2, <1>3, HalBoot

(* The HAL's work ends. *)
LEMMA JobDoneBoot == ASSUME Booted, HalJobDone PROVE Boot(There)
<1> DEFINE f(ok) == IF ok THEN hal.faults ELSE hal.faults + 1
           h(ok) == [hal EXCEPT !.job = "none", !.faults = f(ok)]
           e == JobDone(hal.job)
<1>0. Owned
  BY DEF Booted
<1>1. PICK ok \in BOOLEAN : /\ ok \/ (hal.job = "post_init" /\ MayFail("post_init"))
                            /\ HalIs(PostHalEvt(h(ok), e, ok))
  BY DEF HalJobDone
<1>2. f(ok) \in 0..MaxFaults /\ "none" \in {"none", "post_init", "prediscover", "granted"}
  BY <1>0, <1>1, FaultType, HalTypes, OwnedFacts DEF Owned
<1> HIDE DEF f
<1>3. h(ok) \in HalBlock
  BY <1>0, <1>2, OwnedFacts DEF HalBlock
<1>4. /\ h(ok).pending = hal.pending /\ h(ok).link = hal.link
      /\ h(ok).ready = hal.ready /\ h(ok).ntf = hal.ntf /\ h(ok).mbox = hal.mbox
  BY <1>0, OwnedFacts DEF HalBlock
<1> HIDE DEF h
<1>5. e \in HalEvent
  <2>1. hal.job \in {"post_init", "prediscover", "granted"}
    BY <1>0, OwnedFacts, HalTypes DEF HalJobDone
  <2> QED
    BY <2>1 DEF JobDone, HalEvent
<1> HIDE DEF e
<1> QED
  BY <1>1, <1>3, <1>4, <1>5, EventBoot

(* The HAL asks for the channel, or reports an error. *)
LEMMA AskBoot == ASSUME Booted, HalRequestControl \/ HalError PROVE Boot(There)
<1> DEFINE i == hal.calls + 1
           j == hal.faults + 1
           g == [hal EXCEPT !.calls = i]
           h == [hal EXCEPT !.faults = j]
<1>0. Owned
  BY DEF Booted
<1>1. \/ i \in 0..MaxCalls /\ HalIs(PostHalEvt(g, "REQUEST_CONTROL", TRUE))
      \/ j \in 0..MaxFaults /\ HalIs(PostHalEvt(h, "ERROR", TRUE))
  <2>1. HalRequestControl => i \in 0..MaxCalls
    BY <1>0, OwnedFacts, HalTypes, EnvTypes DEF HalRequestControl, MayCall
  <2>2. HalError => j \in 0..MaxFaults
    BY <1>0, OwnedFacts, FaultType DEF HalError, Owned
  <2>3. /\ HalRequestControl => HalIs(PostHalEvt(g, "REQUEST_CONTROL", TRUE))
        /\ HalError => HalIs(PostHalEvt(h, "ERROR", TRUE))
    BY DEF HalRequestControl, HalError
  <2> QED
    BY <2>1, <2>2, <2>3
<1> HIDE DEF i, j
<1>2. (i \in 0..MaxCalls => g \in HalBlock) /\ (j \in 0..MaxFaults => h \in HalBlock)
  BY <1>0, OwnedFacts DEF HalBlock
<1>3. \A k \in {g, h} :
        /\ k.pending = hal.pending /\ k.link = hal.link
        /\ k.ready = hal.ready /\ k.ntf = hal.ntf /\ k.mbox = hal.mbox
  BY <1>0, OwnedFacts DEF HalBlock
<1> HIDE DEF g, h
<1>4. "REQUEST_CONTROL" \in HalEvent /\ "ERROR" \in HalEvent /\ TRUE \in BOOLEAN
  BY DEF HalEvent
<1> QED
  BY <1>1, <1>2, <1>3, <1>4, EventBoot

-----------------------------------------------------------------------------
(* The invariant. *)

(* Every step keeps the boot. *)
LEMMA NextBoot == Booted /\ [Next]_vars => Boot(There)
<1> SUFFICES ASSUME Booted, [Next]_vars PROVE Boot(There)
  OBVIOUS
<1>1. CASE UNCHANGED vars
  BY <1>1 DEF vars, There, Here, Booted
<1>2. CASE Task
  BY <1>2, ReadyBoot, ReadMboxBoot, TimeoutBoot DEF Task
<1>3. CASE EarlyTimeout
  BY <1>3, TimeoutBoot
<1>4. CASE Api
  BY <1>4, EnableBoot, DisableBoot, DiscoveryBoot, DeactivateBoot, VsCommandBoot, PowerBoot DEF Api
<1>5. CASE Answers
  BY <1>5, OpenCpltBoot, CloseCpltBoot, RspBoot, NotificationBoot, JobDoneBoot DEF Answers
<1>6. CASE HalStrayNtf \/ HalRequestControl \/ HalError
  BY <1>6, NotificationBoot, AskBoot
<1> QED
  BY <1>1, <1>2, <1>3, <1>4, <1>5, <1>6 DEF Next

(* The invariant holds at first. *)
LEMMA WInvInit == Init => WInv
<1> SUFFICES ASSUME Init PROVE WInv
  OBVIOUS
<1>1. Here.nfc = InitNfcCb /\ Here.hal = InitHal
  BY DEF Init, Here
<1>2. /\ Here.nfc.nci_cmd_xmit_q = <<>> /\ Here.nfc.flags = {}
      /\ Here.hal.pending = <<>> /\ Here.hal.link # "OPEN"
  BY <1>1 DEF InitNfcCb, InitHal
<1>3. NoReset(Here) /\ NoDiscover(Here)
  BY <1>2 DEF NoReset, NoDiscover, None
<1>4. Boot(Here)
  BY <1>2, <1>3, BootShut
<1> QED
  BY <1>4, InvInit DEF WInv

(* Every step keeps it. *)
LEMMA WInvNext == WInv /\ [Next]_vars => WInv'
<1> SUFFICES ASSUME WInv, [Next]_vars PROVE WInv'
  OBVIOUS
<1>1. IInv'
  BY InvNext DEF WInv
<1>2. env' = env
  BY NextEnv
<1>3. ASSUME Calm' PROVE Boot(Here)'
  <2>1. Calm
    BY <1>2, <1>3 DEF Calm, Undisturbed, NoRecovery
  <2>2. Boot(There)
    BY <2>1, NextBoot DEF WInv, IInv, Booted, Owned
  <2>3. Message' = Message /\ Cmd' = Cmd /\ NciVersion' = NciVersion
    BY <1>2 DEF Message, Cmd, MaxCmds, UserCmds, NciVersion
  <2>4. /\ ResetNtf' = ResetNtf /\ ResetCmd' = ResetCmd /\ Here' = There
        /\ (Answered \ ResetRsp)' = Answered \ ResetRsp
    BY <2>3 DEF ResetNtf, ResetCmd, Answered, ResetRsp, Here, There
  <2>5. (Booting(Here))' <=> Booting(There)
    BY <2>3, <2>4 DEF Booting, ResetOut, Early, NtfDue, NtfOnce, NoDiscover, None, Once
  <2> QED
    BY <2>2, <2>4, <2>5 DEF Boot, NoReset, Watched, NoDiscover, None
<1> QED
  BY <1>1, <1>3 DEF WInv

(* A closed window has somebody to open it. *)
LEMMA WInvReopens == WInv => (Calm => WindowReopens)
<1> SUFFICES ASSUME WInv, Calm, hal.link = "OPEN", nfc_cb.nci_cmd_window = 0
             PROVE  nfc_cb.nci_wait_rsp_timer \/ Responses # 0 \/ HalHasControl
  BY DEF WindowReopens
<1>1. Chan(Here) /\ Boot(Here) /\ TypeOK /\ Here.nfc = nfc_cb /\ Here.hal = hal
  BY DEF WInv, IInv, Here
<1>2. \A i \in DOMAIN hal.mbox : hal.mbox[i] \in Message
  BY <1>1, HalTypes DEF TypeOK
<1>3. CASE Busy(Here) /\ hal.pending # <<>>
  BY <1>1, <1>3 DEF Boot, Watched
<1>4. CASE Busy(Here) /\ hal.pending = <<>>
  <2>1. Once(hal.mbox, Answered)
    <3>1. Len(<<>>) = 0
      OBVIOUS
    <3> QED
      BY <1>1, <1>4, <3>1 DEF Busy
  <2>2. PICK i \in DOMAIN hal.mbox : \A j \in DOMAIN hal.mbox : hal.mbox[j] \in Answered <=> j = i
    BY <2>1 DEF Once
  <2>3. {j \in DOMAIN hal.mbox : hal.mbox[j].mt = "RSP"} = {i}
    BY <1>2, <2>2 DEF Answered
  <2>4. Responses = 1
    BY <2>3, FS_Singleton DEF Responses
  <2> QED
    BY <2>4
<1>5. CASE Lent(Here)
  <2>1. hal.job \in Control \/ Once(hal.mbox, Returned)
    BY <1>1, <1>5 DEF Lent
  <2>2. Once(hal.mbox, Returned) =>
          \E i \in DOMAIN hal.mbox : hal.mbox[i].op \in {"PRE_DISCOVER_CPLT", "RELEASE_CONTROL"}
    BY DEF Once, Returned
  <2> QED
    BY <2>1, <2>2 DEF HalHasControl, InMbox, Control
<1> QED
  BY <1>1, <1>3, <1>4, <1>5 DEF Chan, Free, Lost

(* While the transport is open and the command window is closed, something *)
(* is there to open it: the response timer runs, an answer is unread, or   *)
(* the HAL has control (nfc_ncif_update_window, nfc_ncif_check_cmd_queue). *)
(* The CORE_RESET notification of the start-up stops the timer whatever it *)
(* was started for (nfc_ncif_proc_reset_rsp): by then no command is        *)
(* without its response.  Calm: a window of one command, and no recovery.  *)
THEOREM ClosedWindowReopens == Spec => [](Calm => WindowReopens)
<1>1. Init => WInv
  BY WInvInit
<1>2. WInv /\ [Next]_vars => WInv'
  BY WInvNext
<1>3. WInv => (Calm => WindowReopens)
  BY WInvReopens
<1> QED
  BY <1>1, <1>2, <1>3, PTL DEF Spec

=============================================================================
