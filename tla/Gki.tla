-------------------------------- MODULE Gki --------------------------------
(***************************************************************************)
(* The threads of the stack and what the Generic Kernel Interface does     *)
(* between them (src/gki): NFC_TASK, which waits for events and handles    *)
(* the messages of its mailboxes and its timers (nfc_task.cc,              *)
(* nfa_sys_ptim.cc); BTU_TASK, which counts the system tick (GKI_run); the *)
(* thread of the HAL, which sends messages; and that of the application,   *)
(* which sends messages, shuts the tasks down and starts them again        *)
(* (NfcAdaptation.cc).                                                     *)
(*                                                                         *)
(* Grain: a section under a mutex is one step, and so is every access to   *)
(* a shared variable outside of one.  The step of a thread ends where it   *)
(* calls into the next section.  One tick is one pass of the loop of       *)
(* GKI_run.  What a message makes the layers above do is one of a few      *)
(* kinds of work (the field op): free it, keep it in a queue, drain that   *)
(* queue, post another message to the task, start or stop a timer, or      *)
(* close the transport.                                                    *)
(***************************************************************************)
EXTENDS GkiTime

CONSTANTS
  Environments,   \* the instances to check
  NFC_PERIOD,     \* ticks of a second, the unit of nfc_start_timer
  NFA_PERIOD      \* ticks between two updates of the timers of NFA

Mboxes  == {0, 2}                       \* NFC_MBOX_ID, NFA_MBOX_ID
Lists   == {"nfc", "quick", "nfa"}
Entries == {"rsp", "deact", "quick", "sys"}

ListOf(e)  == IF e = "sys" THEN "nfa" ELSE IF e = "quick" THEN "quick" ELSE "nfc"
TimerOf(q) == CASE q = "nfc" -> TIMER_0 [] q = "quick" -> TIMER_1 [] q = "nfa" -> TIMER_2
PeriodOf(q) == CASE q = "nfc" -> NFC_PERIOD [] q = "quick" -> 1 [] q = "nfa" -> NFA_PERIOD

MboxEvt(mb) == IF mb = 0 THEN "mbox0" ELSE "mbox2"
TimerEvt(t) == CASE t = TIMER_0 -> "timer0" [] t = TIMER_1 -> "timer1" [] t = TIMER_2 -> "timer2"
SHUTDOWN    == "shutdown"
MboxEvts    == {"mbox0", "mbox2"}

NFC_TASK == "nfc"
BTU_TASK == "btu"
Tasks    == {NFC_TASK, BTU_TASK}
Senders  == {"hal", "api"}

(* A message: the mailbox it goes to, the size of its buffer and the work  *)
(* it makes.                                                               *)
Message ==
  [mbox : Mboxes, size : Nat, op : {"free", "keep", "drain", "post", "start", "stop", "close"},
   tle : Entries, ticks : Nat]

Plain(mb) == [mbox |-> mb, size |-> 1, op |-> "free", tle |-> "rsp", ticks |-> 0]

(* pools: the size and number of the buffers of every pool; restricted:    *)
(* the pools GKI_getbuf passes over; msgs: what each thread sends, in      *)
(* turn; ticking: whether BTU_TASK runs; races: whether a behaviour is     *)
(* followed on when a timer was started while BTU_TASK held a value it had *)
(* read before; shutdown: whether the application may shut the tasks down, *)
(* graceful: only behind a close; restarts: how often it starts them again.*)
Environment ==
  [pools : Seq([size : Nat, total : Nat]), restricted : SUBSET Nat, msgs : [Senders -> Seq(Message)],
   ticking : BOOLEAN, races : BOOLEAN, shutdown : BOOLEAN, graceful : BOOLEAN, restarts : Nat]

ASSUME EnvAssumption == Environments \subseteq Environment

VARIABLES
  env,
  com,     \* gki_cb, and the timer lists and the queue of the layers above
  app,     \* the sending threads: pc, the buffer in hand, the messages left
  nfc,     \* NFC_TASK: pc, what is left to do, a new buffer in hand
  tick,    \* BTU_TASK: pc and the value it read last
  hist     \* what the properties need of the past

vars == <<env, com, app, nfc, tick, hist>>

----------------------------------------------------------------------------
(* GKI_init and GKI_create_task, the first time.                           *)
InitCom(e) ==
  TimersInit(
  [buf |-> InitBuf(e.pools),
   freeq |-> InitFreeq(e.pools), pool_access_mask |-> e.restricted,
   queue |-> [q \in {"tx"} |-> <<>>], mbox |-> [mb \in Mboxes |-> <<>>],
   OSWaitEvt |-> [t \in Tasks |-> {}], OSRdyTbl |-> [t \in Tasks |-> "ready"],
   nfc_waits |-> FALSE, nfc_signal |-> FALSE,
   OSTicks |-> 0, OSTicksTilExp |-> 0, OSTicksTilStop |-> 0, OSNumOrigTicks |-> 0,
   OSTaskTmr |-> [t \in Timers |-> 0], OSTaskTmrR |-> [t \in Timers |-> 0],
   p_tick_cb |-> FALSE, system_tick_running |-> FALSE,
   no_timer_suspend |-> RUN_COND, tick_waits |-> FALSE, tick_signal |-> FALSE,
   tl |-> [q \in Lists |-> EmptyList], tle |-> [x \in Entries |-> UnusedEntry],
   last_gki_ticks |-> 0, closing |-> FALSE])

Init ==
  /\ env \in Environments
  /\ com = InitCom(env)
  /\ app = [s \in Senders |-> [pc |-> "idle", b |-> NoBuf, mbox |-> 0, todo |-> env.msgs[s]]]
  /\ nfc = [pc |-> "wait", todo |-> <<>>, new |-> NoBuf]
  /\ tick = [pc |-> IF env.ticking THEN "register" ELSE "exit", read |-> 0]
  /\ hist = [restarts |-> env.restarts, age |-> [x \in Entries |-> 0], least |-> [x \in Entries |-> 0], early |-> FALSE,
             raced |-> FALSE, missed |-> FALSE, stale |-> FALSE, lost |-> {}]

(* GKI_send_event: under the mutex of the task.                            *)

SendEvent(c, task, evts) ==
  [c EXCEPT !.OSWaitEvt[task] = @ \cup evts,
            !.nfc_signal = @ \/ (task = NFC_TASK /\ c.nfc_waits)]

(* A thread that fetched a value of the tick's before and stores what it   *)
(* makes of it now: GKI_timer_update up to GKI_disable, and the end of     *)
(* GKI_run's inner loop up to its wait.                                    *)
Unlocked == tick.pc \in {"store", "stopdec", "stopping", "towait"}

----------------------------------------------------------------------------
(* A sending thread: GKI_getbuf, GKI_send_msg up to GKI_enable, and the    *)
(* event.                                                                  *)
Alloc(s) ==
  /\ app[s].pc = "idle" /\ app[s].todo # <<>>
  /\ LET m   == Head(app[s].todo)
         got == Getbuf(com, m.size)
     IN  IF got.b = NoBuf THEN com' = com /\ app' = [app EXCEPT ![s].todo = Tail(@)]
         ELSE /\ com' = [got.com EXCEPT !.buf[got.b].msg = m]
              /\ app' = [app EXCEPT ![s] = [pc |-> "send", b |-> got.b, mbox |-> m.mbox, todo |-> Tail(@.todo)]]
  /\ UNCHANGED <<env, nfc, tick, hist>>

SendMsg(s) ==
  /\ app[s].pc = "send"
  /\ IF com.OSRdyTbl[NFC_TASK] = "dead"
     THEN com' = Freebuf(com, app[s].b) /\ app' = [app EXCEPT ![s].pc = "idle", ![s].b = NoBuf, ![s].mbox = 0]
     ELSE com' = LinkMsg(com, app[s].mbox, app[s].b) /\ app' = [app EXCEPT ![s].pc = "event", ![s].b = NoBuf]
  /\ UNCHANGED <<env, nfc, tick, hist>>

MsgEvent(s) ==
  /\ app[s].pc = "event"
  /\ com' = SendEvent(com, NFC_TASK, {MboxEvt(app[s].mbox)})
  /\ app' = [app EXCEPT ![s].pc = "idle", ![s].mbox = 0]
  /\ UNCHANGED <<env, nfc, tick, hist>>

----------------------------------------------------------------------------
(* NFC_TASK.  GKI_wait takes every event that is set; a task that had to   *)
(* wait sets those of its mailboxes again, and ends when it is dead.       *)
Stages == <<"mbox0", "timer0", "timer1", "mbox2", "timer2">>

TakeEvents(c, evts) ==
  /\ com' = [c EXCEPT !.OSWaitEvt[NFC_TASK] = {}, !.nfc_waits = FALSE, !.nfc_signal = FALSE]
  /\ nfc' = IF evts = {SHUTDOWN} THEN [nfc EXCEPT !.pc = "exit"]
            ELSE [nfc EXCEPT !.pc = IF evts \subseteq {SHUTDOWN} THEN "wait" ELSE "work",
                             !.todo = SelectSeq(Stages, LAMBDA s : s \in evts)]
  /\ hist' = [hist EXCEPT !.missed = @ \/ (SHUTDOWN \in evts /\ evts # {SHUTDOWN})]

Wait ==
  /\ nfc.pc = "wait"
  /\ IF com.OSWaitEvt[NFC_TASK] # {} THEN TakeEvents(com, com.OSWaitEvt[NFC_TASK])
     ELSE /\ com' = [com EXCEPT !.nfc_waits = TRUE]
          /\ nfc' = [nfc EXCEPT !.pc = "blocked"]
          /\ UNCHANGED hist
  /\ UNCHANGED <<env, app, tick>>

Pending(c) == {MboxEvt(mb) : mb \in {m \in Mboxes : c.mbox[m] # <<>>}}

Woken ==
  /\ nfc.pc = "blocked"
  /\ IF com.OSRdyTbl[NFC_TASK] = "dead"
     THEN /\ com' = [com EXCEPT !.OSWaitEvt[NFC_TASK] = {}, !.nfc_waits = FALSE, !.nfc_signal = FALSE]
          /\ nfc' = [nfc EXCEPT !.pc = "exit"]
          /\ UNCHANGED hist
     ELSE TakeEvents(com, com.OSWaitEvt[NFC_TASK] \cup Pending(com))
  /\ UNCHANGED <<env, app, tick>>

Wake == com.nfc_signal /\ Woken

(* A condition variable may wake its thread without a signal.              *)
SpuriousWake == ~com.nfc_signal /\ com.OSRdyTbl[NFC_TASK] = "ready" /\ Woken

NextStage == [nfc EXCEPT !.pc = IF Len(nfc.todo) <= 1 THEN "wait" ELSE "work", !.todo = Tail(@)]

(* nfc_start_timer, nfc_start_quick_timer and nfa_sys_ptim_start_timer,    *)
(* from NFC_TASK: the first entry of a list starts its timer.  That of NFA *)
(* notes OSTicks, which is counted from there.                             *)
StartList(c, e, ticks) ==
  LET q  == ListOf(e)
      on == IF c.tl[q].order # <<>> THEN c
            ELSE StartTimer(IF q = "nfa" THEN [c EXCEPT !.OSTicks = 0, !.last_gki_ticks = 0] ELSE c,
                            TimerOf(q), PeriodOf(q), TRUE)
  IN  AddToTimerList(RemoveFromTimerList(on, q, e), q, e, ticks)

(* nfc_stop_timer, nfc_stop_quick_timer and nfa_sys_ptim_stop_timer        *)
StopList(c, e) ==
  LET off == RemoveFromTimerList(c, ListOf(e), e)
  IN  IF off.tl[ListOf(e)].order = <<>> THEN StopTimer(off, TimerOf(ListOf(e))) ELSE off

(* A loop that takes the buffers of S out of their queues and frees them.  *)
OfPool(c, S, id) == {b \in S : c.buf[b].q_id = id}

FreeAll(c, S) ==
  [c EXCEPT !.freeq = [id \in DOMAIN c.freeq |->
                         [c.freeq[id] EXCEPT !.free = @ \cup OfPool(c, S, id),
                                             !.cur_cnt = Larger(0, @ - Cardinality(OfPool(c, S, id)))]],
            !.buf   = [b \in DOMAIN c.buf |->
                         IF b \in S THEN [c.buf[b] EXCEPT !.status = BUF_STATUS_FREE, !.msg = Nothing] ELSE c.buf[b]]]

DrainTx(c) == FreeAll([c EXCEPT !.queue["tx"] = <<>>], Range(c.queue["tx"]))

(* nfc_task_shutdown_nfcc for a transport that is closed: the messages of  *)
(* the stack's mailbox and what the layers above keep are freed and the    *)
(* three timers stopped; the entries stay in their lists.                  *)
ShutdownNfcc(c) ==
  LET freed == FreeAll([DrainTx(c) EXCEPT !.mbox[0] = <<>>], Range(c.mbox[0]))
  IN  [StopTimer(StopTimer(StopTimer(freed, TIMER_0), TIMER_1), TIMER_2) EXCEPT !.closing = TRUE]

(* What a message does to the control block; the buffer b is in hand.      *)
Handle(c, b) ==
  LET m == c.buf[b].msg
  IN  CASE m.op = "keep"  -> Enqueue(c, "tx", b)
        [] m.op = "drain" -> Freebuf(DrainTx(c), b)
        [] m.op = "start" -> Freebuf(StartList(c, m.tle, m.ticks), b)
        [] m.op = "stop"  -> Freebuf(StopList(c, m.tle), b)
        [] m.op = "close" -> Freebuf(ShutdownNfcc(c), b)
        [] OTHER          -> Freebuf(c, b)

(* The ticks that must pass before an entry may expire.  Three periods may *)
(* be short of a second, or of one of the quick timer: the one that is     *)
(* running when the entry is added, and two that ended before, one whose   *)
(* event the task has taken but not handled and one whose event is set.    *)
(* NFA counts ticks, from the last update on.                              *)
Earliest(e, ticks) ==
  LET q   == ListOf(e)
      lag == IF com.tl[q].order = <<>> THEN 0 ELSE TicksSince(com.OSTicks, com.last_gki_ticks)
  IN  IF q = "nfa" THEN ticks - lag ELSE (ticks - 3) * PeriodOf(q)

Started(m) ==
  IF m.op # "start" THEN hist
  ELSE [hist EXCEPT !.age[m.tle] = 0, !.least[m.tle] = Earliest(m.tle, m.ticks), !.raced = @ \/ Unlocked]

(* nfc_task reads a mailbox until it is empty.                             *)
MboxOf(stage) == IF stage = "mbox0" THEN 0 ELSE 2

AfterMsg_One == NextStage
AfterMsg == nfc

ReadMsg ==
  /\ nfc.pc = "work" /\ Head(nfc.todo) \in MboxEvts
  /\ LET got == ReadMbox(com, MboxOf(Head(nfc.todo)))
         m   == com.buf[got.b].msg
     IN  IF got.b = NoBuf THEN com' = com /\ nfc' = NextStage /\ hist' = hist
         ELSE IF m.op = "post"
         THEN LET new == Getpoolbuf(got.com, Len(env.pools))
              IN  /\ com' = IF new.b = NoBuf THEN Freebuf(got.com, got.b)
                            ELSE [Freebuf(new.com, got.b) EXCEPT !.buf[new.b].msg = Plain(2)]
                  /\ nfc' = IF new.b = NoBuf THEN AfterMsg ELSE [nfc EXCEPT !.pc = "post", !.new = new.b]
                  /\ hist' = hist
         ELSE com' = Handle(got.com, got.b) /\ nfc' = AfterMsg /\ hist' = Started(m)
  /\ UNCHANGED <<env, app, tick>>

(* The task's own message, through GKI_send_msg.                           *)
Post ==
  /\ nfc.pc = "post"
  /\ IF com.OSRdyTbl[NFC_TASK] = "dead"
     THEN com' = Freebuf(com, nfc.new) /\ nfc' = [nfc EXCEPT !.pc = "work", !.new = NoBuf]
     ELSE com' = LinkMsg(com, 2, nfc.new) /\ nfc' = [nfc EXCEPT !.pc = "event", !.new = NoBuf]
  /\ UNCHANGED <<env, app, tick, hist>>

PostEvent ==
  /\ nfc.pc = "event"
  /\ com' = SendEvent(com, NFC_TASK, {MboxEvt(2)})
  /\ nfc' = [nfc EXCEPT !.pc = "work"]
  /\ UNCHANGED <<env, app, tick, hist>>

(* nfc_process_timer_evt, nfc_process_quick_timer_evt and                  *)
(* nfa_sys_ptim_timer_update: time passes for the list (TimerEvent), and   *)
(* every entry that expired is taken out and does its work (TimerFires).   *)
ListAt(stage) == CASE stage = "timer0" -> "nfc" [] stage = "timer1" -> "quick" [] stage = "timer2" -> "nfa"

Units(q) == IF q = "nfa" THEN TicksSince(com.OSTicks, com.last_gki_ticks) ELSE 1

TimerEvent ==
  /\ nfc.pc = "work" /\ Head(nfc.todo) \in {"timer0", "timer1", "timer2"}
  /\ LET q == ListAt(Head(nfc.todo))
     IN  com' = [UpdateTimerList(com, q, Units(q)) EXCEPT
                   !.last_gki_ticks = IF q = "nfa" THEN com.OSTicks ELSE @]
  /\ nfc' = [nfc EXCEPT !.pc = "fire"]
  /\ UNCHANGED <<env, app, tick, hist>>

TimerFires ==
  LET q == ListAt(Head(nfc.todo))
      e == Head(com.tl[q].order)
      off == RemoveFromTimerList(com, q, e)
      new == Getbuf(off, 1)
  IN  /\ nfc.pc = "fire" /\ Expired(com, q)
      /\ hist' = [hist EXCEPT !.early = @ \/ hist.age[e] < hist.least[e]]
      /\ IF e = "sys" /\ new.b # NoBuf
         THEN com' = [new.com EXCEPT !.buf[new.b].msg = Plain(2)] /\ nfc' = [nfc EXCEPT !.pc = "firepost", !.new = new.b]
         ELSE /\ com' = off
              /\ nfc' = IF q = "nfc" /\ com.closing THEN NextStage ELSE nfc
      /\ UNCHANGED <<env, app, tick>>

(* nfa_sys_sendmsg of the event of an entry                                *)
FirePost ==
  /\ nfc.pc = "firepost"
  /\ IF com.OSRdyTbl[NFC_TASK] = "dead" THEN com' = Freebuf(com, nfc.new)
     ELSE com' = SendEvent(LinkMsg(com, 2, nfc.new), NFC_TASK, {MboxEvt(2)})
  /\ nfc' = [nfc EXCEPT !.pc = "fire", !.new = NoBuf]
  /\ UNCHANGED <<env, app, tick, hist>>

TimersDone ==
  /\ nfc.pc = "fire"
  /\ LET q == ListAt(Head(nfc.todo))
     IN  /\ ~Expired(com, q)
         /\ com' = IF com.tl[q].order = <<>> THEN StopTimer(com, TimerOf(q)) ELSE com
  /\ nfc' = NextStage
  /\ UNCHANGED <<env, app, tick, hist>>

NfcStep == Wait \/ Wake \/ ReadMsg \/ Post \/ PostEvent \/ TimerEvent \/ TimerFires \/ FirePost \/ TimersDone
NfcDue  == nfc.pc \notin {"blocked", "exit"} \/ (nfc.pc = "blocked" /\ com.nfc_signal)

----------------------------------------------------------------------------
(* BTU_TASK: GKI_run.                                                      *)
TickGoes(pc) == tick' = [tick EXCEPT !.pc = pc]

Register ==                 \* GKI_timer_queue_register_callback
  /\ tick.pc = "register"
  /\ com' = [com EXCEPT !.p_tick_cb = TRUE]
  /\ TickGoes(IF com.no_timer_suspend = EXIT_COND THEN "exit" ELSE "sleep")
  /\ UNCHANGED <<env, app, nfc, hist>>

(* A tick: the thread wakes from its sleep and reads what is left until    *)
(* the next expiration; unless the tick is to run, it leaves the loop,     *)
(* reports that it is dead if it is, and goes to wait.  The looks at the   *)
(* condition before and behind the sleep are one.  OSTicks is read by the  *)
(* timers of NFA only: it is counted while one of them runs, and the       *)
(* counter does not turn over between two updates of theirs.               *)
AgeBound == 3               \* an age is not counted beyond this

Aged == [x \in Entries |-> IF com.tle[x].in_use THEN Smaller(AgeBound, hist.age[x] + 1) ELSE 0]

Overdue == com.tl["nfa"].order # <<>> /\ TicksSince(com.OSTicks, com.last_gki_ticks) = TickWidth - 1

Tick ==
  /\ tick.pc = "sleep" /\ com.no_timer_suspend = RUN_COND /\ ~Overdue
  /\ com' = [com EXCEPT !.OSTicks = IF com.tl["nfa"].order = <<>> THEN @ ELSE (@ + 1) % TickWidth]
  /\ tick' = [pc |-> "store", read |-> com.OSTicksTilExp]
  /\ hist' = [hist EXCEPT !.age = Aged]
  /\ UNCHANGED <<env, app, nfc>>

Leave ==
  /\ tick.pc = "sleep" /\ com.no_timer_suspend # RUN_COND
  /\ com' = IF com.OSRdyTbl[BTU_TASK] = "dead" THEN [com EXCEPT !.OSWaitEvt[BTU_TASK] = {}] ELSE com
  /\ TickGoes(IF com.no_timer_suspend = EXIT_COND THEN "exit" ELSE "towait")
  /\ UNCHANGED <<env, app, nfc, hist>>

(* GKI_timer_update, before it locks: each step stores what it made of a   *)
(* value read before, and reads the next.                                  *)
Rest(c) == [pc |-> IF c.OSTicksTilExp > 0 THEN "sleep" ELSE "locked", read |-> 0]

StoreTicks ==
  /\ tick.pc = "store"
  /\ com' = [com EXCEPT !.OSTicksTilExp = tick.read - 1]
  /\ tick' = IF com.OSTicksTilStop = 0 THEN Rest(com')
             ELSE [pc |-> IF com.OSTicksTilStop <= 1 THEN "stopping" ELSE "stopdec", read |-> com.OSTicksTilStop]
  /\ UNCHANGED <<env, app, nfc, hist>>

CountStop ==
  /\ tick.pc = "stopdec"
  /\ com' = [com EXCEPT !.OSTicksTilStop = tick.read - 1]
  /\ tick' = Rest(com')
  /\ UNCHANGED <<env, app, nfc, hist>>

StopTick(c) ==
  IF c.p_tick_cb THEN TickCback([c EXCEPT !.OSTicksTilStop = 0, !.system_tick_running = FALSE], FALSE)
  ELSE [c EXCEPT !.OSTicksTilStop = 0]

Stopping ==
  /\ tick.pc = "stopping"
  /\ com' = StopTick(com)
  /\ tick' = [pc |-> "sleep", read |-> 0]
  /\ UNCHANGED <<env, app, nfc, hist>>

(* Behind GKI_disable: the timers of NFC_TASK, the events sent.            *)
UpdateTimers ==
  /\ tick.pc = "locked"
  /\ LET alive == com.OSRdyTbl[NFC_TASK] = "ready"
         due   == IF alive THEN Due(com) ELSE {}
         late  == TimersExpire(com, alive)
     IN  com' = IF due = {} THEN late ELSE SendEvent(late, NFC_TASK, {TimerEvt(t) : t \in due})
  /\ TickGoes("sleep")
  /\ UNCHANGED <<env, app, nfc, hist>>

(* pthread_cond_wait in GKI_run.  The condition is not looked at again     *)
(* before the wait: a signal that comes now is lost.                       *)
ToWait ==
  /\ tick.pc = "towait"
  /\ com' = [com EXCEPT !.tick_waits = TRUE]
  /\ TickGoes("waiting")
  /\ UNCHANGED <<env, app, nfc, hist>>

Resume ==
  /\ tick.pc = "waiting" /\ com.tick_signal
  /\ com' = [com EXCEPT !.tick_waits = FALSE, !.tick_signal = FALSE]
  /\ TickGoes(IF com.no_timer_suspend = EXIT_COND THEN "exit" ELSE "sleep")
  /\ UNCHANGED <<env, app, nfc, hist>>

TickStep ==
  Register \/ Tick \/ Leave \/ StoreTicks \/ CountStop \/ Stopping \/ UpdateTimers \/ ToWait \/ Resume
TickDue ==
  \/ tick.pc \notin {"exit", "waiting", "sleep"}
  \/ tick.pc = "sleep" /\ ~(Overdue /\ com.no_timer_suspend = RUN_COND)
  \/ tick.pc = "waiting" /\ com.tick_signal

----------------------------------------------------------------------------
(* GKI_shutdown, by the application: BTU_TASK, then NFC_TASK, is marked    *)
(* dead and sent an event, and given a while to see it.                    *)
MarkDead(c, task) == [c EXCEPT !.OSRdyTbl[task] = "dead", !.OSWaitEvt[task] = @ \ MboxEvts]

ApiGoes(pc) == app' = [app EXCEPT !.api.pc = pc]

ShutdownTask(task, pc, next) ==
  /\ app.api.pc = pc
  /\ com' = MarkDead(com, task)
  /\ ApiGoes(next)
  /\ UNCHANGED <<env, nfc, tick, hist>>

Shutdown ==
  /\ env.shutdown /\ (env.graceful => com.closing)
  /\ ShutdownTask(BTU_TASK, "idle", "btu_event")

BtuEvent ==
  /\ app.api.pc = "btu_event"
  /\ LET sent == SendEvent(com, BTU_TASK, {SHUTDOWN})
     IN  com' = IF com.p_tick_cb /\ com.system_tick_running
                THEN TickCback([sent EXCEPT !.system_tick_running = FALSE], FALSE)
                ELSE sent
  /\ ApiGoes("btu_poll")
  /\ UNCHANGED <<env, nfc, tick, hist>>

(* The events of the task are looked at up to 15 times, 2 ms apart.  That  *)
(* is taken to be enough for a thread that is going to clear them.         *)
BtuPoll ==
  /\ app.api.pc = "btu_poll"
  /\ com.OSWaitEvt[BTU_TASK] = {} \/ ~TickDue \/ com.no_timer_suspend = RUN_COND
  /\ ApiGoes("nfc")
  /\ UNCHANGED <<env, com, nfc, tick, hist>>

NfcDead == ShutdownTask(NFC_TASK, "nfc", "nfc_event")

NfcEvent ==
  /\ app.api.pc = "nfc_event"
  /\ com' = SendEvent(com, NFC_TASK, {SHUTDOWN})
  /\ ApiGoes("nfc_poll")
  /\ UNCHANGED <<env, nfc, tick, hist>>

NfcPoll ==
  /\ app.api.pc = "nfc_poll"
  /\ com.OSWaitEvt[NFC_TASK] = {} \/ ~NfcDue
  /\ ApiGoes("exit")
  /\ UNCHANGED <<env, com, nfc, tick, hist>>

(* The thread of the tick is on its way to stop the tick, which overwrites *)
(* the condition, or on its way to wait.                                   *)
Deaf == tick.pc \in {"stopping", "towait"} \/ (tick.pc = "store" /\ com.OSTicksTilStop # 0)

ShutdownExit ==
  /\ app.api.pc = "exit"
  /\ com' = [com EXCEPT !.no_timer_suspend = EXIT_COND,
                        !.tick_signal = @ \/ (com.no_timer_suspend = STOP_COND /\ com.tick_waits)]
  /\ hist' = [hist EXCEPT !.missed = @ \/ Deaf]
  /\ ApiGoes("down")
  /\ UNCHANGED <<env, nfc, tick>>

(* GKI_init and GKI_create_task again, once both threads have ended.  The  *)
(* buffers and the mailboxes are those of before; the control blocks of    *)
(* the layers above are cleared.                                           *)
Restart ==
  /\ app.api.pc = "down" /\ hist.restarts > 0
  /\ nfc.pc = "exit" /\ tick.pc = "exit" /\ app.hal.pc = "idle"
  /\ com' = [TimersInit(com) EXCEPT
               !.no_timer_suspend = RUN_COND, !.tick_waits = FALSE, !.tick_signal = FALSE,
               !.OSWaitEvt = [t \in Tasks |-> {}], !.OSRdyTbl = [t \in Tasks |-> "ready"],
               !.tl = [q \in Lists |-> EmptyList], !.tle = [x \in Entries |-> UnusedEntry],
               !.last_gki_ticks = 0, !.queue = [q \in {"tx"} |-> <<>>], !.closing = FALSE]
  /\ app' = [app EXCEPT !.api.pc = "idle"]
  /\ nfc' = [pc |-> "wait", todo |-> <<>>, new |-> NoBuf]
  /\ tick' = [pc |-> "register", read |-> 0]
  /\ hist' = [hist EXCEPT !.restarts = @ - 1, !.stale = @ \/ Pending(com) # {}, !.lost = @ \cup Range(com.queue["tx"]),
                          !.raced = FALSE, !.missed = FALSE]
  /\ UNCHANGED env

ApiStep == BtuEvent \/ BtuPoll \/ NfcDead \/ NfcEvent \/ NfcPoll \/ ShutdownExit
ApiDue  ==
  \/ app.api.pc \in {"btu_event", "nfc", "nfc_event", "exit"}
  \/ app.api.pc = "btu_poll" /\ (com.OSWaitEvt[BTU_TASK] = {} \/ ~TickDue \/ com.no_timer_suspend = RUN_COND)
  \/ app.api.pc = "nfc_poll" /\ (com.OSWaitEvt[NFC_TASK] = {} \/ ~NfcDue)

SendStep(s) == SendMsg(s) \/ MsgEvent(s)
SendDue(s)  == app[s].pc \in {"send", "event"}

Next ==
  /\ hist.raced => env.races
  /\ \/ \E s \in Senders : Alloc(s) \/ SendStep(s)
     \/ NfcStep \/ SpuriousWake
     \/ TickStep
     \/ Shutdown \/ ApiStep \/ Restart

Spec == Init /\ [][Next]_vars

(* A thread that can go on does: nothing in GKI keeps one from the         *)
(* processor for ever, and a mutex is held for one step only.              *)
Fairness ==
  /\ []<>~NfcDue  \/ []<><<NfcStep>>_vars
  /\ []<>~TickDue \/ []<><<TickStep>>_vars
  /\ []<>~ApiDue  \/ []<><<ApiStep>>_vars
  /\ \A s \in Senders : []<>~SendDue(s) \/ []<><<SendStep(s)>>_vars

FairSpec == Spec /\ Fairness

(* The same with the enabling condition left to TLC.                       *)
WeaklyFairSpec ==
  /\ Spec /\ WF_vars(NfcStep) /\ WF_vars(TickStep) /\ WF_vars(ApiStep)
  /\ \A s \in Senders : WF_vars(SendStep(s))

----------------------------------------------------------------------------
(* The shape of the state.                                                 *)
Sound(bs) == \A i \in DOMAIN bs : bs[i] \in DOMAIN com.buf

TypeOK ==
  /\ \A id \in DOMAIN com.freeq : com.freeq[id].free \subseteq DOMAIN com.buf /\ com.freeq[id].cur_cnt \in 0..com.freeq[id].total
  /\ \A mb \in Mboxes : Sound(com.mbox[mb])
  /\ com.OSTicks \in 0..TickWidth - 1 /\ com.OSTicksTilStop \in 0..GKI_DELAY_STOP_SYS_TICK
  /\ com.no_timer_suspend \in {RUN_COND, STOP_COND, EXIT_COND}
  /\ \A q \in Lists : com.tl[q].last_ticks = Sum(com, q, Len(com.tl[q].order))
  /\ \A t \in Timers : com.OSTaskTmr[t] >= 0 /\ com.OSTaskTmrR[t] >= 0
  /\ app.hal.pc \in {"idle", "send", "event"}

(* A buffer is in one place: free in its own pool, linked once in one      *)
(* mailbox or queue, or in the hands of one thread; its status says which, *)
(* and the pool counts those that are out.  The exception is a buffer a    *)
(* queue held when its control block was cleared.                          *)
Hands == [t \in Senders \cup {NFC_TASK} |-> IF t = NFC_TASK THEN nfc.new ELSE app[t].b]

InHand == {Hands[t] : t \in DOMAIN Hands} \ {NoBuf}

Chains == {"mbox0", "mbox2", "tx"}

Chain(c, q) == CASE q = "mbox0" -> c.mbox[0] [] q = "mbox2" -> c.mbox[2] [] q = "tx" -> c.queue["tx"]

LinkedBufs == hist.lost \cup UNION {Range(Chain(com, q)) : q \in Chains}

StatusTrue ==
  \A b \in DOMAIN com.buf :
    LET hdr == com.buf[b]
    IN  /\ hdr.status \in {BUF_STATUS_FREE, BUF_STATUS_UNLINKED, BUF_STATUS_QUEUED}
        /\ hdr.status = BUF_STATUS_FREE     <=> b \in com.freeq[hdr.q_id].free
        /\ hdr.status = BUF_STATUS_UNLINKED <=> b \in InHand
        /\ hdr.status = BUF_STATUS_QUEUED   <=> b \in LinkedBufs

HeldOnce == \A t, u \in DOMAIN Hands : t # u /\ Hands[t] = Hands[u] => Hands[t] = NoBuf

LinkedOnce ==
  \A q, r \in Chains : \A i \in DOMAIN Chain(com, q), j \in DOMAIN Chain(com, r) :
    /\ Chain(com, q)[i] = Chain(com, r)[j] => q = r /\ i = j
    /\ Chain(com, q)[i] \notin hist.lost

PoolsCount ==
  \A id \in DOMAIN com.freeq :
    /\ com.freeq[id].free \subseteq {b \in DOMAIN com.buf : com.buf[b].q_id = id}
    /\ com.freeq[id].cur_cnt = com.freeq[id].total - Cardinality(com.freeq[id].free)

BuffersConserved ==
  /\ InHand \cup LinkedBufs \subseteq DOMAIN com.buf
  /\ StatusTrue /\ HeldOnce /\ LinkedOnce /\ PoolsCount

(* No entry of a timer list expires too early, whatever entries are added  *)
(* before and behind it, removed and expire with it, however late the task *)
(* handles its events, and over the end of the tick counter - unless a     *)
(* timer was started while the tick's thread held a value it read before.  *)
NotEarly == hist.early => hist.raced

(* A message that was put into the mailbox of a living task is read.       *)
MessagesHandled ==
  \A mb \in Mboxes :
    (com.mbox[mb] # <<>>) ~> (com.mbox[mb] = <<>> \/ com.OSRdyTbl[NFC_TASK] = "dead" \/ hist.stale)

(* An entry of a timer list expires or is removed.                         *)
TimersEnd ==
  \A e \in Entries :
    com.tle[e].in_use ~> (~com.tle[e].in_use \/ com.closing \/ com.OSRdyTbl[NFC_TASK] = "dead" \/ hist.raced)

(* With no timer left the system tick stops: the device may sleep.         *)
TickStops ==
  (com.system_tick_running /\ ~IsTimerRunning(com))
    ~> (IsTimerRunning(com) \/ com.no_timer_suspend # RUN_COND)

(* GKI_shutdown ends both threads - unless NFC_TASK takes its event        *)
(* together with another one, or the tick's thread is about to stop the    *)
(* tick, or is between its look at the condition and its wait.             *)
ShutdownEnds ==
  (com.OSRdyTbl[NFC_TASK] = "dead") ~> ((nfc.pc = "exit" /\ tick.pc = "exit") \/ hist.missed)

(* Threads: every message is read and a shutdown ends.                     *)
TasksServed == MessagesHandled /\ ShutdownEnds

(* Timers: every entry ends, and the tick with the last.                   *)
TimersServed == TimersEnd /\ TickStops

----------------------------------------------------------------------------
(* What a comment of the repository says, and the code does not do.        *)
(* GKI_shutdown "shutdowns the GKI tasks/threads".                         *)
ThreadsShutDown ==
  (com.OSRdyTbl[NFC_TASK] = "dead") ~> (nfc.pc = "exit" /\ tick.pc = "exit")

(* GKI_start_timer: ticks is "the number of system ticks til the timer     *)
(* expires".                                                               *)
StartedTimersExpire ==
  \A e \in Entries :
    com.tle[e].in_use ~> (~com.tle[e].in_use \/ com.closing \/ com.OSRdyTbl[NFC_TASK] = "dead")
=============================================================================
