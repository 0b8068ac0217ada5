------------------------------ MODULE GkiTime ------------------------------
(***************************************************************************)
(* The timers of the Generic Kernel Interface (src/gki/common/gki_time.cc):*)
(* the general purpose timers of a task, which the system tick drives and  *)
(* which send it an event, and the timer lists the layers above keep with  *)
(* them: a list is ordered by expiry and an entry's ticks count from the   *)
(* entry before it.                                                        *)
(*                                                                         *)
(* Names of bounds: GKI_DELAY_STOP_SYS_TICK is 10 ticks in the code,       *)
(* TickWidth is 2^32 there (OSTicks is a uint32_t).                        *)
(***************************************************************************)
EXTENDS GkiBuffer

CONSTANTS GKI_DELAY_STOP_SYS_TICK, TickWidth

ASSUME TickAssumption ==
  GKI_DELAY_STOP_SYS_TICK \in Nat \ {0} /\ TickWidth \in Nat \ {0, 1}

TIMER_0 == 0                \* NFC_TIMER_ID
TIMER_1 == 1                \* NFC_QUICK_TIMER_ID
TIMER_2 == 2                \* NFA_TIMER_ID
Timers  == {TIMER_0, TIMER_1, TIMER_2}

RUN_COND  == "run"          \* GKI_TIMER_TICK_RUN_COND
STOP_COND == "stop"
EXIT_COND == "exit"

Larger(x, y)  == IF x > y THEN x ELSE y
Smaller(x, y) == IF x < y THEN x ELSE y

(* gki_timers_init; gki_timers_is_timer_running *)
TimersInit(com) ==
  [com EXCEPT !.OSTicksTilExp = 0, !.OSNumOrigTicks = 0, !.OSTicksTilStop = 0,
              !.OSTaskTmr  = [t \in Timers |-> 0],
              !.OSTaskTmrR = [t \in Timers |-> 0],
              !.p_tick_cb = FALSE, !.system_tick_running = FALSE]

IsTimerRunning(com) == \E t \in Timers : com.OSTaskTmr[t] # 0

(* gki_system_tick_start_stop_cback: it sets the condition of GKI_run, and *)
(* signals the thread when the tick is to run.  A thread that is not       *)
(* waiting misses the signal.                                              *)
TickCback(com, start) ==
  IF start THEN [com EXCEPT !.no_timer_suspend = RUN_COND, !.tick_signal = com.tick_waits]
           ELSE [com EXCEPT !.no_timer_suspend = STOP_COND]

(* gki_adjust_timer_count *)
AdjustTimerCount(com, ticks) ==
  IF com.OSNumOrigTicks = 0 \/ (ticks < com.OSTicksTilExp /\ com.OSTicksTilExp > 0)
  THEN [com EXCEPT !.OSNumOrigTicks = (@ - com.OSTicksTilExp) + ticks, !.OSTicksTilExp = ticks]
  ELSE com

(* GKI_start_timer: with no timer running the system tick is started, or,  *)
(* when it is only about to stop, goes on.                                 *)
StartSystemTick_LetsStop(com) ==
  IF IsTimerRunning(com) \/ com.OSTicksTilStop # 0 THEN com
  ELSE IF com.p_tick_cb THEN TickCback([com EXCEPT !.system_tick_running = TRUE], TRUE)
  ELSE com

StartSystemTick(com) ==
  IF IsTimerRunning(com) THEN com
  ELSE IF com.OSTicksTilStop # 0 THEN [com EXCEPT !.OSTicksTilStop = 0]
  ELSE IF com.p_tick_cb THEN TickCback([com EXCEPT !.system_tick_running = TRUE], TRUE)
  ELSE com

StartTimer(com, t, ticks, continuous) ==
  LET on == StartSystemTick(com)
  IN  AdjustTimerCount(
        [on EXCEPT !.OSTaskTmrR[t] = IF continuous THEN ticks ELSE 0,
                   !.OSTaskTmr[t]  = ticks + (on.OSNumOrigTicks - on.OSTicksTilExp)], ticks)

(* GKI_stop_timer: with no timer left the system tick is to stop after a   *)
(* delay.  An event the timer sent already stays pending.                  *)

StopTimer(com, t) ==
  LET off == [com EXCEPT !.OSTaskTmrR[t] = 0, !.OSTaskTmr[t] = 0]
  IN  IF ~IsTimerRunning(off) /\ off.p_tick_cb /\ off.system_tick_running /\ off.OSTicksTilStop = 0
      THEN [off EXCEPT !.OSTicksTilStop = GKI_DELAY_STOP_SYS_TICK]
      ELSE off

(* GKI_timer_update, behind GKI_disable, for the timers of one task: those *)
(* that are due (Due) send their events and are reloaded; the next         *)
(* expiration is that of the first timer left.  The timers of a dead task  *)
(* are left alone.                                                         *)
Elapsed(com) == com.OSNumOrigTicks - com.OSTicksTilExp

Due(com) == {t \in Timers : com.OSTaskTmr[t] > 0 /\ com.OSTaskTmr[t] - Elapsed(com) <= 0}

Reload(com, alive) ==
  [t \in Timers |-> IF ~alive \/ com.OSTaskTmr[t] <= 0 THEN com.OSTaskTmr[t]
                    ELSE IF t \in Due(com) THEN com.OSTaskTmrR[t]
                    ELSE com.OSTaskTmr[t] - Elapsed(com)]

TimersExpire(com, alive) ==
  LET left    == Reload(com, alive)
      running == IF alive THEN {left[t] : t \in {u \in Timers : left[u] > 0}} ELSE {}
      next    == IF running = {} THEN 0 ELSE CHOOSE n \in running : \A m \in running : n <= m
  IN  [com EXCEPT !.OSTaskTmr = left, !.OSTicksTilExp = next, !.OSNumOrigTicks = next]

----------------------------------------------------------------------------
(* Timer lists: a list is [order, last_ticks]; an entry [ticks, in_use].   *)
EmptyList == [order |-> <<>>, last_ticks |-> 0]         \* GKI_init_timer_list
UnusedEntry == [ticks |-> -1, in_use |-> FALSE]         \* GKI_init_timer_list_entry

(* The ticks until the i-th entry of a list expires, as the sum of its     *)
(* own and those before it.                                                *)
Sum(com, q, i) ==
  FoldSeq(LAMBDA e, n : n + com.tle[e].ticks, 0, SubSeq(com.tl[q].order, 1, i))

(* GKI_get_remaining_ticks *)
RemainingTicks(com, q, e) ==
  IF com.tle[e].in_use /\ Contains(com.tl[q].order, e)
  THEN Sum(com, q, CHOOSE i \in DOMAIN com.tl[q].order : com.tl[q].order[i] = e)
  ELSE 0

(* GKI_add_to_timer_list: behind the last entry, or before the first that  *)
(* expires no earlier, whose own ticks then count from the new one.        *)
AddToTimerList(com, q, e, ticks) ==
  LET list == com.tl[q]
      at   == CHOOSE i \in DOMAIN list.order :
                ticks <= Sum(com, q, i) /\ (i = 1 \/ ticks > Sum(com, q, i - 1))
      own  == ticks - Sum(com, q, at - 1)
  IN  IF ticks >= list.last_ticks
      THEN [com EXCEPT !.tl[q] = [order |-> Append(list.order, e), last_ticks |-> ticks],
                       !.tle[e] = [ticks |-> ticks - list.last_ticks, in_use |-> TRUE]]
      ELSE [com EXCEPT !.tl[q].order = InsertAt(@, at, e),
                       !.tle[e] = [ticks |-> own, in_use |-> TRUE],
                       !.tle[list.order[at]].ticks = @ - own]

(* GKI_remove_from_timer_list: the ticks of the entry go to the next.      *)
RemoveFromTimerList_DropsTicks(com, q, e) ==
  IF ~com.tle[e].in_use \/ com.tl[q].order = <<>> THEN com
  ELSE [com EXCEPT !.tl[q].order = Remove(@, e), !.tle[e] = UnusedEntry,
                   !.tl[q].last_ticks = IF e = Last(com.tl[q].order) THEN @ - com.tle[e].ticks ELSE @]

RemoveFromTimerList(com, q, e) ==
  LET order == com.tl[q].order
      at    == CHOOSE i \in DOMAIN order : order[i] = e
      gone  == [com EXCEPT !.tl[q].order = Remove(@, e), !.tle[e] = UnusedEntry]
  IN  IF ~com.tle[e].in_use \/ order = <<>> THEN com
      ELSE IF at < Len(order) THEN [gone EXCEPT !.tle[order[at + 1]].ticks = @ + com.tle[e].ticks]
      ELSE [gone EXCEPT !.tl[q].last_ticks = @ - com.tle[e].ticks]

(* GKI_update_timer_list: n units pass.                                    *)
UpdateTimerList_Each(com, q, n) ==
  [com EXCEPT
    !.tle = [e \in DOMAIN com.tle |->
               IF Contains(com.tl[q].order, e) THEN [com.tle[e] EXCEPT !.ticks = Larger(0, @ - n)]
               ELSE com.tle[e]],
    !.tl[q].last_ticks = Larger(0, @ - n)]

UpdateTimerList(com, q, n) ==
  LET order == com.tl[q].order
      place(e) == CHOOSE i \in DOMAIN order : order[i] = e
      rest(e)  == Larger(0, n - Sum(com, q, place(e) - 1))
  IN  [com EXCEPT
        !.tle = [e \in DOMAIN com.tle |->
                   IF Contains(order, e)
                   THEN [com.tle[e] EXCEPT !.ticks = Larger(0, @ - rest(e))]
                   ELSE com.tle[e]],
        !.tl[q].last_ticks = Larger(0, @ - n)]

Expired(com, q) == com.tl[q].order # <<>> /\ com.tle[Head(com.tl[q].order)].ticks <= 0

(* nfa_sys_ptim_timer_update: the ticks since the last update, over the    *)
(* end of the tick counter.                                                *)
TicksSince(now, last) ==
  IF now >= last THEN now - last ELSE ((TickWidth - 1) - last) + now + 1
=============================================================================
