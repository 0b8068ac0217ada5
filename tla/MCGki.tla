------------------------------- MODULE MCGki -------------------------------
(* The instances of Gki that TLC checks.                                   *)
EXTENDS Gki

OnePool    == <<[size |-> 1, total |-> 2]>>
TwoPools   == <<[size |-> 1, total |-> 2], [size |-> 2, total |-> 1]>>
ThreePools == <<[size |-> 1, total |-> 1], [size |-> 3, total |-> 1], [size |-> 2, total |-> 2]>>

Work(mb, size, op) == [mbox |-> mb, size |-> size, op |-> op, tle |-> "rsp", ticks |-> 0]
StartMsg(e, n)     == [mbox |-> 0, size |-> 1, op |-> "start", tle |-> e, ticks |-> n]
StopMsg(e)         == [mbox |-> 0, size |-> 1, op |-> "stop", tle |-> e, ticks |-> 0]

Env(pools, hal, api) ==
  [pools |-> pools, restricted |-> {}, msgs |-> [s \in Senders |-> IF s = "hal" THEN hal ELSE api],
   ticking |-> TRUE, races |-> FALSE, shutdown |-> FALSE, graceful |-> TRUE, restarts |-> 0]

(* Messages of two threads to both mailboxes, kept and posted on, with     *)
(* pools that run out.                                                     *)
MsgEnvs ==
  {[Env(TwoPools, <<Work(0, 1, "keep"), Work(0, 2, "free")>>, <<Work(2, 1, "post"), Work(2, 1, "drain")>>)
      EXCEPT !.ticking = FALSE],
   [Env(ThreePools, <<Work(0, 2, "keep"), Work(0, 3, "free")>>, <<Work(2, 1, "post"), Work(2, 2, "free")>>)
      EXCEPT !.restricted = {2}, !.ticking = FALSE]}

(* Two timers of one list, timers of two lists, a timer that stops the     *)
(* tick and one that starts it again, and one of NFA.                      *)
TimerEnvs ==
  {Env(OnePool, <<>>, <<StartMsg("deact", 3), StartMsg("rsp", 6)>>),
   Env(OnePool, <<>>, <<StartMsg("rsp", 2), StartMsg("deact", 1), StopMsg("deact")>>),
   Env(OnePool, <<>>, <<StartMsg("rsp", 2), StartMsg("quick", 1)>>),
   Env(OnePool, <<>>, <<StartMsg("quick", 1), StopMsg("quick"), StartMsg("quick", 4)>>),
   Env(OnePool, <<>>, <<StartMsg("sys", 3)>>)}

(* The tasks are shut down with messages and timers under way, and started *)
(* again.                                                                  *)
Abrupt == [Env(OnePool, <<>>, <<StartMsg("quick", 2)>>) EXCEPT !.shutdown = TRUE, !.graceful = FALSE]

DownEnvs ==
  {Abrupt,
   [Abrupt EXCEPT !.msgs = [hal |-> <<Work(0, 1, "keep")>>, api |-> <<Work(2, 1, "free")>>], !.restarts = 1],
   [Abrupt EXCEPT !.msgs = [hal |-> <<>>, api |-> <<StartMsg("quick", 1), Work(0, 1, "close")>>],
                  !.graceful = TRUE, !.restarts = 1]}

AllEnvironments  == MsgEnvs \cup TimerEnvs \cup DownEnvs

(* The shutdown, and a timer started again, with nothing left out.         *)
LateEnvironments == {Abrupt}
RaceEnvironments == {[Env(OnePool, <<>>, <<StartMsg("quick", 1), StartMsg("quick", 1)>>) EXCEPT !.races = TRUE]}
=============================================================================
