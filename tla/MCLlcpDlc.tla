----------------------------- MODULE MCLlcpDlc -----------------------------
(***************************************************************************)
(* LlcpDlc in small environments, so that one run of TLC checks several.   *)
(***************************************************************************)
EXTENDS LlcpDlc

ClientServer(c, s) == [n \in Node |-> IF n = Client THEN c ELSE s]
Both(v) == ClientServer(v, v)

(* One-way transfer with every call, time-out and link loss.               *)
OneWay ==
    [name |-> "one_way", rw |-> Both(2),
     uses |-> ClientServer({"send", "query", "txdone", "disc", "timeout", "linkloss"},
                           {"flush", "disc", "reject", "timeout"}),
     rx_threshold |-> 2, rx_start |-> 4, rx_end |-> 1, tx_buff |-> 3,
     max_agf |-> 2, max_sdu |-> 3, max_ep |-> 1]

(* More SDUs than there are sequence numbers.                              *)
Wrap ==
    [OneWay EXCEPT !.name = "wrap", !.uses = ClientServer({"send", "txdone", "disc"}, {"flush"}),
        !.max_agf = 1, !.max_sdu = 5]

(* Two connections, closed by either side, no timer expiring early.        *)
Reconnect ==
    [OneWay EXCEPT !.name = "reconnect", !.rw = Both(1),
        !.uses = ClientServer({"send", "txdone", "disc", "linkloss"}, {"disc", "reject"}),
        !.tx_buff = 2, !.max_sdu = 2, !.max_ep = 2]

(* Data in both directions, with flow control by local busy; the smallest  *)
(* thresholds, or a window of two.                                         *)
BusyRead ==
    [OneWay EXCEPT !.name = "busy_read",
        !.uses = ClientServer({"send", "disc"}, {"send", "busy"}), !.max_sdu = 2]
TwoWay ==
    [BusyRead EXCEPT !.name = "two_way", !.uses = ClientServer({"send"}, {"send", "busy"}),
        !.rw = Both(1), !.rx_start = 2, !.rx_end = 0, !.tx_buff = 1, !.max_agf = 1]

(* For liveness: sending and orderly closing.                              *)
Live ==
    [OneWay EXCEPT !.name = "live", !.rw = Both(1),
        !.uses = ClientServer({"send", "disc", "txdone"}, {"flush"}),
        !.rx_threshold = 1, !.tx_buff = 2, !.max_sdu = 2]

DlcEnvironments == {OneWay, Wrap, Reconnect, TwoWay, Live}
BusyReadOnly == {BusyRead}
=============================================================================
