----------------------------- MODULE MCNfcConn -----------------------------
(***************************************************************************)
(* NfcConn for TLC: the environments, by what they are about.              *)
(***************************************************************************)
EXTENDS NfcConn, TLC

None == [c \in ConnId |-> <<>>]
Basic ==
    [nfc_dep |-> FALSE, max_conn |-> 4, buff_size |-> 2, credits |-> 2, grant |-> 1, send |-> None, up |-> None,
     ees |-> {}, creations |-> 1, calls |-> {}, type |-> TYPE_DISCOVERY,
     max_calls |-> 0, max_activations |-> 1, max_remote |-> 0, max_refused |-> 0, max_faults |-> 0]

(* Messages of one, two and three segments under one or two credits.       *)
Rf(send, up) == [Basic EXCEPT !.send[0] = send, !.up[0] = up]
Hci(send, up) == [Basic EXCEPT !.send[3] = send, !.up[3] = up, !.max_activations = 0]

RfEnvironments ==
    {[Rf(<<3, 2>>, <<1>>) EXCEPT !.nfc_dep = TRUE, !.credits = cr, !.calls = {"deactivate"}, !.max_calls = 2,
                                 !.max_activations = 2, !.max_remote = 1, !.type = t]
      : cr \in {1, 2}, t \in {TYPE_IDLE, TYPE_DISCOVERY}}
    \cup {[Rf(<<3>>, <<2>>) EXCEPT !.calls = {"deactivate"}, !.max_calls = 1, !.max_activations = 2,
                                   !.max_remote = 1]}
ReassemblyEnvironments ==
    {[Rf(<<1>>, up) EXCEPT !.max_remote = 1, !.max_activations = 2, !.max_faults = f]
      : up \in {<<3, 1, 2>>, <<2, 4, 1>>}, f \in {0, 1}}
HciEnvironments ==
    {[Hci(<<5, 1>>, <<3>>) EXCEPT !.calls = {"flush"}, !.max_calls = 1],
     [Hci(<<3, 2>>, <<2>>) EXCEPT !.max_faults = 1],
     [Hci(<<3>>, <<2>>) EXCEPT !.calls = {"power_cycle"}, !.max_calls = 1, !.send[0] = <<3>>,
                               !.max_activations = 1]}
ConnEnvironments ==
    {[Basic EXCEPT !.ees = {1, 2}, !.send[1] = <<3, 1>>, !.up[1] = <<2>>, !.max_calls = 3, !.max_refused = 1,
                   !.max_activations = 0],
     [Basic EXCEPT !.ees = {1}, !.send[1] = <<3>>, !.up[1] = <<1>>, !.calls = {"power_cycle"},
                   !.max_calls = 3, !.max_activations = 0]}
SwapEnvironments ==
    {[Basic EXCEPT !.ees = {1, 2, 4}, !.creations = 2, !.max_calls = 4, !.max_activations = 0]}
(* Two credits at once, with a short and a long message queued; no flow    *)
(* control.                                                                *)
PbfEnvironments == {[Hci(<<3, 1, 3>>, <<>>) EXCEPT !.grant = 2]}
GrantEnvironments ==
    PbfEnvironments
    \cup {[Rf(<<3, 1, 3>>, <<>>) EXCEPT !.nfc_dep = TRUE, !.grant = 2, !.calls = {"deactivate"},
                                       !.max_calls = 1, !.max_remote = 1],
          [Hci(<<5, 3>>, <<2>>) EXCEPT !.credits = 3, !.grant = 2, !.max_faults = 1],
          [Hci(<<3, 1>>, <<2>>) EXCEPT !.credits = NFC_CONN_NO_FC, !.max_faults = 1]}
RawEnvironments ==
    {[Rf(<<1>>, <<2>>) EXCEPT !.calls = {"raw"}, !.max_calls = 1]}

ConnEnvs == RfEnvironments \cup ReassemblyEnvironments \cup HciEnvironments \cup ConnEnvironments
            \cup GrantEnvironments
=============================================================================
