------------------------------ MODULE MCNfaHci ------------------------------
(* Instances of NfaHci for TLC.                                            *)
EXTENDS NfaHci

C(op, a) == [op |-> op, app |-> a, gate |-> NoGate, dgate |-> NoGate, pipe |-> 0, timeout |-> FALSE]
Gated2(op, a, gate) == [C(op, a) EXCEPT !.gate = gate]
Create(a, gate, dgate) == [C("CREATE", a) EXCEPT !.gate = gate, !.dgate = dgate]
OnPipe(op, a, pipe) == [C(op, a) EXCEPT !.pipe = pipe]
Await(a, pipe) == [OnPipe("EVENT", a, pipe) EXCEPT !.timeout = TRUE]
I(op) == [op |-> op, gate |-> NoGate, dgate |-> NoGate, pipe |-> 0, inst |-> "OPEN"]
NewPipeTo(gate, dgate) == [I("create") EXCEPT !.gate = gate, !.dgate = dgate]
HostOn(op, pipe, inst) == [I(op) EXCEPT !.pipe = pipe, !.inst = inst]

Basic ==
    [host |-> UICC, version12 |-> TRUE, listed |-> TRUE, hci_nfcee |-> FALSE, few |-> FALSE, polls |-> 0,
     calls |-> <<>>, hosts |-> <<>>, eager |-> FALSE, late |-> FALSE, losses |-> 0, refusals |-> 0, restarts |-> 0]
WithPipe == <<C("REGISTER", 1), Gated2("ALLOC", 1, "g1"), Create(1, "g1", "g2")>>

(* The start, with everything that may go wrong in it.                     *)
Start == [Basic EXCEPT !.few = TRUE, !.polls = 2, !.losses = 1, !.refusals = 1, !.hci_nfcee = TRUE]
StartOld == [Basic EXCEPT !.eager = TRUE, !.version12 = FALSE, !.polls = 1, !.calls = <<C("REGISTER", 1), C("HOSTS", 1)>>]
StartAgain == [Basic EXCEPT !.eager = TRUE, !.listed = FALSE, !.restarts = 1, !.calls = WithPipe]

(* A pipe and its use, with hosts that clear, delete and command.          *)
Use == [Basic EXCEPT !.calls = WithPipe \o <<OnPipe("OPEN", 1, 2), OnPipe("SET", 1, 2), OnPipe("CLOSE", 1, 2)>>]
Short == [Use EXCEPT !.calls = WithPipe \o <<OnPipe("OPEN", 1, 2)>>]
Cleared == [Use EXCEPT !.calls = WithPipe \o <<OnPipe("SET", 1, 2)>>, !.hosts = <<I("clear")>>]
ClearedUse ==
    [Basic EXCEPT !.calls = <<C("REGISTER", 1), C("HOSTS", 1)>>, !.hosts = <<I("clear"), I("hot_plug")>>]
Closed == [Short EXCEPT !.hosts = <<I("close_admin")>>]
Lost == [Use EXCEPT !.losses = 1]
Refused == [Use EXCEPT !.refusals = 1]
Late == [Short EXCEPT !.late = TRUE]

(* The end of pipes: deallocation and deregistration.                      *)
Dealloc ==
    [Basic EXCEPT !.calls = WithPipe \o <<Gated2("DEALLOC", 1, "g1"), C("LIST", 1), C("DEREGISTER", 1)>>,
                  !.losses = 1, !.refusals = 1]
Deregister2 ==
    [Basic EXCEPT !.calls = WithPipe \o <<Create(1, "g1", "g1"), OnPipe("DELETE", 1, 2), C("DEREGISTER", 1)>>,
                  !.losses = 1, !.hosts = <<HostOn("delete", 3, "OPEN")>>]

(* Pipes that hosts make.                                                  *)
HostPipes ==
    [Basic EXCEPT !.calls = <<C("REGISTER", 1), OnPipe("RSP", 1, 2)>>,
                  !.hosts = <<NewPipeTo("p1", "p1"), NewPipeTo(Connectivity, Connectivity),
                              HostOn("cmd", 4, "OPEN"), HostOn("cmd", 2, "OPEN"), HostOn("cmd", 2, "CMD")>>]
StandardPipes ==
    [Basic EXCEPT !.hosts = <<HostOn("link", 7, "OPEN"), HostOn("link", 7, "GET"), NewPipeTo(Identity, "g1"),
                              HostOn("cmd", 2, "OPEN"), HostOn("cmd", 2, "GET"), HostOn("cmd", 2, "CMD"),
                              NewPipeTo("g1", "g1"), NewPipeTo(Loopback, Loopback), HostOn("cmd", 3, "OPEN"),
                              HostOn("event", 3, "POST_DATA"), HostOn("cmd", 3, "GET")>>]
HostRestart ==
    [Basic EXCEPT !.hosts = <<NewPipeTo("p1", "p1"), I("clear_hc")>>, !.restarts = 1]

(* The secure element: events that are answered, and aborts.               *)
Apdu ==
    [Basic EXCEPT !.host = ESE, !.calls = WithPipe, !.hosts = <<I("clear")>>]
ApduUse ==
    [Basic EXCEPT !.host = ESE,
                  !.calls = <<C("REGISTER", 1), Await(1, 5)>>,
                  !.hosts = <<I("clear")>>, !.losses = 2]
Static ==
    [Basic EXCEPT !.calls = <<C("REGISTER", 1), C("REGISTER", 2), Gated2("ALLOC", 1, "p1"),
                              [OnPipe("STATIC", 2, StaticPipe) EXCEPT !.gate = "p1"], OnPipe("CMD", 2, StaticPipe)>>]

All == {Start, StartOld, StartAgain, Use, Cleared, ClearedUse, Closed, Lost, Refused, Late, Dealloc, Deregister2,
        HostPipes, StandardPipes, HostRestart, Apdu, ApduUse, Static}
Clearing == {[Basic EXCEPT !.calls = WithPipe, !.hosts = <<I("clear")>>]}
=============================================================================
