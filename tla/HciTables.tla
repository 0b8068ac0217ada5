----------------------------- MODULE HciTables -----------------------------
(***************************************************************************)
(* The gates and the dynamic pipes of the device host (nfa_hci_utils.cc):  *)
(* two tables of fixed size that point at each other.  A pipe names its    *)
(* local gate; a gate (or the identity management gate, which is no entry  *)
(* of the table) has a mask of the pipes that end on it.                   *)
(*                                                                         *)
(* An operator maps the tables t to the next ones; t.nv is                 *)
(* nv_write_needed: what is in the tables has yet to be written to flash.  *)
(***************************************************************************)
EXTENDS Integers, FiniteSets, FiniteSetsExt

CONSTANTS NFA_HCI_MAX_GATE_CB, NFA_HCI_MAX_PIPE_CB     \* 6 and 8 in the code
ASSUME TableAssumption ==
    NFA_HCI_MAX_GATE_CB \in Nat \ {0} /\ NFA_HCI_MAX_PIPE_CB \in Nat \ {0}

(* Gates: the three the standard names, those an application may allocate  *)
(* (generic, then proprietary), and the generic one of ETSI 12 APDUs.       *)
Connectivity == "conn"
Loopback == "loop"
Identity == "ident"
APDU == "apdu"
PropGate == {"p1"}
Allocatable == <<"g1", "g2", "p1">>
Gate == {Connectivity, Loopback, Identity, APDU, "g1", "g2", "p1"}
NoGate == "none"

(* Pipes: scaled down; the code has 2..0x6F and static pipes above.        *)
NFA_HCI_ADMIN_PIPE == 1
NFA_HCI_LINK_MANAGEMENT_PIPE == 7
NFA_HCI_FIRST_DYNAMIC_PIPE == 2
NFA_HCI_CONN_PIPE == 4       \* NFA_HCI_CONN_UICC_PIPE and NFA_HCI_CONN_ESE_PIPE
NFA_HCI_APDU_PIPE == 5
NFA_HCI_LAST_DYNAMIC_PIPE == 5
StaticPipe == 6
PipeId == NFA_HCI_FIRST_DYNAMIC_PIPE..StaticPipe

UICC == 2                    \* NFA_HCI_HOST_ID_UICC0
ESE == 192                   \* NFA_HCI_HOST_ID_ESE
Host == {UICC, ESE}

(* An owner is an application, nobody, or NFA_HANDLE_INVALID.              *)
App == 1..2                  \* NFA_HCI_MAX_APP_CB
NoOwner == 0
InvalidHandle == 99
Owner == App \cup {NoOwner, InvalidHandle}

GateSlot == 1..NFA_HCI_MAX_GATE_CB
PipeSlot == 1..NFA_HCI_MAX_PIPE_CB

DynGate == [id : Gate \cup {NoGate}, owner : Owner, mask : SUBSET PipeSlot]
DynPipe == [id : PipeId \cup {0}, open : BOOLEAN, gate : Gate \cup {NoGate}, host : Host \cup {0},
            dgate : Gate \cup {NoGate}]
FreeGate == [id |-> NoGate, owner |-> NoOwner, mask |-> {}]
FreePipe == [id |-> 0, open |-> FALSE, gate |-> NoGate, host |-> 0, dgate |-> NoGate]
Tables == [gates : [GateSlot -> DynGate], pipes : [PipeSlot -> DynPipe], id_mask : SUBSET PipeSlot,
           nv : BOOLEAN]
EmptyTables == [gates |-> [g \in GateSlot |-> FreeGate], pipes |-> [s \in PipeSlot |-> FreePipe],
                id_mask |-> {}, nv |-> TRUE]

-----------------------------------------------------------------------------
(* Looking up: the slots that fit, and the first of them (0: none).        *)

First(S) == IF S = {} THEN 0 ELSE Min(S)
GateWhere(t, P(_)) == First({g \in GateSlot : t.gates[g].id # NoGate /\ P(t.gates[g])})
PipeWhere(t, P(_)) == First({s \in PipeSlot : t.pipes[s].id # 0 /\ P(t.pipes[s])})

FindGate(t, gate) == First({g \in GateSlot : t.gates[g].id = gate})
FindPipe(t, pid) == First({s \in PipeSlot : t.pipes[s].id = pid})
Dynamic(p) == p.id \in NFA_HCI_FIRST_DYNAMIC_PIPE..NFA_HCI_LAST_DYNAMIC_PIPE

(* nfa_hciu_get_gate_owner and nfa_hciu_get_pipe_owner.                    *)
GateOwner(t, gate) ==
    LET g == FindGate(t, gate) IN IF g = 0 THEN InvalidHandle ELSE t.gates[g].owner
PipeOwner(t, pid) ==
    LET s == FindPipe(t, pid) IN IF s = 0 THEN InvalidHandle ELSE GateOwner(t, t.pipes[s].gate)
OwnedBy(t, p, app) == FindGate(t, p.gate) # 0 /\ GateOwner(t, p.gate) = app
OnGate(t, p, gate) == p.gate = gate /\ FindGate(t, gate) # 0

FindPipeByOwner(t, app) == LET P(p) == OwnedBy(t, p, app) IN PipeWhere(t, P)
FindPipeOnGate(t, gate) == LET P(p) == OnGate(t, p, gate) IN PipeWhere(t, P)
FindActivePipeByOwner(t, app, inactive) ==
    LET P(p) == Dynamic(p) /\ p.host \notin inactive /\ OwnedBy(t, p, app) IN PipeWhere(t, P)
FindActivePipeOnGate(t, gate, inactive) ==
    LET P(p) == Dynamic(p) /\ p.host \notin inactive /\ OnGate(t, p, gate) IN PipeWhere(t, P)
PipeBetweenGates(t, gate, host, dgate) ==
    \E s \in PipeSlot :
        LET p == t.pipes[s] IN Dynamic(p) /\ p.gate = gate /\ p.host = host /\ p.dgate = dgate
(* nfa_hci_api_IspipePresent does not ask whether the entry is in use.     *)
PipePresent(t, host, gate) ==
    \E s \in PipeSlot :
        t.pipes[s].host = host /\ t.pipes[s].dgate = gate /\ t.pipes[s].gate = gate

-----------------------------------------------------------------------------
(* Gates.                                                                  *)

(* nfa_hciu_alloc_gate, by its result: the slot (0: none) and the tables.  *)
(* registered: the applications with a callback.  Any gate but the         *)
(* connectivity gate and the proprietary ones needs one.                   *)
GateToAlloc(t, gate) ==
    IF gate # NoGate THEN gate
    ELSE LET free == {i \in DOMAIN Allocatable : FindGate(t, Allocatable[i]) = 0}
         IN IF free = {} THEN NoGate ELSE Allocatable[Min(free)]
AllocGateSlot(t, gate, app, registered) ==
    LET id == GateToAlloc(t, gate)
    IN IF gate \notin {Connectivity} \cup PropGate /\ app \notin registered THEN 0
       ELSE IF id = NoGate THEN 0
       ELSE IF FindGate(t, id) # 0 THEN FindGate(t, id) ELSE FindGate(t, NoGate)
TakeSlot(t, g, gate, app) ==
    IF g = 0 \/ t.gates[g].id # NoGate THEN t
    ELSE [t EXCEPT !.gates[g] = [id |-> gate, owner |-> app, mask |-> {}], !.nv = TRUE]
AllocGate(t, gate, app, registered) ==
    TakeSlot(t, AllocGateSlot(t, gate, app, registered), GateToAlloc(t, gate), app)

ReleaseGate(t, gate) ==
    IF FindGate(t, gate) = 0 THEN t
    ELSE [t EXCEPT !.gates[FindGate(t, gate)] = FreeGate, !.nv = TRUE]
ReleaseGates(t, which) ==
    [t EXCEPT !.gates = [g \in GateSlot |-> IF which[g] THEN FreeGate ELSE t.gates[g]],
              !.nv = @ \/ \E g \in GateSlot : which[g]]
(* The releases of nfa_hci_api_deregister: every gate of the application,  *)
(* or those without a pipe.                                                *)
ReleaseGatesOf(t, app) ==
    ReleaseGates(t, [g \in GateSlot |-> t.gates[g].id # NoGate /\ t.gates[g].owner = app])
ReleaseUnusedGatesOf(t, app) ==
    ReleaseGates(t, [g \in GateSlot |-> /\ t.gates[g].id # NoGate /\ t.gates[g].owner = app
                                        /\ t.gates[g].mask = {}])

-----------------------------------------------------------------------------
(* Pipes.                                                                  *)

(* A pipe whose gate is not in the table only loses its number; the caller *)
(* sees NFA_HCI_ANY_E_NOK.                                                 *)
Releasable(t, pid) ==
    LET s == FindPipe(t, pid)
    IN /\ s # 0 /\ pid <= NFA_HCI_LAST_DYNAMIC_PIPE
       /\ t.pipes[s].gate = Identity \/ FindGate(t, t.pipes[s].gate) # 0
(* Faulty: the gate keeps the bit of the pipe.                             *)
ReleasePipe_KeepsMask(t, pid) ==
    LET s == FindPipe(t, pid)
    IN IF s = 0 \/ pid > NFA_HCI_LAST_DYNAMIC_PIPE THEN t
       ELSE IF t.pipes[s].gate = Identity
       THEN [t EXCEPT !.pipes[s] = FreePipe, !.id_mask = @ \ {s}, !.nv = TRUE]
       ELSE [t EXCEPT !.pipes[s] = FreePipe, !.nv = TRUE]
ReleasePipe(t, pid) ==
    LET s == FindPipe(t, pid)
        g == FindGate(t, t.pipes[s].gate)
    IN IF s = 0 \/ pid > NFA_HCI_LAST_DYNAMIC_PIPE THEN t
       ELSE IF t.pipes[s].gate = Identity
       THEN [t EXCEPT !.pipes[s] = FreePipe, !.id_mask = @ \ {s}, !.nv = TRUE]
       ELSE IF g = 0 THEN [t EXCEPT !.pipes[s].id = 0]
       ELSE [t EXCEPT !.pipes[s] = FreePipe, !.gates[g].mask = @ \ {s}, !.nv = TRUE]

(* nfa_hciu_alloc_pipe: a dynamic pipe with this number is released first, *)
(* a static one keeps its entry.                                           *)
BeforeAlloc(t, pid) == IF pid > NFA_HCI_LAST_DYNAMIC_PIPE THEN t ELSE ReleasePipe(t, pid)
AllocPipeSlot(t, pid) == IF FindPipe(t, pid) # 0 THEN FindPipe(t, pid) ELSE FindPipe(t, 0)
PlacePipe(t, pid, gate, host, dgate) ==
    LET s == AllocPipeSlot(t, pid)
    IN IF s = 0 THEN t
       ELSE [t EXCEPT !.pipes[s] = [id |-> pid, open |-> FALSE, gate |-> gate, host |-> host, dgate |-> dgate],
                      !.nv = @ \/ t.pipes[s].id = 0]
AddPipe(t, pid, gate, host, dgate) == PlacePipe(BeforeAlloc(t, pid), pid, gate, host, dgate)

(* nfa_hciu_add_pipe_to_gate and nfa_hciu_add_pipe_to_static_gate: Added   *)
(* is NFA_HCI_ANY_OK.                                                      *)
MaskInGate(t, pid, gate) ==
    IF FindPipe(t, pid) = 0 THEN t ELSE [t EXCEPT !.gates[FindGate(t, gate)].mask = @ \cup {FindPipe(t, pid)}]
MaskInIdentity(t, pid) == IF FindPipe(t, pid) = 0 THEN t ELSE [t EXCEPT !.id_mask = @ \cup {FindPipe(t, pid)}]
RoomFor(t, pid) == AllocPipeSlot(BeforeAlloc(t, pid), pid) # 0
AddedToGate(t, pid, gate) == FindGate(t, gate) # 0 /\ RoomFor(t, pid)
AddPipeToGate(t, pid, gate, host, dgate) ==
    IF FindGate(t, gate) = 0 THEN t ELSE MaskInGate(AddPipe(t, pid, gate, host, dgate), pid, gate)
AddPipeToStaticGate(t, pid, gate, host, dgate) ==
    LET u == AddPipe(t, pid, gate, host, dgate)
    IN IF gate # Identity THEN u ELSE MaskInIdentity(u, pid)

(* nfa_hciu_remove_all_pipes_from_host: the pipes it removes (host 0: from *)
(* every host, the static ones stay because nfa_hciu_release_pipe refuses  *)
(* them) and the tables after it.                                          *)
PipesFrom(t, host) ==
    {s \in PipeSlot : LET p == t.pipes[s] IN p.id # 0 /\ (host = 0 \/ (p.host = host /\ Dynamic(p)))}
RemoveAllPipes(t, host) ==
    FoldSet(LAMBDA s, u : ReleasePipe(u, t.pipes[s].id), t, PipesFrom(t, host))

OpenPipe(t, pid, open) == [t EXCEPT !.pipes[FindPipe(t, pid)].open = open]

(* nfa_hci_is_valid_cfg: what was read from flash can be used.  The walk   *)
(* over a mask ends at the last table entry when that entry's bit is set,  *)
(* and then the configuration is refused whatever it holds.                *)
Mask(t) == UNION {t.gates[g].mask : g \in {g \in GateSlot : t.gates[g].id # NoGate}}
WalkPasses(t, mask) ==
    /\ \A s \in mask : t.pipes[s].id >= NFA_HCI_FIRST_DYNAMIC_PIPE
    /\ NFA_HCI_MAX_PIPE_CB \notin mask
IsValidCfg(t) ==
    LET used == {g \in GateSlot : t.gates[g].id # NoGate}
        inuse == {s \in PipeSlot : t.pipes[s].id # 0}
    IN /\ \A g1, g2 \in used : g1 # g2 =>
             (/\ t.gates[g1].id # t.gates[g2].id
              /\ t.gates[g1].mask \cap t.gates[g2].mask = {})
       /\ \A g \in used : t.gates[g].owner # InvalidHandle
       /\ WalkPasses(t, Mask(t)) /\ WalkPasses(t, t.id_mask)
       /\ \A s1, s2 \in inuse : s1 # s2 => t.pipes[s1].id # t.pipes[s2].id
       /\ \A s \in inuse : t.pipes[s].dgate # NoGate
       /\ \A s \in t.id_mask : t.pipes[s].gate = Identity
=============================================================================
