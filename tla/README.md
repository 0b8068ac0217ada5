# Verification of libnfc-nci (NFC_NCIHAL_libnfc-nci)

TLA+ models of the NFC host stack, the TLC runs that check them, and TLAPS
proofs. Every module is translated from the C++ under `src/src/` (the stack)
and `src/utils/`.

## 1. The system

The library runs in one process. The application calls the NFA API from its
own threads; a call allocates a message and puts it in the mailbox of the one
NFC task, which runs everything else: NFA modules, NFC core, LLCP, tag
protocols. The HAL delivers NCI packets from its own thread, again through a
message to the NFC task. GKI supplies buffers, timers, mailboxes and events.

| Component | Source | State | Operations and interactions | Hard behaviour |
|---|---|---|---|---|
| GKI buffers | `gki/common/gki_buffer.cc` | free queues, buffer status and owner, BUFFER_Qs | getpoolbuf, getbuf, freebuf, enqueue, dequeue, send_msg, read_mbox | exhaustion, double free, a buffer on two queues |
| GKI timers | `gki/common/gki_time.cc` | per task counters, delta lists | start/stop/update timers, timer queues | missed expiry, delta arithmetic, nested interrupt locks |
| GKI tasks | `gki/ulinux/gki_ulinux.cc` | events, masks, mutexes | create, wait, send_event, exit | lost wake-up, shutdown |
| Adaptation | `adaptation/NfcAdaptation.cc` | HAL handle, condition variables | initialise, start-up/shut-down of the threads, HAL callbacks | signal before wait |
| NCI framing | `nfc/nci/*.cc` | the command being built, the message being reassembled | build commands, segment, reassemble, dispatch | fragments lost or out of place |
| NFC command and data flow | `nfc/nfc/nfc_ncif.cc`, `nfc_task.cc` | command window, command queue, response timer, credits per connection | check_cmd_window, process_event, send_data, proc_credits, time-outs | late responses, credit accounting |
| NFC core | `nfc/nfc/nfc_main.cc` | nfc_state, flags | enable, disable, HAL events, discovery, deactivation | races of power-off with a response |
| LLCP link | `nfc/llcp/llcp_link.cc`, `llcp_main.cc`, `llcp_sdp.cc` | link state, symm_state, timers, sig and UI queues | activation, SYMM, LTO, deactivation, SDP, UI PDUs | both sides waiting, loss, late frames |
| LLCP data link connection | `nfc/llcp/llcp_dlc.cc`, `llcp_util.cc`, `llcp_api.cc` | tLLCP_DLCB, congestion, receive queues | connect, data, RR/RNR, disconnect, local busy | windows, acknowledgements, crossing releases, no buffer |
| Tag protocols | `nfc/tags/*.cc` | per tag type state and sub-state | read, write, NDEF detection, presence checks, retries | retransmission, time-outs, partial writes |
| NDEF utilities | `nfc/ndef/ndef_utils.cc` | none | parse, validate, add and remove records | length arithmetic |
| NFA system | `nfa/sys/*.cc` | registered subsystems, timers | registration, disable, event dispatch | ordered shutdown |
| NFA DM | `nfa/dm/*.cc` | discovery state, flags, subscriptions | RF discovery state machine, activation, deactivation, exclusive RF, NDEF handlers | two deactivations at once, time-outs |
| NFA EE and HCI | `nfa/ee/*.cc`, `nfa/hci/*.cc` | EE states, routing tables, gates and pipes | discovery, routing, HCI start-up, commands and responses | restart of the NFCC, pending commands |
| NFA P2P, CE, RW | `nfa/p2p`, `nfa/ce`, `nfa/rw` | connections, listen entries, current operation | API and callback handlers | congestion, activation races |
| Utilities | `utils/*.cc`, `adaptation/CrcChecksum.cc`, `debug_nfcsnoop.cc` | ring buffer, configuration | insert, pop, parse | wrap around |

"Hard to test" is listed at the code's lines under "hazards" in
`PROJECT.json`. What makes a component correct:

- **Data link connection**: every SDU arrives once and in order, windows and
  N(R) hold, an orderly close loses nothing, congestion ends.
- **LLCP link**: one device has the turn, a live link is watched by a timer, its
  end is reported once and reaches both sides, requests are answered.
- **NFC task**: at most one command outstanding, a closed command window opens
  again, the HAL and the stack never write at once, a request is answered once.
- **NFA DM discovery**: host and NFCC agree on the discovery state, no wait is
  without an end, activations and deactivations are reported in pairs.
- **GKI**: a buffer is owned once, timers expire in order and not early, no
  event is lost. **Adaptation**: no signal is lost before its wait.
- **EE, HCI, CE**: one update or command at a time, a pending one is finished or
  reported when the NFCC restarts.
- **Tags and NDEF**: a write that fails halfway leaves no valid length, a
  response is matched with its command, lengths never exceed the message.

## 2. The modules

All modules follow one scheme. The NFC task is single threaded, so the state of
a device is **one record** with the field names of the C control block, and a
handler is an **operator from that record to the next**, written in the order of
the code; an action applies one handler completely. Where threads really
interleave (`Gki`) each critical section is an action of its own. What surrounds
the code is a record `env`, chosen in `Init` from the constant `Environments` and
never changed: which calls, losses and late events are allowed, thresholds, and
the bounds. One TLC run therefore checks several small environments, and theorems
hold for any set of them. Ghost fields are named in each module's header.
`XXX_Yyy` operators marked "Faulty variant" are not part of a specification:
they are plausible bugs, each of which breaks the property it is listed with.
The map of `PROJECT.json` lists the definitions that translate functions and state with
their lines; named constants, record types and small selectors, whose lines those
stand for, have the names of the source and are not listed.

| Module | Code | State | Actions |
|---|---|---|---|
| `LlcpDlc` | `llcp_dlc.cc`, with the parts of `llcp_api.cc`, `llcp_util.cc`, `llcp_link.cc` below and above it | `node[n]`: `tLLCP_DLCB` of each device, its queues, `symm_state`; the frame in flight `out` | one per API call, per PDU received, the end of a frame, time-out, link loss |
| `LlcpLink` | `llcp_link.cc`, `llcp_main.cc`, `llcp_sdp.cc`, link part of `llcp_api.cc`, `NFA_P2pSendUI` | `node[n]`: `tLLCP_LCB`, SDP, logical links; `carrier`, `session` | API calls, frames, three timers, RF end, interface error |
| `NfcNcif` | `nfc_ncif.cc` (commands), `nfc_main.cc`, `nfc_task.cc`, `nfc_vs.cc`, the command half of `nci_hmsgs.cc`, `nci_hrcv.cc` | `nfc_cb`; `hal`: the HAL, the NFCC and the mailbox between (external) | mailbox, transport ready, timer, the API of the core, call-backs of the HAL thread |
| `NfcConn` | `nfc_ncif.cc` (data, credits), `nfc_utils.cc`, connections of `nfc_main.cc`, the data half of `nci_hmsgs.cc` | `nfc`: `conn_cb`, queues, the deactivation that waits; `nfcc`, `app` (external) | send, credits, reassembly, create, close, deactivate, flush, power cycle |
| `NfaDmDisc` | `nfa_dm_discover.cc`, discovery part of `nfa_dm_act.cc`, presence check of `nfa_rw_act.cc`, shutdown of `nfa_sys_main.cc`, discovery calls of `nfc_main.cc` | `host`: `disc_cb`, flags of `nfa_dm_cb`, RW, NFC core; `nfcc` and `up` (external) | message from the NFCC, deactivation timer, shutdown steps, API calls |
| `NfaHci` with `HciTables` | `nfa_hci_*.cc`, `libmain.cc` (flash) | `h`: `tNFA_HCI_CB`; `HciTables`: gates and pipes; `net` (the host controller and the other hosts, external), `app` | messages of the task, timers, EE discovery, mode set, raw responses, requests, power cycle |
| `NfaRw` with `RwT1t`, `RwT2t`, `RwT3t`, `RwT4t`, `RwI93`, `RwCommon` | `nfa_rw_*.cc`; `rw_t1t*.cc`, `rw_t2t*.cc`, `rw_t3t.cc`, `rw_t4t.cc`, `rw_i93.cc` | `host`: `nfa_rw_cb` and the control block of the tag type; `tag`: its memory (external) | requests, activation, answers per tag type, retries, RF and interface errors, presence timers, sleep and wake-up |
| `NdefStore` | none: the promise of `NFA_RwWriteNDef` and `NFA_RwReadNDef` | `content`, `wanted`, `result`, `locked` | the message is replaced, removed, or nothing changes |
| `Gki` with `GkiBuffer`, `GkiTime` | `gki_buffer.cc`, `gki_time.cc`, `gki_ulinux.cc`, the loop of `nfc_task.cc`, `nfc_start_timer` and `nfa_sys_ptim.cc` | `com`: `gki_cb.com`; one program counter per thread | every lock section of NFC_TASK, the tick thread, two senders and the application that shuts down |
| `LlcpDlcProofs`, `LlcpDlcOrderProofs`, `LlcpLinkProofs`, `NfcNcifProofs`, `NfcNcifWindowProofs`, `NfcNcifReportProofs`, `NfaDmDiscProofs`, `GkiProofs` | proofs, section 4 | | |

`NfaRw` implements `NdefStore` (`INSTANCE ... WITH` the message a reader of the tag
would find as `content`): the property `NdefAtomic`. `Gki` uses `GkiBuffer` and
`GkiTime` as operators on `com`; `NfaHci` uses `HciTables` the same way; `NfaRw` calls
the five tag modules as `nfa_rw_act.cc` calls the `RW_` functions.

`MCxxx` modules name the environments; the `.cfg` files choose a set of them.
The modules overlap on purpose only at their edges: `LlcpDlc` takes the link as
two devices that exchange frames, `LlcpLink` takes connections as absent,
`NfaDmDisc` sees of the NFC core the command queue that `NfcNcif` models in full,
`NfcConn` sees of it the command in flight, `NfaHci` takes NFA EE's discovery and
mode set as answers that come.

Abstractions. PDUs and packets carry a type, sequence numbers and an ordinal
instead of data; tag memories are bytes, since lengths, TLVs and lock bits decide
what happens; thresholds are small numbers; a buffer allocation succeeds or not as
the constant `PoolOutcomes` says (`LlcpDlc`, `NfcNcif`; the runs have `{TRUE}`, the
proofs any). `LlcpLink` has no data link connections, buffers are never exhausted,
a frame is one NCI packet, the upper layer does not call the API from a call-back,
DTA mode and the first-packet event are left out. `NfaDmDisc` leaves out exclusive
RF control, P2P priority logic, Kovio tags, low power listening, ETSI reader mode
and the HAL's prediscover (which `NfcNcif` has). `NfaHci` leaves out the low power
mode and its restore, EE recovery, discovery stopped and started for the host,
chained packets (with their time-out, `nfa_hci_main.cc:1500`), the list of gates of a
host, sessions reset by the configuration or by the check of the secure element's tables
(`nfa_hci_main.cc:1409`), and the JCOP and Gemalto variants; it assumes that flash is
read before the EE discovery ends, that an NFCEE has the id of its host, that the
NFCEE of the host controller is active (`nfa_hci_main.cc:897`) and that an
application finds a free entry to register (`nfa_hci_act.cc:329`).

Smaller omissions, each a branch of a function that is modelled otherwise.
`NfcNcif`: a CORE_RESET answer of another length than those of NCI 1.0 and 2.0
(`nfc_ncif.cc:2567`, `2615`); how often a corrupted CORE_INIT is tried again is left open;
the ETSI reader's DISCOVER answer (892); the gid and oid by which a raw vendor answer
is filtered (3068-3108); what a time-out does to discovery, HCI and queued data
(318, 389-412). `NfcConn`: the credit added after a CORE_RESET (501-507), I2C
fragmentation and blocked wired mode (508, 544), the timer that waits for credits on
connections other than RF (626), the cap on credits of debug builds (1397).
`LlcpLink`: `is_sending_data` (`llcp_link.cc:885`), which matters only to a call-back that
calls the API. `NfaDmDisc`: discovery restarted after an unknown protocol
(`nfa_dm_discover.cc:2438`).

## 3. The runs

Twelve runs, one per question. States are the distinct states TLC finds.

| Run | Environments and bounds | States | What it shows |
|---|---|---|---|
| `dlc` | 5: four SDUs one way with a window of 2 and every call, time-out and link loss; 5 SDUs (modulus 4: numbers wrap); two connections closed by either side; both ways with local busy and the smallest thresholds; orderly, for liveness | 179,000 | `InSequence`, `HalfDuplex`: windows, numbers, acknowledgements and the turn; `DeliveredAsTold`: what the upper layer is told is so; `CongestionEnds`, `DataAcknowledged` |
| `llcp_link` | 6: either side deactivates, RF lost, over two RF connections; refused parameters and interface errors; UI data on two logical links with overall congestion; service requests | 171,494 | `LinkKept`: one turn, and a link that is up is watched; `OneReport`; ends, requests and congestion complete |
| `ncif` | 14: every call and request of the HAL; vendor and raw commands, NCI 1.0; lost responses, resets, a failing open; errors while starting; a refused CORE_INIT or CORE_RESET; late answers; a disable while opening; at most 3 vendor commands, 5 calls, 2 faults | 138,272 | `ChannelOwned`: at most one command outstanding, none while the HAL has control; `WindowReopens`; `AnswersMatch`, `OneReportInTime`; `RequestAnswered`, `QueueDrains` |
| `nfc_conn` | 18: messages of 1 to 3 segments under one to three credits, which come back singly or two at once, or without flow control; three kinds of connection, reassembly that fits a small buffer, a large one or none, deactivation by host and peer, flush, power cycle, refusal, a missing buffer | 66,216 | `MessagesIntact`, `DataBeforeDeactivation`, `Served` |
| `nfc_conn_swap` | two creations, one closed in between | | violation of `ConnIsOwn` |
| `nfa_dm_disc` | 11: below; at most 5 calls, 2 messages or commands while the field is active | 23,239 | `InStep`: no wait without an end, host and NFCC agree; `RspAwaited`; `ActivationsPaired`; `ShutdownGraceful`, `CallsAnswered` |
| `nfa_dm_late_check` | a check whose notification is late | | violation of `CheckAnswered` |
| `nfa_rw` | 37: five tag types, static, dynamic, blank, with lock and memory TLVs; two requests of any kind; up to two faults at any moment | 71,927 | `NdefAtomic` (refinement), `ReadIsTrue`, `OneAnswer`, `RequestsAnswered` |
| `gki` | 10: two senders and pools that run out; timers of three lists, the tick stopping and starting, the tick counter wrapping at 8; shutdown at any moment and a restart | 156,236 | `BuffersConserved`, `NotEarly`, `TasksServed`, `TimersServed` |
| `gki_shutdown` | a shutdown with a timer running | | violation of `ThreadsShutDown` |
| `nfa_hci` | 18: the start with losses and refusals, requests on pipes, hosts that clear, delete, create and command, deregistration, a secure element, static pipes, power cycles | 144,591 | `OneAtATime`, `GatesAndPipes`; `RestingAgrees`: tables, network and flash agree at rest; `CallsAnswered`, `StartupEnds` |
| `nfa_hci_cleared` | a host clears its pipes during a creation | | violation of `AnsweredWhateverComes` |

The bounds are the smallest at which each hazard occurs: sequence numbers wrap,
a window fills, a second connection meets the remains of the first, two
commands queue behind an outstanding one, two RF connections follow each other,
a retry is used up, a pool runs out, the tick counter overflows. Each property is
broken by a mutant of the code under the run's own bounds, so none holds because
its case never happens. Deadlock is not checked: a stack that is switched off, or
has used its bounded calls, rightly stops.

Properties restricted to some environments say so in their definition: `NoRecovery`
and a window of one (`ChannelOwned`), `Timely` (reports) and `Addressed` (vendor
answers) in `NfcNcif`, the mark of a last segment with credits one at a time and no
missing buffer (`MessagesIntact`), first-PDU delay above 0 and
`ClosesRefused` (`LinkKept`, `OneReport`), answers in time (`DeactivationCompletes`), no
data offered before the link (`UiCongestionEnds`), a patient application, which
makes one call at a time (`CallsAnswered` and `ShutdownGraceful` of `NfaDmDisc`),
`Undisturbed` and `Excused` (`NfaHci`), `raced`, `missed` and `stale` (`Gki`), `doubt` after a
failed write (`ReadIsTrue`). Section 5 tells what happens otherwise.

`nfa_dm_disc` has a patient reader of one tag (`reader`, `mifare`), several tags
(`selector`), a lost link (`loser`), a tag that does not sleep (`refuser`), a
late notification (`late`), listening (`listener`), polling switched off
(`poller`), and applications that do not wait for answers (`hasty_...`).

### Fairness

- `LlcpDlc`: each device keeps receiving frames (the symmetry procedure sends
  a SYMM when there is nothing else), the application answers a connection
  request, reads what it was told of, and is not busy for ever. The first is
  what `LinkKept` says of the link below, the others are demands on the
  application: the code has no time-out for them.
- `LlcpLink`: a frame in flight arrives or the link timer expires, RF ends are
  reported, RF activation completes, the application reads.
- `NfcNcif`: the task takes what is in its mailbox, a started timer expires, the
  HAL completes the calls made to it (as its call-backs promise). A lost
  response is a fault, not unfairness.
- `NfcConn`: the same task, timer and NFCC, which forwards data and gives credits.
- `NfaDmDisc`: the task takes its messages, the NFCC answers commands and sends
  the notifications it owes, a started timer expires, other modules shut down.
- `NfaRw`: the task finishes what it does, the tag or the timer answers, a started
  timer expires, NFA DM wakes or deactivates the tag it was asked to.
- `NfaHci`: the task takes its messages, packets are delivered, NFA EE answers,
  timers expire, the host controller answers what it was sent and did not lose.
- `Gki`: each thread goes on when it is not blocked: the scheduler's promise.

Most fairness conditions are written `[]<>~due \/ []<><<A>>_vars`, which is `WF_vars(A)`
with its guard spelled out; where several actions take turns (`LlcpDlc`, `LlcpLink`)
it is `[]<>P` for a state predicate P that they make true. `NfaDmDisc` has strong
fairness for its timer, because the field may come and go before it expires.

## 4. Proofs

TLC checks small instances; these theorems hold for every value of the
constants, under the named assumptions of the modules they extend
(`NodeAssumption`, `SeqAssumption`, `SapAssumption`, `WindowAssumption`,
`EnvAssumption`, `TickAssumption`), which only give the constants their types and
which TLC evaluates in the runs.

| Theorem | Module | Statement |
|---|---|---|
| `TypeCorrect`, `HalfDuplexKept` | `LlcpDlcProofs` | `Spec => []TypeOK`, `Spec => []HalfDuplex`: any modulus, environments, lack of buffers |
| `DataAnnounced` | `LlcpDlcProofs` | `Spec => [](Buffered => DataIndicated)`: where no buffer is missing |
| `WindowKept` | `LlcpDlcOrderProofs` | `Spec => []WindowRespected`: any modulus, environments, lack of buffers |
| `DataInSequence`, `ToldTrue` | `LlcpDlcOrderProofs` | `Spec => [](Reliable => InSequence)`, `Spec => [](Reliable => DeliveredAsTold)`: any modulus, windows, calls, numbers of connections, SDUs and link losses; no buffer missing, no data link time-out |
| `LinkIsKept`, `ReportedOnce` | `LlcpLinkProofs` | `Spec => []LinkKept`, `Spec => []OneReport`: any number of logical links, thresholds and bounds |
| `TypeCorrect`, `ChannelIsOwned` | `NfcNcifProofs` | `Spec => []TypeOK`, `Spec => [](Undisturbed => ChannelOwned)`: no recovery, no refused start |
| `ClosedWindowReopens` | `NfcNcifWindowProofs` | `Spec => [](Calm => WindowReopens)`: one command at a time, no recovery, no refused start |
| `AnswersAreMatched`, `ReportedInTime` | `NfcNcifReportProofs` | `Spec => []AnswersMatch`, `Spec => OneReportInTime`: any window, lost answers, a refused CORE_INIT, resets and what the application does meanwhile; a refused CORE_RESET is not `Timely` |
| `TypeCorrect`, `ResponseComes` | `NfaDmDiscProofs` | `Spec => []TypeOK`, `Spec => []RspAwaited`: any calls in any order, modes and behaviour of the field and the NFCC |
| `BuffersKept` | `GkiProofs` | `Spec => []BuffersConserved`: any pools, messages, numbers of calls |

Every proof has the same shape. The handlers are operators from a control block
to the next, so there is one lemma per operator about what it keeps, one per
action that combines those of the operators it calls, one step per disjunct of
`Next`, and PTL at the end. The operators call each other as the functions of the
code do, so the lemmas follow the call graph from the leaves upwards.

**`LlcpDlcProofs`.** The inductive invariant is `TypeOK /\ HalfDuplex` with the
type of the environment; `HalfDuplex` alone is not inductive because a handler
that is not known to return a control block may return anything. Every operator
leaves `symm_state` and `out` alone (`Stays`) or, called with the turn, sends one
frame and gives the turn away (`Sent`). A handler of a received PDU runs without the
turn and cannot send; the end of a frame, the timer and an API call send at most once.
`DataAnnounced` needs that `num_rx_i_pdu`, which decides whether new data is
announced, is the number of SDUs that wait: `Counted` gives the sum over the queue as
a function, which the proofs extend and shift as the queue changes, instead of a
recursion. Without a buffer the counter includes what was dropped (section 5).

**`LlcpDlcOrderProofs`.** That the next I PDU to arrive has the number V(R) says nothing
of the one behind it, so the invariant, `OInv`, has to describe everything on its way.
It reads of each device its `View` (the fields that number and count) and its `Stream`
(what is left of its frame, then its signalling queue: the PDUs in the order in which
the peer will read them; an I PDU gets its number when it enters a frame). `Local`
holds of a device in every environment and gives `WindowKept`. `Joint` holds of both
where the environment is `Reliable`. It splits the life of a connection into seven
phases: `Nobody`, `Invited`, `Lone` (the server confirmed, the client does not know or no
longer wants it), `Confirmed` (the CC is on its way), `Joined`, `ServerCloses` and `ClientCloses` (one side
has gone, its answer to DISC is on the way). Each says which kinds of PDUs a stream may
hold and what may follow what (`After`): a late DM, a CONNECT behind the DISC of the
connection before. In the phases with data `Order` says that the I PDUs of a stream
are exactly the SDUs the peer has not received, each with its number; `Numbers` that,
counted from V(SA), every N(R) on its way, V(RA), V(R) and V(S) do not decrease, from
which the checks of N(S) and N(R) succeed although all of them wrap; `Complete` that
the upper layer was told no more than the peer received. `Order`, `Rising` and `After` quantify over
positions and pairs of positions of a stream, so that one lemma per way a stream can
change (read the head, append a PDU of a kind, lose everything) replaces an induction.
A step is then one of a few changes of one view and one stream (`Goes`), proved once
per phase, and each operator of the model is shown to make such a change. A loss of
the link at any time empties both streams and both connections.
`Reliable` asks for two things. A buffer for every PDU: an I PDU taken out of an AGF PDU
is acknowledged and then dropped otherwise (section 5). No data link time-out: a device
that forgets an attempt whose CONNECT or CC is still on its way meets its answer in the
next attempt; with data both ways, time-outs on both sides and three attempts TLC finds `InSequence` and
`DeliveredAsTold` violated. Four of the five environments of `dlc` are `Reliable`.

**`LlcpLinkProofs`.** `LinkInv` is the conjunction of three things per device and one
for the pair. `Sound`: what the control block of a device says about itself: a
call-back only while RF is on, a DELAY_FIRST_PDU timer only with the turn, no
report while the link is up. `Watched`: a link that is up has a timer, a frame
being received, or the loss of RF ahead. The pair: `ShareIn`, 1 for the device that
has the turn or a frame on its way, adds up to 1; "at most one" would not be
inductive, since a device that answers a frame needs to know that the other has no
turn. Some API functions process queues with loops over the logical links:
the module proves first, from the well-foundedness of the naturals, that
a recursive function on `0..n` is what its equation says and that a property of
its values follows by induction (step as a function, property as a set), which
the provers can instantiate.

**`NfcNcifProofs`.** `ChannelOwned` says that at most one command is outstanding and
that the HAL has the channel exactly when it was given control. This is not
inductive: a response must open the window only if it is the one that is awaited,
so the invariant has to know which packets can still arrive. `IInv` is `TypeOK` and,
in a calm environment, `Chan` and `Phase`. `Chan` names the owner of the channel:
nobody (`Free`), the stack (`Busy`: one command at the NFCC or one answer in the
mailbox, with the header the stack remembers), the HAL (`Lent`: at work, or its
message that ends it is in the mailbox), or nobody for good (`Lost`, the transport is
closed). `Phase` says what start and stop are doing (`Opening`, `Opened`, `Failed`, `Closing`,
`Off`, `Running`), from which follows which events of the HAL can be in the mailbox: a
late `OPEN_CPLT` would reset the window. Lemmas compare a pair (stack, HAL) before
and after with `Near`, `Step`, `Idle` (for handlers) and `Kin`, `Twin`, `Same` (for the HAL).
`NoRecovery` is needed, not convenient: with a lost response the HAL sends the
command again and the late first answer is a second one, and a window above one
counts the DISCOVER response of a recovery twice (section 5). TLC finds both when
the antecedent is dropped. `Undisturbed` also asks that no start is refused: the run has
`ChannelOwned` with refused starts, the proof does not.

**`NfcNcifWindowProofs`.** By `IInv` a closed window is with the HAL, or with a
response that is not read, or with a command that the NFCC has not answered. In the last
case `WindowReopens` asks that the response timer runs, and one handler stops it
whatever it was started for: that of the CORE_RESET notification, which an NFCC
of NCI 2.0 sends after the response and which the timer of the response awaits
(`nfc_ncif.cc:2366`, `2416`). `WInv` adds `Boot` to `IInv`: from the CORE_RESET to its
notification nothing is queued, no discovery is pending and the stack is still in
CORE_INIT or given up (`Early`), so nothing is written; the notification comes once, after
the response, and no other answer is unread meanwhile (`Booting`); no CORE_RESET is
written elsewhere (`NoReset`); and a command without its answer is timed (`Watched`). The handlers
are compared before and after with `Mild`, which keeps `Watched` and `NoReset`, and
`Steady`, which keeps `Early` as well. `Calm` is what `ChannelOwned` assumes (a window
of one, `NoRecovery`, and no refused start): where the HAL recovers from a lost response, that the window
reopens is only model-checked, and some power cycles break it (section 5).

**`NfcNcifReportProofs`.** That a report answers the last request, and once, is not
inductive: whether a message in the mailbox makes the stack report depends on when
it was sent, and the stack does not look. `CourseKept` is `TypeOK` and, in a
`Timely` environment, `Course`: the stack is in one of ten situations (off,
opening, starting, trying a corrupted CORE_INIT again, failing, waiting for the HAL's own
initialization, idle, closing, asleep, failed). Each fixes the request and the report, the flags that say why the
stack starts or stops, the state of the transport, and what can still come. While
the stack starts, one thing comes next if anything does: the response to CORE_RESET
(`ResetSent`), its notification (`NtfDue`), the response to CORE_INIT (`InitSent`), or
nothing (`Stuck`, for what was lost). When it is idle nothing of the start is left in
the queue, in the transport, with the HAL or in the mailbox (`Pure`, `Harmless`), so
the vendor and discovery traffic, with losses and resends, changes neither the
situation nor the report (`Tame`). This holds for every command window. `Timely` leaves out
what makes it false: an answer after its time-out, an error reported by the HAL, a
disable before the stack has started, a CORE_RESET that is refused, and a restart from
sleep that fails (section 5). A refused CORE_INIT is in: it is reported when the
transport has closed, or tried again.

The other half of `AnswersMatch` is about the one call-back that the stack keeps for
vendor commands. `VendorKept` stands on `IInv`, which says who has the channel, and
adds `Matched`: the command outstanding, or its unread answer, belongs to the
call-back that is set, and the flag of a raw vendor command is set only while its answer
can come. A handler that has taken an answer out of the mailbox is `Taking`, one that
may write is `Attended`. `Addressed` asks for a window of one, no recovery, no refused
start (for the proof only), and no raw command outstanding at a power cycle: TLC finds
the counterexamples to the others.

**`NfaDmDiscProofs`.** `RspAwaited` says that W4_RSP, which holds back every later
command, is set only while a command is outstanding. The flag does not say which
command set it, and in most states only the response of a deactivation clears it, so
that something is outstanding is not inductive. `Due` says what is: a deactivation
is among the commands not yet answered, or the state machine is in IDLE, where the
response of DISCOVER clears the flag too, and a DISCOVER is outstanding or pending.
`Weak` ties a pending discovery to a command whose response issues it, and `Answers`
the messages of the NFCC to the commands: one response at most, that of the
first command. A handler is a function of the task's state, with k = 1 while it
handles the response of the first command and 0 otherwise; each lemma says that it keeps
`Good`, `Weak` and `Due` together, and `Aside` collects the assignments that matter to
neither.

**`GkiProofs`.** `BufInv`: the set of buffers is the disjoint union of the free
lists, of what each thread has in its hands (which its program counter tells) and of
the linked ones, each linked once (`Owned`), with the status that says so, and a
pool's `cur_cnt` counts those that are not free. The timer code is proved to
touch no buffer.

**Only model-checked.** Liveness under fairness, and ENABLED. What `NfcConn` says
(three RECURSIVE operators, for the segments of a message) and `NfaRw` and the tags
(one in `RwCommon`): the prover has no SMT in modules that declare one.
`InSequence` and `DeliveredAsTold` of `LlcpDlc` with early time-outs of a single attempt
(environment `one_way`); with several attempts, or without buffers, they are false. `WindowReopens` where the HAL
recovers: false in some environments the runs leave out (section 5, power cycles and
restarts from sleep). `NotEarly` of `Gki`,
`InStep` and `ActivationsPaired` of `NfaDmDisc`: false when an application that
does not wait meets every behaviour of the field at once (section 5), so not
theorems for all environments; the part of `InStep` about W4_RSP is, `ResponseComes`.
`GatesAndPipes` of `NfaHci`: false for some environments the run leaves
out (`AddStaticPipe` gives a pipe another gate and the old one keeps its mask bit; a full
table releases a gate that has pipes, a late response creates a pipe of another gate).
`OneAtATime` and `RestingAgrees` of `NfaHci`, `ShutdownGraceful` of `NfaDmDisc`: not proved.

## 5. Where the code departs from what it says

Four runs end in a violation of something the code's own documentation says:

- `nfa_dm_late_check`: the timer of a deactivation ends a presence check without
  answering it.
- `nfc_conn_swap`: two pending creations of a connection swap their answers when the
  first is closed (`nfc_utils.cc:123`, `nfc_ncif.cc:2212`).
- `gki_shutdown`: a timer event read with the shutdown event hides it
  (`gki_ulinux.cc:732`, `nfc_task.cc:427`): the task does not stop.
- `nfa_hci_cleared`: a host that clears its pipes during a request leaves the
  request without an answer.

Configurations that reproduce others and are not among the runs:
`LlcpDlcBusyRead.cfg` (reading while locally busy leaves `is_rx_congested` set with an
empty queue, `llcp_api.cc:1205` against `llcp_int.h:212`), `NfcNcifIdleQueue.cfg` (the
DISCOVER response of a recovery opens the window and does not look at the queue,
`nfc_ncif.cc:913`), `NfcNcifEarly.cfg` (a disable between the open of the transport and
its event is forgotten, `nfc_task.cc:430`, `nfc_main.cc:692`), `NfcNcifRefused.cfg` (a start
whose CORE_RESET is refused is reported with the HAL still closing,
`nfc_ncif.cc:2431-2446`), `NfcConnPbf.cfg` (the first segment of a long message is marked
as its last, `nfc_ncif.cc:495`, `559`), `LlcpLinkStaleDisc.cfg` (a DISC
never sent survives into the next link, `llcp_link.cc:352`), `NfaRwT3tWrite.cfg` (a raw
T3T write is answered with the wrong event, `rw_t3t.cc:1469` against
`nfa_rw_api.cc:753`), `NfcConnRaw.cfg` (`NFC_SetReassemblyFlag` is undone by every
fragment, `nfc_ncif.cc:2894`), `GkiTickRace.cfg` (a timer started while the tick thread
looks at its condition never expires, `gki_ulinux.cc:551`).

Met while modelling, from reading the code and traces of TLC:

- *Data link connection.* A DM that answers an old DISC is taken as the rejection
  of a new CONNECT (`llcp_dlc.cc:864`). A disconnect with flush leaves I PDUs behind the
  DISC (`llcp_dlc.cc:413`, `llcp_api.cc:1295`). Without a buffer: a CONNECT stays counted
  (`llcp_api.cc:945`), an RR is lost after V(RA) moved (`llcp_util.cc:814`), a
  received I PDU is counted though dropped (`llcp_dlc.cc:1054`).
- *NFC task.* A CORE_RESET that is refused: `NFC_Disable` takes the stack out of
  CORE_INIT before `nfc_enabled` looks at the state, so the failure is reported while
  the HAL closes, and CLOSE_CPLT reports it again (`nfc_ncif.cc:2431-2446`,
  `nfc_main.cc:482-485`); where the refusal is silenced (`core_reset_init_num_buff`, 2433) it
  is not reported at all. A lost CORE_RESET notification has no timer (`nfc_ncif.cc:168`, `2414`). A
  raw vendor command takes a stray notification for its answer (`3068`), its flag
  and call-back survive a power-off or a power cycle (`nfc_main.cc:412`): the next
  start's CORE_RESET response goes to that call-back, and with NCI 1.0 the start hangs.
  The answer to a DISCOVER that the HAL sends again opens the window while the
  vendor command it also sends again is outstanding: the next vendor command gets
  the answer of that one. With `NCI_MAX_CMD_WINDOW` 2 and NCI 1.0 the response to
  CORE_RESET clears the header remembered for CORE_INIT, and the response to that is
  dropped: the start hangs. A late vendor
  answer goes to the next call-back (`nfc_ncif.cc:891`). A request of the HAL for
  control is swallowed by a discovery (`766`). A discovery may be pending without
  parameters (`nfc_main.cc:1117`). A failure to open is reported with the HAL open
  (`378`), an early error twice (`580`). POWER_OFF_SLEEP means two things (`246`), a
  second wake-up is not answered (`371`). With `NCI_MAX_CMD_WINDOW` 2 the DISCOVER
  response of a recovery counts twice, and in NCI 2.0 the reset notification of a
  recovery stops the timer of a CORE_INIT. `NFC_Disable` in the middle of a power
  cycle: `nfc_task_shutdown_nfcc` reopens the HAL because POWER_CYCLE_NFCC is set, and the
  event of the first opening writes a CORE_RESET to a transport that is not open. A
  restart from sleep that fails keeps the HAL open and the window closed; the next
  restart's CORE_RESET is never written and no timer runs. POWER_OFF_SLEEP stays set
  as well, and a disable after that is reported as a power-off.
- *RF discovery.* With all calls in any order, a listening entry and a field that
  does everything, which no run combines: polling disabled while the NFCC listens, a
  deactivation in LISTEN_SLEEP and the loss of that link send two deactivations, and
  W4_NTF stays set (`WaitsAreReal`); a sleep, a stop and the loss of the link leave the
  host in IDLE and the NFCC in W4_HOST_SELECT (`StatesAgree`); a tag that the
  application selects during a presence check is reported as a second activation.
- *LLCP link.* NFA marks a SAP as congested without a link, LLCP does not
  (`nfa_p2p_api.cc:531`). NFC_ERROR_CEVT reports a deactivation in any state. With
  `delay_first_pdu_timeout` 0 the initiator's first SYMM is sent without the link
  timer. A target that timed out answers SYMM for ever (`llcp_link.cc:1618`). If an
  initiator sends a stale DISC the target deactivates and the initiator stays
  activated. `LLCP_DeactivateLink` accepts a link whose activation failed
  (`ClosesRefused`): no timer watches its DISC and its end is reported again.
- *Connections.* `pbf` is set once per call of `nfc_ncif_send_data`, cleared by a last
  segment and never set again: when the call goes on to a long message behind another
  (two credits at once, `nfc_ncif.cc:1396`, no flow control, or what a missing buffer left
  queued), that message's first segment is marked as its last (495, 559-565,
  630-633). DEACTIVATING and its timer survive a deactivation by the NFCC
  (`nfc_ncif.cc:1931`, `445`). The last segment of a message that is too big is held until
  the next packet (`2946`). `NFC_FlushData` of a message partly sent (`nfc_main.cc:1321`).
  A refused creation writes `conn_id[0xFE]` (`nfc_utils.cc:165`, left out). Data
  that stays queued is reported as BUFFER_FULL (`nfc_ncif.cc:575`). Credits are an
  uncapped byte. A refused close frees the connection.
- *Discovery* (`nfa_dm_discover.cc`). A stop while a deactivation to SLEEP is in
  progress ends in W4_HOST_SELECT and is never acted on. LISTEN_SLEEP clears W4_RSP
  although its own command is in flight, and a DISCOVERY notification there does
  not look at STOPPING. A second discovery that is only pending is cancelled by a
  deactivation, with the stop or the shutdown that depended on it (a selection
  crossing a deactivation, or a late timer, gets there; hence the four calls of
  `hasty_selector` and the two of `late`). While CHECKING a lost link or three
  refused sleeps leave the check open, and the next activation is not reported or
  reported twice. A deactivation to DISCOVERY crossing the loss of the link, and the
  listen mode going to sleep, leave W4_NTF set. Where the code waits for a
  notification without the timer ("not matched", a stop crossing an activation), a
  lost notification ends discovery for good. A shutdown while a stop is in
  progress, or while a tag sleeps for a check, ends only by the shutdown timer.
  Disabling polling twice with an enabling between loses the second report. The
  environments of `nfa_dm_disc` keep to what does not reach these.
- *NFA RW.* A presence check, a raw frame or GET_SYSTEM_CODES while busy gets no answer
  (`nfa_rw_act.cc:2996` against `nfa_rw_api.cc:179`), and a raw frame ends the state of
  being busy. Making a T1T read-only is reported twice (357–391), or not at all when
  no NDEF TLV is found. A failed automatic presence check drops the pending request;
  the check's timer is started after an answer that already came (1830–1842).
  Detecting a TLV of another type leaves the module busy (1920). A T1T RID is never
  answered.
- *Tags, after a fault.* The tag modules retry a command a fixed number of times;
  what follows a second fault is where they go wrong. T1T: a late duplicate of a
  write is executed after the failure was reported; formatting a tag whose write
  was interrupted exposes the torn message. T2T: blocks 8–11 are
  skipped (`rw_t2t_ndef.cc:735`); the status of the soft lock is ignored (1765), after
  which the module is idle with a command in flight; a loop that does not end on
  some lock TLVs (1621–1650); a failed NDEF write leaves `ndef_st` set; a read that
  fails in the sector select is answered with SELECT_CPLT. T3T: a hard lock that
  finally fails is never answered, `rw_t3t_api_res_evt` has no entry for it
  (`rw_t3t.cc:105`); a soft lock after a failed write makes the torn message final. T4T:
  a read after a failed write returns part of the message. I93: several paths
  of a failed lock or format answer twice or not at all (`rw_i93.cc:1821`, `2140–2210`,
  `2556`). `OneAnswer` and `ReadIsTrue` name the cases they excuse.
- *GKI.* A timer started while the tick thread stops, and the EXIT condition
  overwritten by the tick's STOP (`gki_time.cc:391`, `gki_ulinux.cc:365`).
  `OSTicksTilExp` changes outside the lock (`gki_time.cc:375`). NFC timers expire up to
  three periods early by construction (`Earliest`), a protocol timer added while
  an update is overdue earlier still (`nfa_sys_ptim.cc:125`). Messages left in a mailbox
  at shutdown reach the next session (`gki_ulinux.cc:127`) and queued buffers are lost with
  the `memset` of `nfc_cb`. `GKI_getpoolbuf` returns NULL with the mutex held
  (`gki_buffer.cc:354`); `GKI_remove_from_queue` releases it before it dequeues (752). Timers
  of threads that GKI does not know go to a task that does not exist (`gki_time.cc:190`).
  `nfc_start_timer` runs without a lock (`nfc_task.cc:79`).
- *HCI.* `reset_host` is cleared only by a host list or a hot plug, so after
  CLEARED the requests on that host's pipes stay set aside (`nfa_hci_act.cc:1363`, `1542`,
  `1699`). Any packet stops the timer of the first HOST_LIST command
  (`nfa_hci_main.cc:1069`). A session set by a start that follows CLEARED is not flagged for
  flash (`1577`). `AddStaticPipe` steals a gate, or releases one that has pipes (1103–1141).
  A late response is given to the next command. The response with the host list
  runs a pending request before it is used (1704). A failed start never
  completes the enabling (`main 706–769`). The timeout of a raw command is never
  reported under NXP (`main 1641`). `release_transceive` calls the time-out handler from
  the application's thread (`nfa_hci_api.cc:1006`). A secure element's mode set waits for an
  ATR for ever once the timer is stopped. With a host controller of version 9 queued
  requests and the write to flash wait for the next packet (`Asleep`). An empty flash
  file never answers the read (`libmain.cc:93`).

## 6. Not modelled, and the plan

Every component with its status is in `PROJECT.json`. Not planned: configuration
files and formatting of packets (text and layout), headers, build files, debugging
aids; NDEF parsing is byte arithmetic over one buffer, better served by its tests.

Next proofs: `OneAtATime` of `NfaHci`; `InSequence` of `LlcpDlc` with time-outs of a single
attempt; `NotEarly` of `Gki`, for timers that are not started twice.

Next modules: `NfaEe` (the update of the routing table, discovery and mode set,
under `NfaHci`), `NfaCe`, servers and connections of NFA P2P over `LlcpDlc`. A
composition worth having is `LlcpDlc` over the turn taking that `LinkKept` proves.
