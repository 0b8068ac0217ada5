----------------------------- MODULE MCNfcNcif -----------------------------
(***************************************************************************)
(* NfcNcif in small environments, so that one run of TLC checks several.   *)
(***************************************************************************)
EXTENDS NfcNcif

Env(name, calls, faults, cmds, max) ==
    [name |-> name, nci_version |-> "2_0", user_cmds |-> {"VSC"}, calls |-> calls, faults |-> faults,
     max_cmds |-> cmds, max_calls |-> max[1], max_faults |-> max[2]]

(* Everything the application and the HAL may ask for, with a notification *)
(* nobody expects.                                                         *)
Window == Env("window", Call \ {"disable_early"}, {"stray"}, 2, <<4, 1>>)
(* Vendor commands, raw ones too, to an NCI 1.0 controller.                *)
Vendor == [Env("vendor", {"discover", "deactivate", "control"}, {}, 3, <<3, 0>>)
              EXCEPT !.nci_version = "1_0", !.user_cmds = {"VSC", "RAW"}]
(* Lost responses, a controller that resets, a transport that does not     *)
(* open: two of these.                                                     *)
Recovery == Env("recovery", {"disable", "discover", "deactivate", "cycle"},
                {"open", "lost_rsp", "reset"}, 1, <<4, 2>>)
(* Errors while the stack starts.                                          *)
Start == Env("start", {"disable", "discover", "cycle"}, {"error", "post_init", "lost_ntf"},
             1, <<4, 2>>)
(* Answers before, after or instead of the time-out, NCI 1.0.              *)
Late == [Env("late", {"disable", "discover", "deactivate", "cycle"}, {"slow", "lost_rsp"},
             1, <<3, 2>>) EXCEPT !.nci_version = "1_0"]
(* A disable while the transport is still opening.                         *)
Early == Env("early", {"disable_early"}, {}, 0, <<3, 0>>)

(* For liveness: a lost response or a transport that does not open; a      *)
(* discovery that waits for the HAL; a HAL that wants the window.          *)
LiveLost == Env("live_lost", {"disable", "deactivate", "cycle"}, {"open", "lost_rsp"}, 2, <<4, 1>>)
LiveDiscover == Env("live_discover", {"disable", "discover", "deactivate", "sleep", "cycle"}, {},
                    1, <<4, 0>>)
LiveControl == Env("live_control", {"disable", "control", "deactivate"}, {}, 2, <<5, 0>>)

(* A start the NFCC refuses: CORE_INIT, with a controller of either        *)
(* version; CORE_RESET, also after an error notification, or without one;  *)
(* for liveness.                                                           *)
RefusedInit == Env("refused_init", {"disable", "discover", "cycle"},
                   {"init_refused", "lost_ntf", "open"}, 1, <<4, 2>>)
RefusedInit10 == [Env("refused_init_1_0", {"disable", "discover", "cycle"},
                      {"init_refused", "lost_rsp", "open"}, 1, <<4, 2>>)
                     EXCEPT !.nci_version = "1_0"]
RefusedReset == Env("refused_reset", {"disable", "discover", "cycle"},
                    {"reset_refused", "init_refused", "reset"}, 1, <<4, 2>>)
RefusedStart == [RefusedReset EXCEPT !.faults = {"reset_refused", "init_refused"}]
LiveRefused == [Env("live_refused", {"disable", "discover", "cycle", "sleep"},
                    {"reset_refused", "init_refused"}, 1, <<4, 1>>)
                   EXCEPT !.nci_version = "1_0"]
NcifEnvironments == {Window, Vendor, Recovery, Start, Late, Early, RefusedInit, RefusedInit10,
                     RefusedReset, RefusedStart, LiveLost, LiveDiscover, LiveControl, LiveRefused}
RefusedOnly == {RefusedReset}
RecoveryOnly == {Recovery}
EarlyOnly == {Early}

-----------------------------------------------------------------------------
(* Liveness where at most one answer is lost and no timer is early: every  *)
(* request is answered; every queued command is written or flushed, a      *)
(* pending discovery issued or cancelled, and the HAL gets the window.     *)
Live == env.name \in {"live_lost", "live_discover", "live_control", "live_refused"}
RequestAnswered == (Live /\ nfc_cb.asked # "none" /\ nfc_cb.report = "none") ~> nfc_cb.report # "none"
QueueDrains ==
    /\ (Live /\ nfc_cb.nci_cmd_xmit_q # <<>>) ~> nfc_cb.nci_cmd_xmit_q = <<>>
    /\ (Live /\ "DISCOVER_PENDING" \in nfc_cb.flags) ~> "DISCOVER_PENDING" \notin nfc_cb.flags
    /\ (Live /\ InMbox("REQUEST_CONTROL")) ~> (hal.job = "granted" \/ nfc_cb.nfc_state # "IDLE")
=============================================================================
