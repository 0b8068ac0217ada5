---------------------------- MODULE MCNfaDmDisc ----------------------------
(***************************************************************************)
(* NfaDmDisc in small environments.                                        *)
(***************************************************************************)
EXTENDS NfaDmDisc

(* A patient application.  One tag after another, checked for presence     *)
(* (T2T, MIFARE); several tags to select from; a link that is lost; a tag  *)
(* that does not go to sleep; a notification that is late; listening       *)
(* besides polling; polling switched on and off.                           *)
Reader ==
    [name |-> "reader", calls |-> {"start", "stop", "check", "deactivate", "disable"},
     patient |-> TRUE, modes |-> {"poll"}, rf |-> {}, proto |-> "T2T", early |-> FALSE,
     max_calls |-> 5]
Mifare == [Reader EXCEPT !.name = "mifare", !.proto = "MIFARE"]
Selector == [Reader EXCEPT !.name = "selector", !.rf = {"multi", "abort", "interror"},
                    !.calls = {"start", "stop", "select", "sleep", "disable"}]
Loser == [Reader EXCEPT !.name = "loser", !.rf = {"linkloss"},
                 !.calls = {"start", "stop", "disable"}]
Refuser == [Reader EXCEPT !.name = "refuser", !.rf = {"refuse"},
                   !.calls = {"start", "sleep", "select", "stop"}]
Late == [Reader EXCEPT !.name = "late", !.early = TRUE,
                !.calls = {"start", "stop"}]
Listener == [Reader EXCEPT !.name = "listener", !.modes = {"poll", "listen"},
                    !.rf = {"linkloss", "sleeploss"}, !.calls = {"start", "stop", "disable"}]
Poller == [Reader EXCEPT !.name = "poller", !.modes = {"poll", "listen"},
                  !.calls = {"start", "disable_polling", "stop", "disable"}]

(* An application that does not wait for answers.                          *)
HastyChecker == [Reader EXCEPT !.name = "hasty_checker", !.patient = FALSE,
                        !.calls = {"start", "stop", "check"}]
HastySelector == [Selector EXCEPT !.name = "hasty_selector", !.patient = FALSE,
                          !.rf = {"multi", "reject"}, !.max_calls = 4]
HastyPoller == [Poller EXCEPT !.name = "hasty_poller", !.patient = FALSE, !.rf = {"reject"},
                        !.calls = @ \union {"enable_polling"}]

DiscEnvironments ==
    {Reader, Mifare, Selector, Loser, Refuser, Late, Listener, Poller,
     HastyChecker, HastySelector, HastyPoller}

(* A check whose notification is late.                                     *)
LateCheck == {[Late EXCEPT !.calls = {"start", "check"}]}
=============================================================================
