----------------------------- MODULE MCLlcpLink ----------------------------
(***************************************************************************)
(* LlcpLink in small environments.                                         *)
(***************************************************************************)
EXTENDS LlcpLink

InitiatorTarget(i, t) == [n \in Node |-> IF n = Initiator THEN i ELSE t]

(* Two RF connections; either device deactivates; RF is lost; an interface *)
(* error or refused parameters.                                            *)
Ends ==
    [name |-> "ends", uses |-> InitiatorTarget({"deactivate", "rfloss"}, {"deactivate"}),
     first_delay |-> TRUE, symm_delay |-> TRUE, inact |-> FALSE, late |-> TRUE,
     ll_tx_congest_start |-> 2, ll_tx_congest_end |-> 1, max_num_ll_tx_buff |-> 2,
     max_num_tx_buff |-> 4, ll_rx_congest_start |-> 1,
     max_agf |-> 1, max_ui |-> 2, max_sdp |-> 1, max_deact |-> 2, max_session |-> 2]
Refused ==
    [Ends EXCEPT !.name = "refused",
                 !.uses = InitiatorTarget({"refuse", "error", "ui", "ui_early"}, {"refuse"}),
                 !.first_delay = FALSE, !.symm_delay = FALSE, !.inact = TRUE,
                 !.max_ui = 1]

(* UI data on two logical links, with and without overall congestion, and  *)
(* service requests of both devices at once.                               *)
Ui ==
    [Ends EXCEPT !.name = "ui", !.late = FALSE, !.uses = InitiatorTarget({"ui"}, {"deactivate"}),
                 !.max_ui = 4, !.max_agf = 2, !.max_session = 1, !.max_num_ll_tx_buff = 3]
UiOverall ==
    [Ui EXCEPT !.name = "ui_overall", !.max_num_tx_buff = 2, !.max_agf = 1,
            !.ll_tx_congest_start = 1, !.ll_tx_congest_end = 0]
Services ==
    [Ends EXCEPT !.name = "services", !.late = FALSE,
                 !.uses = InitiatorTarget({"sdp", "rfloss", "deactivate"}, {"sdp"}),
                 !.max_sdp = 2, !.max_session = 1]

(* Closing by either device, every answer in time, one connection (a DISC  *)
(* left over from the one before ends only one side of the link).          *)
Closing ==
    [Ends EXCEPT !.name = "closing", !.late = FALSE,
                 !.uses = InitiatorTarget({"deactivate", "sdp"}, {"deactivate"}),
                 !.inact = TRUE, !.max_session = 1]

LinkEnvironments == {Ends, Refused, Ui, UiOverall, Services, Closing}
EndsOnly == {Ends}
=============================================================================
