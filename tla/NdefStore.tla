------------------------------ MODULE NdefStore -----------------------------
(***************************************************************************)
(* What writing an NDEF message promises (NFA_RwWriteNDef,                 *)
(* NFA_RwFormatTag): a tag always holds the old message, the new one or    *)
(* none, whatever happens while it is written; it changes only while it is *)
(* written; a success means that it holds the new one; and one that says   *)
(* it is read-only keeps its message.                                      *)
(***************************************************************************)
CONSTANTS
    Contents,   \* what a tag may hold
    Empty,      \* no message, one of them
    Nothing     \* not one of them

VARIABLES
    content,    \* the message on the tag
    wanted,     \* the message being written, or Nothing
    result,     \* what a writer was told in the last step
    locked      \* the tag says that it is read-only

Init == content \in Contents /\ wanted = Nothing /\ result = "NONE" /\ locked \in BOOLEAN

(* A request begins, or is refused.  A success may also be that of a write  *)
(* of a block without a message.                                           *)
Begin == wanted' \in Contents /\ result' = "NONE" /\ content' = content

Refuse == wanted' = Nothing /\ result' # "OK" /\ content' = content

Work == content' \in {content, Empty, wanted} /\ wanted' = wanted /\ result' = "NONE"

End ==
    /\ wanted' = Nothing
    /\ content' \in {content, Empty, wanted}
    /\ result' = "OK" => content' = wanted

Rest == wanted' = wanted /\ content' = content /\ (result' = "OK" => wanted = Nothing)

Next ==
    /\ locked => content' = content
    /\ IF wanted = Nothing THEN Begin \/ Refuse \/ Rest
       ELSE Work \/ End \/ Rest

Spec == Init /\ [][Next]_<<content, wanted, result, locked>>
=============================================================================
