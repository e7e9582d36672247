------------------------ MODULE ConversationContract ------------------------
(***************************************************************************)
(* What the conversation of SolarConversation promises its user, without   *)
(* cards, questions, threads or a language model: every message or         *)
(* decision counts once, an answer moves the request between collecting,   *)
(* confirming and editing, and only cards that are all complete, and the   *)
(* ones the user said NO more changes to, are executed.                    *)
(***************************************************************************)
EXTENDS FiniteSets

CONSTANT Events

VARIABLES
    status,     \* of the current request, "NONE" without one
    accepted,   \* the client events it has taken
    complete    \* it has cards and every one of them is ready

vars == << status, accepted, complete >>

Init == status = "NONE" /\ accepted = {} /\ complete = FALSE

(* What is confirmed is complete; what is still collected may be, while a  *)
(* target is asked for.                                                    *)
Told == status' \in {"COLLECTING", "CHANGE_CONFIRMATION", "CHANGE_INPUT"}
        /\ (status' = "CHANGE_CONFIRMATION" => complete')

Open(e) ==
    /\ status = "NONE"
    /\ Told
    /\ status' # "CHANGE_INPUT"
    /\ accepted' = {e}

Accept(e) ==
    /\ status \in {"COLLECTING", "CHANGE_INPUT"}
    /\ e \notin accepted
    /\ Told
    /\ accepted' = accepted \union {e}

Decide(e) ==
    /\ status = "CHANGE_CONFIRMATION"
    /\ e \notin accepted
    /\ status' \in {"CHANGE_INPUT", "FINAL_REVIEW"}
    /\ accepted' = accepted \union {e}
    /\ UNCHANGED complete

Reopen ==
    /\ status = "FINAL_REVIEW"
    /\ status' = "CHANGE_INPUT"
    /\ UNCHANGED << accepted, complete >>

Execute ==
    /\ status \in {"FINAL_REVIEW", "FAILED"}
    /\ complete
    /\ status' = "EXECUTING"
    /\ UNCHANGED << accepted, complete >>

End ==
    /\ status = "EXECUTING"
    /\ status' \in {"COMPLETED", "FAILED"}
    /\ UNCHANGED << accepted, complete >>

(* A request is deleted at any time but while it is executed; what was     *)
(* executed is acknowledged.                                               *)
Forget ==
    /\ status \notin {"NONE", "EXECUTING"}
    /\ status' = "NONE"
    /\ accepted' = {}
    /\ complete' = FALSE

Next == (\E e \in Events : Open(e) \/ Accept(e) \/ Decide(e)) \/ Reopen \/ Execute \/ End \/ Forget

Spec == Init /\ [][Next]_vars

=============================================================================
