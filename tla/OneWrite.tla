------------------------------ MODULE OneWrite ------------------------------
(***************************************************************************)
(* What a caller of the REST client may believe about a state-changing     *)
(* request, whatever happens on the network: the contract of ApiError's    *)
(* may_have_applied (src/entraadm_mcp/client.py:50-79, 389-416).           *)
(*                                                                         *)
(* The effect may happen before or after the answer, and more than once    *)
(* unless the request creates something.  "not done" is final.             *)
(***************************************************************************)
EXTENDS Naturals

VARIABLES
    creates,    \* the request creates an object, so it must not be repeated
    effects,    \* how often the API acted on the request
    answer      \* what the caller was told

Init ==
    /\ creates \in BOOLEAN
    /\ effects = 0
    /\ answer = "pending"

\* The API acts on the request, possibly after the caller has been answered.
Act ==
    /\ answer # "not done"
    /\ creates => effects = 0
    /\ effects' = effects + 1
    /\ UNCHANGED <<creates, answer>>

Tell(a) ==
    /\ answer = "pending"
    /\ a = "not done" => effects = 0
    /\ a = "done" => effects > 0
    /\ answer' = a
    /\ UNCHANGED <<creates, effects>>

Next == Act \/ \E a \in {"done", "not done", "unknown"} : Tell(a)

Spec == Init /\ [][Next]_<<creates, effects, answer>>
=============================================================================
