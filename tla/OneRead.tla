------------------------------ MODULE OneRead ------------------------------
(***************************************************************************)
(* What a caller may believe about one read of a collection, however many  *)
(* pages it took: the contract of `(items, capped)` of get_paged           *)
(* (src/entraadm_mcp/client.py:444-455).  It is answered once, with rows   *)
(* of the collection, all of them unless it says that it was cut; a read   *)
(* that fails gives no rows.                                               *)
(***************************************************************************)
VARIABLES
    all,        \* the rows there are when the read ends
    rows,       \* the rows the caller has
    answer      \* none, whole, cut (capped) or failed

Init ==
    /\ rows = {}
    /\ answer = "none"

Answer(how) ==
    /\ answer = "none"
    /\ rows' \subseteq all'
    /\ how = "whole" => rows' = all'
    /\ answer' = how

Fail ==
    /\ answer = "none"
    /\ answer' = "failed"
    /\ UNCHANGED <<all, rows>>

Next == Fail \/ \E how \in {"whole", "cut"} : Answer(how)

Spec == Init /\ [][Next]_<<all, rows, answer>>
=============================================================================
