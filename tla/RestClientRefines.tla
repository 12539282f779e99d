-------------------------- MODULE RestClientRefines --------------------------
(***************************************************************************)
(* The retry loop keeps the contract of OneWrite.  A post or post_json is  *)
(* one abstract request; a get is out of scope (it does not keep the flag) *)
(* and maps to a request whose caller is told "unknown".                   *)
(***************************************************************************)
EXTENDS RestClient

\* What the caller of the method can conclude.  A value that declines the action says
\* nothing about earlier attempts, whose flag is dropped with it.
Told ==
    IF pc # "done" THEN "pending"
    ELSE IF outcome.kind = "ok" THEN "done"
    ELSE IF Failed /\ Write /\ ~outcome.may THEN "not done"
    ELSE "unknown"

Contract == INSTANCE OneWrite WITH
    creates <- call = "post_json",
    effects <- applied,
    answer <- Told

\* Every behaviour of the retry loop is one the caller was promised: "not done" is
\* told only while nothing was done and is never overtaken by a late request, a
\* value only after the API acted, and a creation never happens twice
\* (client.py:276-356, 389-416).
KeepsContract == Contract!Spec
=============================================================================
