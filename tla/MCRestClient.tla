---------------------------- MODULE MCRestClient ----------------------------
(***************************************************************************)
(* RestClientRefines for TLC, with the values a .cfg file cannot write.    *)
(***************************************************************************)
EXTENDS RestClientRefines

\* At once, in 4 s, and a Retry-After that float() parses and time.sleep() refuses.
MCRetryAfters == {-1, 0, 4}
=============================================================================
