--------------------------- MODULE MCAuditSearch ---------------------------
(***************************************************************************)
(* AuditSearch for TLC, with the values a .cfg file cannot write.          *)
(***************************************************************************)
EXTENDS AuditSearch

\* In 4 s, at once, and a Retry-After that float() parses and time.sleep() refuses.
MCRetryAfters == {-1, 0, 4}
=============================================================================
