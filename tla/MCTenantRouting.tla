-------------------------- MODULE MCTenantRouting --------------------------
(***************************************************************************)
(* TenantRouting for TLC: files with two sections, and calls that reach    *)
(* each of them in every way the decorators know.                          *)
(***************************************************************************)
EXTENDS TenantRouting

Section(name, id, domains, default) ==
    [name |-> name, id |-> id, domains |-> domains, default |-> default]

File(sections) == [fromFile |-> TRUE, sections |-> sections]

\* Valid: two tenants with either one as the default; a single one that does not say so; an id
\* that is the other tenant's domain.  Invalid: no default, two of them, a shared domain, a
\* name used twice, no section.  And the env-only deployment.
MCFiles ==
    {File(<<Section("a", "g1", {"d1"}, first), Section("b", "g2", {"d2"}, second)>>) :
        first, second \in BOOLEAN}
    \cup {File(<<Section("b", "g2", {"d1", "d2"}, FALSE)>>),
          File(<<Section("a", "d2", {"d1"}, TRUE), Section("b", "g2", {"d2"}, FALSE)>>),
          File(<<Section("a", "g1", {"d1"}, TRUE), Section("b", "g2", {"d1", "d2"}, FALSE)>>),
          File(<<Section("a", "g1", {"d1"}, TRUE), Section("a", "g2", {"d2"}, FALSE)>>),
          File(<<>>),
          [fromFile |-> FALSE, sections |-> <<Section("default", "g1", {}, TRUE)>>]}

Request(tool, ref, user, brief) == [tool |-> tool, ref |-> ref, user |-> user, brief |-> brief]

\* Each tool with a tenant claimed by the user's domain, unclaimed, given or unknown.
MCRequests ==
    {Request("revoke", None, user, None) : user \in {"d1", "d2", "elsewhere"}}
    \cup {Request("user", ref, "d2", None) : ref \in {"g1", "other"}}
    \cup {Request("audit", ref, user, None) : ref \in {None, "d2"}, user \in {"d1", "elsewhere"}}
    \cup {Request("plain", None, None, brief) : brief \in {None, "b"}}
=============================================================================
