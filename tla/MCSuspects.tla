----------------------------- MODULE MCSuspects -----------------------------
(* TLC's instance of Suspects: two accounts, one of them written in two ways. *)
EXTENDS Suspects

CONSTANTS x, y, a, aa, b

MCAccountOf == [u \in {a, aa, b} |-> IF u = b THEN "b" ELSE "a"]

Sign(id, user, ip, code, country, legacy, tools, time) ==
    [id |-> id, user |-> user, ip |-> ip, code |-> code, country |-> country,
     legacy |-> legacy, tool |-> tools, time |-> time]

Abroad(id, country, time) == Sign(id, a, y, "success", country, FALSE, FALSE, time)

\* The sign-ins a log is made of: every kind of row, and for one account times and
\* countries below, at and above the span, one pair twice.
MCRows ==
    {Abroad(1, "K", 0), Abroad(2, "K", 0), Abroad(3, "K", 1), Abroad(4, "L", 2),
     Abroad(5, "M", 2), Abroad(6, "M", 3), Sign(7, a, x, "success", "L", FALSE, FALSE, Absent),
     Sign(8, a, x, "success", "J", FALSE, FALSE, 1),
     Sign(9, a, x, "success", Absent, FALSE, FALSE, 1),
     Sign(10, b, x, "success", "K", TRUE, FALSE, 2),
     Sign(11, aa, y, "success", "L", FALSE, TRUE, 2),
     Sign(12, a, x, "credential", "K", FALSE, FALSE, 0),
     Sign(13, b, x, "credential", "K", FALSE, FALSE, 0),
     Sign(14, aa, y, "interrupt", "J", FALSE, FALSE, 0),
     Sign(15, b, y, "credential", "J", FALSE, FALSE, 1),
     Sign(16, Absent, x, "credential", "K", FALSE, FALSE, 1),
     Sign(17, b, y, "none", "K", FALSE, FALSE, 2)}

\* Every log of up to four of them.
MCLogs == {s \in SUBSET MCRows : Cardinality(s) <= 4}

MCBusyLogs == {{r \in MCRows : r.id \in {1, 8}}}

MCContents ==
    {[ranges |-> {y}, error |-> FALSE], [ranges |-> {x, y}, error |-> TRUE],
     [ranges |-> {}, error |-> TRUE]}

MCRiskAnswers ==
    {[available |-> FALSE, high |-> {}, medium |-> {}],
     [available |-> TRUE, high |-> {aa}, medium |-> {a, b}],
     [available |-> TRUE, high |-> {aa, b}, medium |-> {a}]}
=============================================================================
