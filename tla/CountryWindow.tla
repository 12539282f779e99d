---------------------------- MODULE CountryWindow ----------------------------
(***************************************************************************)
(* _multi_country (src/entraadm_mcp/server.py): the sliding window that    *)
(* decides whether the foreign successes of one account came from Min      *)
(* distinct countries within Span, step by step, next to what its          *)
(* docstring says it finds.                                                *)
(***************************************************************************)
EXTENDS Integers, FiniteSets

CONSTANTS
    Countries,
    Span,           \* _MULTI_COUNTRY_SPAN
    MinCountries    \* _MULTI_COUNTRY_MIN

ASSUME WindowAssumption ==
    /\ IsFiniteSet(Countries)
    /\ Span \in Nat
    /\ MinCountries \in Nat \ {0}

VARIABLES
    seen,       \* the pairs, sorted by time; 1..n -> [time, country, ...]
    at,         \* the index of the loop
    start,      \* where the window begins
    window,     \* country -> how often it is in the window (a Counter)
    step,       \* "enter" or "expire" in the loop, "idle" outside
    verdict     \* what the last call returned

windowVars == <<seen, at, start, window, step, verdict>>

Sorted(s) == \A j, k \in DOMAIN s : j <= k => s[j].time <= s[k].time

WindowIdle ==
    /\ seen = <<>>
    /\ at = 1
    /\ start = 1
    /\ window = [c \in Countries |-> 0]
    /\ step = "idle"
    /\ verdict = FALSE

\* The call, with the pairs in an order sorted() may give them.
BeginWindow(pairs) ==
    /\ step = "idle"
    /\ seen' = pairs
    /\ at' = 1
    /\ start' = 1
    /\ window' = [c \in Countries |-> 0]
    /\ step' = "enter"
    /\ UNCHANGED verdict

\* The next pair enters the window.
EnterWindow ==
    /\ step = "enter"
    /\ at \in DOMAIN seen
    /\ window' = [window EXCEPT ![seen[at].country] = @ + 1]
    /\ step' = "expire"
    /\ UNCHANGED <<seen, at, start, verdict>>

\* Mutant of Expired: a pair exactly Span older is dropped.
ExpiredAtSpan == seen[at].time - seen[start].time >= Span

\* The oldest pair of the window is too old.
Expired == seen[at].time - seen[start].time > Span

\* The window without one pair from country c.
Without(c) == [window EXCEPT ![c] = @ - 1]

\* One turn of the while loop.
DropOldest ==
    /\ step = "expire"
    /\ Expired
    /\ window' = Without(seen[start].country)
    /\ start' = start + 1
    /\ UNCHANGED <<seen, at, step, verdict>>

\* len(window): a country whose count fell to 0 was deleted.
InWindow == {c \in Countries : window[c] > 0}

EndWindow(answer) ==
    /\ step' = "idle"
    /\ verdict' = answer
    /\ UNCHANGED <<seen, at, start, window>>

Hit ==
    /\ step = "expire"
    /\ ~Expired
    /\ Cardinality(InWindow) >= MinCountries
    /\ EndWindow(TRUE)

Advance ==
    /\ step = "expire"
    /\ ~Expired
    /\ Cardinality(InWindow) < MinCountries
    /\ at' = at + 1
    /\ step' = "enter"
    /\ UNCHANGED <<seen, start, window, verdict>>

Exhausted ==
    /\ step = "enter"
    /\ at \notin DOMAIN seen
    /\ EndWindow(FALSE)

WindowNext == EnterWindow \/ DropOldest \/ Hit \/ Advance \/ Exhausted

\* A list of pairs, oldest first.
ListOK(s) ==
    /\ \E n \in Nat : DOMAIN s = 1..n
    /\ \A k \in DOMAIN s : s[k].time \in Nat /\ s[k].country \in Countries
    /\ Sorted(s)

\* The function alone, over and over on any list.
WindowSpec ==
    /\ WindowIdle
    /\ [][(\E s : ListOK(s) /\ BeginWindow(s)) \/ WindowNext]_windowVars

-----------------------------------------------------------------------------
\* The countries of the pairs no earlier than w and at most Span later.
CountriesFrom(w, pairs) ==
    {p.country : p \in {q \in pairs : w.time <= q.time /\ q.time <= w.time + Span}}

\* _multi_country's docstring: some window of Span holds MinCountries distinct countries.
SpreadOver(pairs) ==
    \E w \in pairs : Cardinality(CountriesFrom(w, pairs)) >= MinCountries

\* The pairs of a list.
PairsOf(s) == {s[k] : k \in DOMAIN s}

\* The answer of _multi_country is what its docstring says of the list (server.py:1453-1456).
AnswerIsExact == step = "idle" => (verdict <=> SpreadOver(PairsOf(seen)))

-----------------------------------------------------------------------------
(***************************************************************************)
(* The invariant of the loop, by part.                                     *)
(***************************************************************************)
\* The last pair that has entered the window.
Entered == IF step = "expire" THEN at ELSE at - 1

\* The countries of the first m pairs that are no earlier than pair w and at most Span later.
CountriesUpTo(w, m) ==
    {seen[k].country : k \in {j \in 1..m : /\ seen[w].time <= seen[j].time
                                          /\ seen[j].time <= seen[w].time + Span}}

\* The pairs of the window from one country.
HeldFrom(c) == {k \in start..Entered : seen[k].country = c}

WindowInv ==
    /\ ListOK(seen)
    /\ step \in {"idle", "enter", "expire"}
    /\ verdict \in BOOLEAN
    /\ at \in Nat \ {0} /\ start \in 1..at
    /\ window \in [Countries -> Nat]
    /\ step # "idle" =>
          /\ Entered \in DOMAIN seen \cup {0}
          /\ start = 1 \/ start <= Entered
          /\ \A c \in Countries : window[c] = Cardinality(HeldFrom(c))
          /\ \A k \in 1..(start - 1) : seen[k].time + Span < seen[Entered].time
          /\ \A w \in 1..(at - 1) : Cardinality(CountriesUpTo(w, at - 1)) < MinCountries
    /\ step = "idle" => (verdict <=> SpreadOver(PairsOf(seen)))

=============================================================================
