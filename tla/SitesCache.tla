----------------------------- MODULE SitesCache -----------------------------
(***************************************************************************)
(* sites.load (src/entraadm_mcp/sites.py): the table of internal address   *)
(* ranges, cached for all calls of the process and read again when the     *)
(* file's stat changes.  Calls run in threads: the stat is taken before    *)
(* the lock, the file is read under it, and it may be edited in between.   *)
(*                                                                         *)
(* The file is known by its version, which is also its stat: every edit    *)
(* changes size, mtime, ctime or inode.                                    *)
(***************************************************************************)
EXTENDS Integers

CONSTANTS
    Threads,        \* the calls that load the table
    Ips,
    Contents,       \* what the file may hold: the addresses its valid ranges cover,
                    \* and whether _parse has an error to report
    MaxEdits        \* edits of the file

ASSUME SitesAssumption ==
    /\ MaxEdits \in Nat
    /\ Contents \subseteq [ranges : SUBSET Ips, error : BOOLEAN]
    /\ \A c \in Contents : c.ranges = {} => c.error

VARIABLES
    version,        \* how often the file was edited
    content,        \* version -> what the file held then
    key,            \* _cache["key"]: a stat, or NoKey
    cached,         \* _cache["table"]
    cachedFrom,     \* history: the version `cached` was read from
    loading,        \* thread -> "out", "stat" (has its stat) or "in" (has its table)
    statOf,         \* thread -> the stat it took
    table,          \* thread -> the table it got
    tableFrom,      \* history: thread -> the version its table was read from
    disturbed       \* history: the threads whose own stat or read failed

fileVars == <<version, content>>
cacheVars == <<key, cached, cachedFrom>>
threadVars == <<loading, statOf, table, tableFrom, disturbed>>
siteVars == <<fileVars, cacheVars, threadVars>>

NoKey == -1

\* The table of a file that cannot be read.
Unreadable == [ranges |-> {}, error |-> TRUE]

SitesInit ==
    /\ version = 0
    /\ content \in [{0} -> Contents]
    /\ key = NoKey
    /\ cached = Unreadable
    /\ cachedFrom = 0
    /\ loading = [t \in Threads |-> "out"]
    /\ statOf = [t \in Threads |-> 0]
    /\ table = [t \in Threads |-> Unreadable]
    /\ tableFrom = [t \in Threads |-> 0]
    /\ disturbed = {}

\* The file is rewritten, broken or repaired.
EditSites(new) ==
    /\ version < MaxEdits
    /\ version' = version + 1
    /\ content' = [v \in 0..(version + 1) |-> IF v = version + 1 THEN new ELSE content[v]]
    /\ UNCHANGED <<cacheVars, threadVars>>

\* os.stat, before the lock.
TakeStat(t) ==
    /\ loading[t] = "out"
    /\ loading' = [loading EXCEPT ![t] = "stat"]
    /\ statOf' = [statOf EXCEPT ![t] = version]
    /\ UNCHANGED <<fileVars, cacheVars, table, tableFrom, disturbed>>

\* The call has its table.
Get(t, value, from) ==
    /\ loading' = [loading EXCEPT ![t] = "in"]
    /\ table' = [table EXCEPT ![t] = value]
    /\ tableFrom' = [tableFrom EXCEPT ![t] = from]

\* os.stat fails.
StatFails(t) ==
    /\ loading[t] = "out"
    /\ Get(t, Unreadable, version)
    /\ disturbed' = disturbed \cup {t}
    /\ UNCHANGED <<fileVars, cacheVars, statOf>>

\* Mutant of UpToDate: the file is read once.
UpToDateOnce(t) == key # NoKey

\* The cached table has this thread's stat.
UpToDate(t) == key = statOf[t]

UseCached(t) ==
    /\ loading[t] = "stat"
    /\ UpToDate(t)
    /\ Get(t, cached, cachedFrom)
    /\ UNCHANGED <<fileVars, cacheVars, statOf, disturbed>>

\* A table with ranges is kept, invalid ones beside them or not; a failure is not.
Keeps(value) == value.ranges # {} \/ ~value.error

\* _parse under the lock: the file as it is now, or an error on the way.
ReadSites(t, fails) ==
    LET value == IF fails THEN Unreadable ELSE content[version] IN
    /\ loading[t] = "stat"
    /\ ~UpToDate(t)
    /\ Get(t, value, version)
    /\ disturbed' = IF fails THEN disturbed \cup {t} ELSE disturbed
    /\ IF Keeps(value)
       THEN key' = statOf[t] /\ cached' = value /\ cachedFrom' = version
       ELSE key' = NoKey /\ UNCHANGED <<cached, cachedFrom>>
    /\ UNCHANGED <<fileVars, statOf>>

\* The thread is done with its table; it may load again for another call.
Leave(t) ==
    /\ loading[t] = "in"
    /\ loading' = [loading EXCEPT ![t] = "out"]
    /\ disturbed' = disturbed \ {t}
    /\ UNCHANGED <<fileVars, cacheVars, statOf, table, tableFrom>>

LoadStep(t) ==
    \/ TakeStat(t) \/ StatFails(t) \/ UseCached(t)
    \/ \E fails \in BOOLEAN : ReadSites(t, fails)

SitesNext ==
    \/ \E new \in Contents : EditSites(new)
    \/ \E t \in Threads : LoadStep(t) \/ Leave(t)

SitesSpec == SitesInit /\ [][SitesNext]_siteVars

-----------------------------------------------------------------------------
\* The module docstring of sites.py ("re-read when it changes, and a failed read is not
\* cached"): whatever other threads stored meanwhile, a call works with what the file held
\* at its own stat or later, and with a failure only when the file was bad or its own
\* read failed.
TableIsCurrent ==
    \A t \in Threads : (loading[t] = "in" /\ t \notin disturbed) =>
        /\ tableFrom[t] >= statOf[t]
        /\ table[t] = content[tableFrom[t]]

\* "an updated or repaired file takes effect" (sites.py:18-20) and stays in effect: in
\* whatever order the threads fill the cache, none is ever given an older table than the
\* one it had before.
TablesGoForward == [][\A t \in Threads : tableFrom'[t] >= tableFrom[t]]_siteVars
=============================================================================
