# A TLA+ model of entraadm-mcp

entraadm-mcp is an MCP server for Microsoft Entra ID and Azure: tools that read sign-ins,
audits, risk, service health and backup coverage from Microsoft Graph and ARM, two tools
that change something (revoking a user's sessions, starting an audit-log search), and a
command that archives the sign-in log. It persists only the archive and keeps a few caches
in memory. What makes it hard is not its size but what it talks to: answers that get lost,
collections that come in pages and change meanwhile, rows that arrive late, a budget of
seconds shared by everything one call does, worker threads that share caches, and a
promise in nearly every docstring that a partial answer is never passed for a whole one.
That promise is what this project checks.

Line numbers are those of `src/entraadm_mcp/`; C, S, A, M, K and Z below stand for
`client.py`, `server.py`, `archive.py`, `__main__.py`, `config.py` and `sites.py`.
`PROJECT.json` maps every definition that models code to its lines.

## 1. Inventory

| Component | State | Operations | Interacts with | What is hard | What makes it correct |
|---|---|---|---|---|---|
| REST client, one request (C:47-416) | cached token; per call: two retry budgets, the 429 flag, `maybe_applied`, a deadline | `get`, `post`, `post_json`, `_request_tracked`, `_sleep_within`, `_bounded_request`, `_parse` | Graph, ARM, azure-identity; every tool | lost answers, retries of what was done, a deadline in the middle of an answer | `may_have_applied=False` is final; a creation happens once; each kind of failure has its own retries; the overrun of the deadline is that of one attempt |
| Paging (C:418-475, S:816-920) | next link, rows, page count | `get_paged`, `_same_origin`, the filtered walk of `signin_logs` | the client | budget and `top` running out at a page boundary, empty pages, a link to another host | `capped` says truthfully whether something was left unread; rows are a prefix |
| Write tools (S:3608-3723, 4084-4173) | the deadline of the call | `revoke_sign_in_sessions`, `audit_log_search_start` | client, routing | an unknown outcome must not be reported as a definite one | `revoked`/`created` true, false and null agree with what Graph did |
| Audit-log search result (S:3726-3821) | none (Graph holds the search) | `audit_log_search_result` | client, the search the start tool created | two reads of a search that is still collecting; Graph's own record limit | unfinished or cut is never "that few were found" |
| Sign-in archive (A, M:50-120) | slot files, `.stale` markers, `SLOT_HOURS` | `archive_tenant`: check the length, fetch or skip each slot, replace, unmark, prune | client, disk, the timer that starts it | late rows, kills between two file operations, credential and disk errors, other lengths | files are whole walks, late rows are re-read, nothing archived is lost (the edge of Graph's retention apart), lengths never mix |
| VM backup status (S:2260-2640) | the inventory and the matches found so far | subscriptions, VM listing, vault scan, join, orphans | client, ARM | ARM changes during a scan; any read fails, is capped or is skipped | absence is claimed only after complete reads; a live item wins; an orphan's VM was really missing |
| VM activity (S:2954-3197) | none | `_find_vm`, two activity-log reads | ARM | one name in several groups, partial subscriptions, a log that grows between the reads | a name is resolved only when it is the only one; every event is in one section |
| Tenant configuration and routing (K:172-358, S:238-388) | `_state`: tenants, clients; `_CURRENT_TENANT` per call | `load_tenants`, `for_upn`, `resolve`, `_tenant_scoped`, `_tenants`, `_client` | every tool | worker threads share `_state`; the file is edited while it runs | the credential used is the one of the tenant the answer names, also of a client made twice |
| daily_brief and its budget (S:200-225, 3829-3986) | `_CALL_DEADLINE` | `_deadline_share`, `_brief` per tenant | all sections, routing | a slow tenant eats the time of the later ones | even shares; overruns do not add up |
| Identity Protection probe (S:1701-1839) | `_ip_cache`, an hour per tenant | `_identity_protection_status`, `_read_microsoft_risk` | `daily_brief`, `compromise_suspects` | cached answers while licences change | an answer is never older than it may be |
| Compromise and sign-in statistics (S:1108-1963) | none | `signin_failure_stats`, `signin_success_stats`, `compromise_suspects`, `_multi_country` | the sign-in walk, the sites cache, Microsoft's risk lists | a sliding window, findings of walks that may be cut anywhere, one account under several spellings | the window finds exactly what its docstring defines; a finding is never taken back by the part not read |
| Sites cache (Z:110-136) | table and stat key behind a lock | stat, parse, store | the sign-in statistics | threads with old and new stats | a call never uses a table older than its own stat |
| health_check and other reports (S) | none | probes; shaping of one answer | client, routing | sequential | the shape of one answer |
| Shell, entry point, ISO 3166 table, smoke scripts | none | registration, arguments | all | none | not modelled |

The components meet in four ways. Every tool calls the client, whose exceptions carry
`may_have_applied`; `WriteTools` therefore runs the retry loop of `RestClient` step by step,
and `AuditSearch` goes on with the search that loop created. Tools share a deadline
(`_CALL_DEADLINE`), which `_deadline_share` narrows; that one read of `Brief` outlives its
deadline by a bounded time is an assumption of its own (section 4). The sign-in statistics work with the
table of internal ranges that all threads share: `Suspects` is composed with `SitesCache`.
And all tools are routed by `_tenant_scoped`, whose shared state `TenantRouting` models for
several calls at a time. The other models are of one call (or, for the archive, of one
tenant) because nothing else is shared.

## 2. Modules

| Module | Models | How its state maps to the code |
|---|---|---|
| `RestClient`, `MCRestClient` | one call of `get`, `post` or `post_json` next to the API | `netLeft`, `srvLeft`, `retried429`, `maybe` are the variables of `_request_tracked`; `pc` is the place in it; `timeout` is what httpx is given; `travelling` and `applied` are the API's side. An attempt has the phases connect, exchange and body; httpx times every operation of a phase apart, so the last operation of a phase is the action that ends it and `Waits` is any other, at most `MaxWaits` in an attempt. `seen`, `attempts`, `waits` are history |
| `OneWrite` | the abstract contract of a state-changing request | `effects`, and what the caller was told: "done", "not done" (final), "unknown" or nothing yet ("pending") |
| `RestClientRefines` | the refinement `RestClient => OneWrite` | `Told` is what the caller of the method can conclude |
| `WriteTools` (over `RestClient`) | the two write tools | `report` is `revoked` or `created`; it implements `OneWrite` as well (`ReportContract`) |
| `AuditSearch`, `MCAuditSearch` (over `WriteTools`) | the search at Graph and `audit_log_search_result` | `status`, `holds`, `limit` are the search; `query` is what a poll's first request read; `result` is what it answered |
| `OneRead` | the abstract contract of a paged read: `(items, capped)` in one step: rows of the collection, and all of them unless it says that it was cut | `said` is what the caller has been told |
| `Paging` | `get_paged` and the walk of `signin_logs` over every collection | `next` is the link, `items` the rows, `truncated` is `truncated_within_page`; `Told` is what the caller sees, by which it implements `OneRead` (`WalkIsOneRead`) |
| `Archive` | one tenant's directory over many runs | `files`, `stale`, `marker`/`recorded` are the directory; every file operation is a step of its own, so a kill may fall between any two |
| `VmBackup` | one call of `vm_backup_status` while ARM changes | `entry`, `listed`, `vmsCapped`, `complete`, `matches` are its locals; `alwaysOn`, `everAbsent`, `readFully` are history |
| `VmActivity`, `MCVmBackup` (over `VmBackup`) | `vm_activity` over the same subscriptions and the same changes | `found`, `whole` are the locals of `_find_vm`; `vmEvents`, `others` the sections of the answer; `logged` is ARM's log |
| `SitesCache` | `sites.load` by several threads while the file is rewritten | `key`, `cached` are `_cache`; `statOf`, `table` belong to a thread; `tableFrom` is history |
| `CountryWindow` | `_multi_country`, one turn of each loop at a time | `at`, `start`, `window` are its locals |
| `Suspects`, `MCSuspects` (over the last two) | the three statistics tools | `rows`, `capped` are the walk's answer, `multi` is what `_multi_country` said, `answer` the findings, `counts` Microsoft's lists merged in |
| `TenantRouting`, `MCTenantRouting` | several tool calls at a time | `tenants`, `defaultClient`, `clients` are `_state`, of a client the section it was made from; `maker` tells one client of a tenant from the next; `current`, `local`, `stage` belong to a call; each read of `_state` that another thread may come between is a step |
| `Brief` | `daily_brief` over all tenants, and the probe cache | `whole`, `share` are the values of `_CALL_DEADLINE`; `cache` is `_ip_cache`; `step` is the next read of `_brief` |
| `RestClientProofs`, `PagingProofs`, `AuditSearchProofs`, `ArchiveProofs`, `BriefProofs`, `SuspectsProofs`, `VmBackupProofs`, `TenantRoutingProofs` | the proofs | section 5 |

Operators named "Mutant of X" beside an operator X are not part of the model: each is what
X would be after a plausible mistake. PROJECT.json says which property each mutant violates
under the property's own configuration; every property has one.

## 3. What each run checks

Passing runs:

| Run | Question | Properties | Bounds, and why they are enough |
|---|---|---|---|
| RestClient | Do the exception or value and the flag agree with what the API did, whatever the network does? | `FalseFlagMeansNotDone`, `CreatesAtMostOnce`, `FlagIsExact`, `EveryKindGetsItsRetries`, `OverrunIsOneAttempt`, `KeepsContract` (refinement), `CallEnds` (liveness) | the code's real retry budgets; operations that take no time or the whole timeout (3), one more of them in an attempt than its phases have (`MaxWaits`), in any phase; deadlines none, 4 and 9, so that they pass before the token, between attempts, in a wait and in the body; Retry-After -1, 0 and 4; one body chunk, after which the end of the stream is waited for |
| AuditSearch | Is `revoked`/`created` true of Graph, also when the request arrives after the report? Does a poll of the search that was created ever pass for a smaller one? | `NullMeansSent`, `ReportKeepsContract` (refinement), `CountsAreExact` | one deadline (9) that the account lookup (0 or 7) may nearly use up; two records, limits 0 to 2, so that Graph's limit is below, at and above what matches; polls at any time, the search moving between a poll's two requests |
| Paging | Does `capped` tell the truth, and is a walk over pages one read to its caller? | `CappedIsExact`, `AnswerIsPrefix`, `WalkIsOneRead` (refinement) | every split of 0 to 4 rows into 1 to 3 pages, empty ones included, every filter, budgets 1-3, `top` 1, 2, 4: below, at and above every boundary; a link to another host at each page, in both walks |
| Archive | Are late rows read again, and settled slots only when marked? | `LateRowsAreKept`, `SettledIsLeftAlone` (action property) | slots of 2 hours, a window of 5, refetch 3, retention 6, a `now` up to an hour old and a run of an hour, a horizon of 8 hours: a slot is fresh, settles, leaves the window and is pruned; one row may come at any later hour; walks fail up to the third attempt |
| ArchiveFaults | What do kills, disk and credential errors, other lengths and the end of Graph's retention do? | `CleanRunIsComplete`, `FilesAreWhole`, `NoMixedLengths`, `OnlyErrorsForget`, `ArchivedRowsStay` (action property) | lengths 1 and 2, one kill between any two steps, any disk operation failing, a late row; window and retention both 2, as the defaults are both 30 days, and a run of an hour: the oldest slot may be purged under the run |
| VmBackup | Is what the two ARM tools say of a VM, of its name and of its events true? | `AbsenceIsProved`, `LiveItemWins`, `OrphansWereAbsent`, `UncappedIsComplete`, `SearchIsProved`, `EventsAreShown` | two subscriptions with a vault each; two VMs of one name in different groups, the first of which may have an item in either vault; any listing full, capped, failed or skipped; one change at ARM at any moment; five events: two on the first VM (one in a category without a section), one beside it, one in another group, one in the other subscription, each logged at any moment. What concerns more VMs is what concerns each: rows and matches are kept per VM |
| TenantRouting | Does each call use the credential of the tenant it names? When is a tenant's client replaced, and by what? | `ReachesItsTenant`, `TagIsTrue`, `UnclaimedIsSaid`, `ClientsAreKept` (action property) | two calls at a time, each place used again and again, ten tenant files (valid and each way of being invalid), one edit |
| Brief | Does every tenant get its time, and is a probe answer fresh? | `EvenShare`, `BudgetIsKept`, `ProbeIsFresh` | three tenants, a budget of 12 and reads of 0 or 5 that may end 1 late: a tenant can spend its share, overrun it or leave it to the others; two calls 0 or 9 apart around a TTL of 6, one change of licence at any moment |
| Suspects | Would the rows not read take a finding back? Is an account counted once? | `WindowIsExact`, `FindingsAreLowerBound`, `NotAtHomeIsProved`, `TableIsCurrent`, `TablesGoForward` (action property), `AccountsAreCountedOnce` | every log of up to 4 of 17 kinds of rows (all codes, addresses in and out, equal times, times below, at and above a span of 2, three countries abroad, missing fields, two spellings of one account), cut at any row; three answers of Microsoft; two threads and two edits of the site file, for the logs in `BusyLogs` (what a thread's table does to a log is the same for every log) |

`TypeOK` is checked in RestClient, where it also bounds the budgets. The type invariants of
the other modules are theorems (section 5), so the runs need not check them.

Runs in which TLC finds the violation, each a disagreement between code and words:

- **WriteToolsRevoke** (`RevokedFalseMeansNothingDone`). S:4102-4107 says `revoked` is
  "False when nothing was done". An attempt times out after Graph acted on it, the retry
  answers `{"value": false}`: `post` returns a value, which carries no flag (C:396-398), and
  the tool reports False (S:4170-4173). `OnlyARetryMisleads` proves that this takes two
  requests: a false after one is true.
- **VmBackupPartial** (`PartialScanNeverSaysUnprotected`). S:2498-2499 and
  docs/reference.md:252 say a partial scan never produces a false "unprotected". With a
  stopped item in a vault that was read and the live one in a vault that was not, the row
  says `protected: false` (S:2444 looks at completeness only when there is no item).
  `OnlyAStopEverMisleads` proves that every wrong "unprotected" is this one, and that the
  answer it stands in is marked capped.
- **ArchiveEdge** (`NoSlotIsReadPartly`). A:21-22 and docs/reference.md:508-509 say no slot
  straddles the retention edge, to be read only partly and then kept. `--days` defaults to
  the whole retention (A:46, M:68; and without P1/P2 Graph keeps 7 days, A:3), and `now` is
  taken once for all tenants (M:84): by the time the oldest slot is walked its first rows
  may be gone. `FilesAreAlwaysWhole` and `ArchivedRowsAlwaysStay` prove that nothing else is
  missing or lost.

### Fairness

Only `CallEnds` needs any: `FairSpec` is weak fairness of the client's own steps. The code
justifies it: every wait of an attempt is one httpx times out (and there are finitely many,
`MaxWaits`), `time.sleep` returns, and the loop has no other wait. Nothing is assumed of the API (`LateArrival` is not fair) or of
the caller. azure-identity is taken to return, though at any time (`TokenTimes`): without
that, no call could promise anything.

### Deadlock

Deadlock is checked in all runs. Where a behaviour is over, an explicit stuttering step
(`Done`, `Stop`, `ToolDone`) says so; any other state without a successor would be
reported.

## 4. Assumptions of the models

- *Threads.* The MCP SDK (2.x in `uv.lock`) is not part of the repository. `TenantRouting`
  and `SitesCache` assume that it runs synchronous tools in worker threads, as the lock in
  Z:127 does.
- *`RacingEdits` is FALSE* in TenantRouting: the tenant file is not edited in the moment
  between two threads' loads of it. With TRUE, `TagIsTrue` and `ReachesItsTenant` fail too:
  both threads see `None` at S:240, load different files, and the second replaces what the
  first has routed with (section 6). The theorems about routing have `~RacingEdits` as
  their hypothesis.
- *The edge of the retention* (`AtEdge`). A run reads its oldest slot up to `StartLag +
  RunTime` after the `now` its window was cut at. `FilesAreWhole`, `ArchivedRowsStay` and
  `LateRowsAreKept` except the rows of a slot that may be purged by then, and the first two
  only those that were. With the defaults (`--days` equal to the retention) these are the first
  `StartLag + RunTime` of a slot; if Graph keeps less than `--days`, they are whole slots.
  No run and no theorem assumes that the window fits into the retention.
- *Late rows.* A row that turns up after its slot settled is out of reach, so
  `LateRowsAreKept` speaks of rows delivered one `Gap` earlier and of runs that end clean. It
  is about an archive kept as docs/reference.md:484-485 asks (`Undisturbed`): one slot length,
  a run at least every `Gap` and shorter than that, no kill and no credential or disk error,
  which would end a run before its last slot. Walks may still fail; they leave a marker.
- *Runs of one directory follow one another:* `now` is taken after the run before has ended,
  and the clock does not go back.
- *The overrun of a deadline* is bounded from the first attempt on. The token is not in
  it: azure-identity has no timeout here; nor is the resolution of names, which httpx does
  not time. The code does not bound the number of operations of an attempt (a body that
  trickles in before its first chunk, a long request); `MaxWaits` is the bound of the model,
  and `OverrunIsOneAttempt` counts the operations that were made (`waits`). The floor of 0.05
  s for a timeout (C:318) is below the model's second.
- *`Brief`'s reads* have a longest duration, and outlive their deadline by at most `Overrun`,
  which is an assumption: the client does not promise it (section 6). `ProbeIsFresh` allows
  an answer that much more than its hour, since the hour begins when the answer arrives.
- *`ENTRAADM_DEADLINE=0`* (no budget) is left out of `Brief`; `RestClient` has it as
  `NoDeadline`.
- *The site file* changes its stat with every edit (size, mtime, ctime and inode are all in
  the key, Z:121-124).
- *An audit search* that succeeded stays as it is; one that is still moving may do anything
  between two requests.
- *Listings* in `VmBackup` and `VmActivity`, the walk in `Suspects` and the reads in `Brief`
  are one step each. For the walk this is a theorem: what it does page by page implements
  `OneRead` (`WalkImplementsOneRead`), and so does the step of `Suspects` that reads the log
  (`CallReadsTheLogOnce`). The collection of
  `Paging` stays as it is during the walk.

## 5. What is proved

TLC checks small instances; the theorems hold for every value of the constants. They assume
only what the modules' `ASSUME`s say of the constants (times and counts are natural numbers,
the finite things are finite; nothing about their sizes), and the hypotheses of section
4, `~RacingEdits` and `Undisturbed`, where named.

| Theorems | Say |
|---|---|
| `RestClientProofs!TypeCorrect`, `FlagIsSound`, `FlagIsTight`, `CreationIsUnique`, `ValueIsSound` | every state of a call is well formed; the flag is down only for writes that were not done and never will be, and up only for requests that left and were not refused; `post_json` creates at most one object; a value that confirms means the API acted |
| `RestClientProofs!RetriesAreSeparate`, `AttemptsAreBounded`, `OverrunIsBounded` | no failure of one kind uses up a retry of another; six attempts at most; the deadline is outlived by what is left of one attempt, operation by operation, or by one late wake-up |
| `RestClientProofs!ContractIsKept`, `EffectsAreAttempts` | the retry loop implements `OneWrite`; a write is acted on at most once per request that left and was not refused |
| `PagingProofs!CappedIsExactAlways`, `AnswerIsPrefixAlways` | `capped` is the truth and the answer a beginning of the rows asked for, nothing of it in `get_paged` from behind a foreign link, for collections, pages, budgets and `top` of any size |
| `PagingProofs!WalkImplementsOneRead` | a walk over pages is one read to its caller |
| `AuditSearchProofs!SearchIsTyped`, `NullAlwaysMeansSent`, `ReportContractIsKept`, `CountsAreAlwaysExact` | the reports of the two write tools implement `OneWrite`, null is kept for requests that left; an uncapped summary counts everything |
| `AuditSearchProofs!OnlyARetryMisleads` | a `revoked` of false is wrong only of a POST that left more than once |
| `ArchiveProofs!ArchiveIsTyped`, `LengthsNeverMix`, `CleanRunIsAlwaysComplete` | one slot length per directory and no slot left out by a clean run, whatever is killed, refused or fails |
| `ArchiveProofs!FilesAreAlwaysWhole`, `ArchivedRowsAlwaysStay`, `LateRowsAreAlwaysKept` | files are whole walks and rows stay, those purged at the edge of the retention apart; late rows are kept (under `Undisturbed`) |
| `ArchiveProofs!SettledIsAlwaysLeftAlone`, `OnlyErrorsAreForgotten` | a settled file changes only while it is marked stale; a failed re-read is remembered unless the run ends with an error, which costs one slot at most |
| `BriefProofs!CallEndsInTime`, `SharesAreEven`, `ProbeIsAlwaysFresh` | `daily_brief` outlives its budget by one read, for any number of tenants; a share falls short of an even part only by earlier overruns; probe answers are fresh |
| `TenantRoutingProofs!RoutingIsTyped`, `AlwaysReachesItsTenant`, `TagIsAlwaysTrue`, `UnclaimedIsAlwaysSaid`, `ClientsAreAlwaysKept` | routing, for every set of tenant files and any number of threads; a tenant's client is kept once no call is making another, and never replaced by one with another credential (under `~RacingEdits`) |
| `SuspectsProofs!WindowIsExactAlways` | the sliding window finds exactly what its definition says, for lists of any length |
| `SuspectsProofs!SuspectsAreTyped`, `JudgementIsExact`, `CallsTableIsCurrent`, `FindingsAreLowerBoundAlways`, `NotAtHomeIsProvedAlways`, `AccountsAreCountedOnceAlways` | the statistics tools, for every log and any number of threads |
| `SuspectsProofs!CallUsesTheWindow`, `CallUsesTheCache`, `CallReadsTheLogOnce`, `CallsTablesGoForward` | the tools implement the specifications of the window, the cache and `OneRead`; no call is given an older table than it had |
| `VmBackupProofs!ArmToolsAreTyped`, `AbsenceIsAlwaysProved`, `LiveItemAlwaysWins`, `OrphansWereAlwaysAbsent`, `UncappedIsAlwaysComplete`, `SearchIsAlwaysProved`, `EventsAreAlwaysShown`, `OnlyAStopEverMisleads` | both ARM tools, for any number of subscriptions, vaults, VMs, events and changes |

*The flag.* `FalseFlagMeansNotDone` speaks only of finished calls, so it is not inductive.
`FlagInv` strengthens it by what the flag means on the way: while it is down nothing is
travelling, nothing was applied before the current answer, and an answer that refuses means
nothing was applied by it either. The proof goes action by action; the one that could break
it is `NetworkError`, and there `maybe` rises exactly when the request may have left.
`ExactInv` is the other direction: while the call runs, `maybe` is up exactly when more
requests left than were refused, the one under way apart. `CreateInv` and `ValueInv` do the
same for creations and values.

*The budgets.* `BudgetInv` states the number of failures and attempts as sums of the
budgets spent (`Counts` in the proof) while the call runs. Every action but the last keeps
the sums, and the last one finds the budget of its kind empty because `Settled` says so.

*The overrun.* `DeadlineInv` says where the clock may be at each place of the call: an
attempt begins before the deadline, its exchange ends one timeout later and its body one more,
each operation counted in `waits` adding another; `OneMore` is that arithmetic.

*The effects.* `EffectInv` counts the API's side: what it did and what is still travelling are
no more than the requests that left and were not refused, and one fewer while the request
under way is unanswered or was spared (`Spared`). With `DeclinedInv`, which says where a false
`revoked` comes from, it gives `OnlyARetryMisleads`.

*The contract.* `ContractStep` maps each step to `Act`, to `Tell` or to a stutter; `FlagInv`,
`CreateInv` and `ValueInv` supply the guards. The tools' report implements the same contract:
`ReportInv` ties `report` to the outcome of the call below it, `SentInv` says a value comes
from an answer that was read, and a request that arrives after the report is the API's `Act`.
`CountInv` is what a poll has read and still holds when its second request is answered.

*Paging.* `WalkInv` says where the walk stands (`PlaceInv`: the pages before `next` are read,
none behind a foreign link) and what it holds (`HeldInv`: the matching rows of those pages, or,
once cut, the first `top` of them while some matching row is not among them). `Kept` (the rows
of a page that match) is a recursive function; what it returns is proved by induction over the
length, which the prover can follow when it is stated as a fact about sets of numbers
(`Induction`, from the library's well-founded minimum). `FirstRowsAgree` then says that two
lists in order with the same first rows agree, which turns facts about sets of rows into facts
about answers.

*The archive.* `LengthInv` connects `SLOT_HOURS` with the files: an empty or missing marker
means there are no files, a recorded length is every file's and that of the run at work.
`WholeInv` says of every file and of the walk under way that it holds what Graph showed of the
slot at the moment of its last fetch. A re-read of the same slot can only add rows while its
rows are still retained, and a row that is not at the edge still is: `WindowStarts` shows how
old the first hour of any slot of the window can be when the run ends.
`VisitInv` says that a run at a slot has handled every earlier one of its window: a slot is
marked failed, or its file is good and, unless settled, read by this run. It needs the slots
to be multiples of their length (`SlotsApart`), and pruning to stay outside the window.
`LateInv` looks across runs: a good file was read a `Gap` or less before its slot settled, or
the slot left the window first (`Covered`), or the last run read it, or the run at work has
still to come to it (`Due`). A new run that starts in time turns the third case into the
first, if the slot has settled by then, or into the last (`TakenOver`).
`FetchInv` says that a slot being walked was not up to date and does not become so before its
file is replaced; `RememberInv` that the slots a run failed at are behind it and, if they have
a file, marked, the last one of a run that ended with an error apart.

*The brief.* A tenant's share ends no later than the budget, or the budget was already spent
when the turn began and the clock no longer moves (a read with an expired deadline sends
nothing). That is `BriefProofs!BudgetInv`; an overrun is thus paid once, by the last read
that began in time. `ShareInv` bounds what the tenants before have taken, multiplied out so
that the share of every later one follows. `FreshInv` keeps with each cached status a moment
at which it was true, no longer before it was stored than the longest read.

*Routing.* `RouteInv` says that a call that is loading while the tenants are there would load
the same ones (which is where `~RacingEdits` enters), so that `tenants` never changes once it
is set (`LoadsOnce`); that every client kept is made from its tenant's section; that a routed
call's `local` is `tenants`; and that the tenant in effect is what its arguments mean
(`Means`). That lookups find a section at all rests on `FirstIndex` and `LastIndex`, from the
library's well-founded induction. `KeepsStep` is about the one step that stores a client:
what it stores is made from the section the one before was made from. `MakerInv` says that a
client, whoever made it, is where `FindClient` looks, so a call that comes later makes none.

*The statistics.* `WindowInv` says that `window` counts the countries of the pairs from `start`
to `at` and that no window that ended earlier had enough; pairs dropped are too old for every
later one. In `Suspects`, `RowsInv` keeps the rows read inside the log and
`FoundInv` ties the findings to them; each kind of finding is monotone in the rows. The
refinements `CallUsesTheWindow` and `CallUsesTheCache` carry the theorems of the two smaller
modules over. `ForwardInv` (what a thread was given before is no newer than the stat it took
since) is what `TablesGoForward` needs at the step that hands out a table.

*The ARM tools.* `BackupInv` (with `ArmInv`, `ScanInv`, `VmInv`, `VaultInv`, `MatchInv`)
connects each claim with history: a subscription counted complete had every vault read, an
item that was on throughout was matched when its vault was read, a VM not listed was missing
when its subscription was. `ActivityInv` does it for the search and the log.

Only model-checked: `CallEnds`, since liveness is beyond the prover.

## 6. Disagreements seen, without a run

- C:203-207 says an odd Retry-After degrades rather than raising. `float("-1")` parses, and
  `time.sleep(-1.0)` raises a bare ValueError (C:382), as does nan. The runs RestClient and
  AuditSearch include it: such a call ends with `ValueError`, which carries no flag.
  `FlagIsExact` excludes it; the reports of the write tools become "raised".
- C:359 says the total time of a request stops at its deadline. httpx gives the pool slot,
  TCP, TLS, each write and each read the whole timeout of C:318-323, and the clock is looked
  at only before an attempt and between chunks (C:312-318, 370): a request of slow operations
  outlives its deadline by several timeouts. `OverrunIsOneAttempt` is what holds.
- C:421-424 says a link that names another host must not be followed. `get_paged` asks
  `_same_origin` (C:470); the page loop of `signin_logs` does not (S:895, 906). The model
  follows it there, and `AnswerIsPrefix` speaks of foreign links in `get_paged` only.
- C:368-369 says a finished body is kept; if its last chunk arrives late it is not.
- A:23-24 says a failed re-read leaves `<slot>.stale`. One that is refused for the credential
  does not (A:149-153), nor one whose marker the disk refuses (A:158); if the slot settles
  before the cause is repaired, later runs skip it. `OnlyErrorsForget` is what holds: it takes
  a run that ends with an error, and costs one slot at most.
- A:23-24 says a stale slot is re-read whatever its age; one that left the window is not
  visited (A:140-141).
- `SLOT_HOURS` is created empty and then written (A:134-136). After a kill between the two,
  every later run is refused as if it had another slot length (A:129-132), the same length
  included, against A:18-20. The mixture the check is there for never happens.
- S:239 says the tenants are loaded once. Two threads that find none both load the file; an
  edit in between gives them different tenants, and the second replaces what the first was
  routed with (S:240-241). The run and the theorems about routing are without it
  (`RacingEdits`).
- S:252 says a client is created on first use and kept. Two threads that find none make one
  each, and the second to store its own replaces the other (S:256-257, 260-261).
  `ClientsAreKept` is what holds: nobody else replaces it, and the credential is the same.
- S:351-354: if the tenant file cannot be loaded when the wrapper looks, the tool is run
  unrouted so that it can report the error itself; if the file was repaired before the tool
  looks, it runs in the default tenant. `ReachesItsTenant` and `TagIsTrue` speak of routed
  calls (`tagged`).
- K:224-236: a reference that is one tenant's id and another's domain means the former.
  `ReachesItsTenant` accepts either.
- S:1701 says `no_permission` is cached; it is not (S:1738-1739, `Kept`). S:3958 says that a
  permission that goes missing is noticed: within the hour of a cached "licensed" the
  summary says "licensed" although the risk lists were refused.
- S:1907-1909 says of `home_success_in_window` that the account signed in from home. The code
  compares user names as they are written (S:1517, 1535, 1550, 1609), so a home sign-in under
  another spelling of the account's name does not count, and the answer is false.
  `NotAtHomeIsProved` is what holds, per spelling; the run has an account with two.
- S:1930-1931 says the counts are case-insensitive. Without Microsoft's lists (S:1854-1856)
  they are of names as written (S:1670-1676). `AccountsAreCountedOnce` is what holds, with
  the lists.
- S:1825-1826: an account that rises from medium to high between the reads of the two risk
  lists is in neither.
- S:3118 advises naming the subscription when a VM cannot be confirmed. If the listing of
  subscriptions is capped, naming one by id does not confirm the VM either.
- S:3054 describes `other_categories` as the remaining categories; an event on the VM itself
  of another category than ResourceHealth and Administrative is in no section
  (S:3166-3167). `EventsAreShown` excepts it. Nor does it speak of an event on the VM logged
  between the two reads, which is in neither.
- docs/reference.md:427-428 gives the sections another order than S:3912-3919.

## 7. Not modelled, and why

Parsing, validation and formatting of arguments and answers; OData quoting; the syntax of a
tenant section (`TenantRouting` has the checks across sections); health_check, user lookup,
authentication methods, backup policies and service health, which shape one answer on top
of paging and routing that are modelled; tool registration and the entry point; the ISO
table; the smoke scripts. Of the archive: leftover temporary files (`os.replace` is one
step) and two runs over one directory at a time, of which the code promises nothing. Of
`daily_brief`: the shaping of summaries. Of the probe: another thread's
`compromise_suspects` at the same time. Of the statistics: counters, orders and the cut of
lists to 50 entries. Of `vm_activity`: the window's arithmetic, sorting, truncation and the
fields of a row. Of an audit record: all but its existence.

## 8. Plan

Done, in this order: the request with its contract, refinement and proofs; the write tools
over it; paging; the archive; VM backup; routing; daily_brief with the probe; the sliding
window, the sites cache and the statistics tools over both; the audit search over the write
tools; VM activity over VM backup; the abstract read; the proofs of section 5.

Left, most important first:

1. A second process in `Archive` for overlapping runs, if the program comes to promise
   something about them.
2. An abstract scan that answers "present", "absent" or "unknown" about a set that changes,
   which `VmBackup` and `VmActivity` would both implement.
3. `compromise_suspects` and `daily_brief` sharing the probe cache from two threads.
4. health_check's three probes with a deadline between them.

## 9. Running it

    tlc -workers 2 -config RestClient.cfg MCRestClient.tla
    tlc -workers 2 -config AuditSearch.cfg MCAuditSearch.tla
    tlapm RestClientProofs.tla

The module of each configuration is in PROJECT.json; the longest run takes about two minutes.
