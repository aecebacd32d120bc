# subenum: specifications and proofs

TLA+ models of [subenum](../src), a DNS subdomain enumerator written in Go, with
the TLC configurations that check them and the TLAPS proofs about them. Every
definition is translated from the source; `PROJECT.json` maps each one to the
lines it stands for.

Paths below are relative to the repository. `R` is `internal/scan/runner.go`.

    tlc -workers 2 -config MCScanFlat.cfg MCScan     # one run
    tlapm ScanProofs.tla                             # one module of proofs

## 1. The system

subenum takes targets and a wordlist, asks a DNS server about every
`entry.target`, and writes the names that exist. The interesting part is not
the lookup but everything around it: many goroutines share one rate and one
budget, a scan can be cut at any point and resumed by another process, the
resolver may be overloaded, wildcard-answered or lying, and what is written must
stay right through all of it.

| component | state it keeps | operations | hard because of |
|---|---|---|---|
| scan engine, `scan.Run` (`R`) | frontier, duplicate set, outcome and progress counters, settled entries and the watermark, four channels | preflight and wildcard checks, dispatch, lookup, expand a parent, guard, progress, shutdown | workers, dispatcher, ticker and caller run concurrently; a cancel at any step; shutdown order; a resume point over entries answered out of order |
| interrupt and resume (`main.go`, `main_resume.go`, `main_permute.go`) | signal code, per-target status and results, the state file | target loop, permutation pass, save, restore, remove | crash and restart, interrupts of resumed runs, budgets over several processes |
| resolver pool (`internal/dns/pool.go`) | per member: failure window, bench, canary count, contradictions, flag | pick, report, canary check, second opinion, confirmation | members lie, fail and race; verdicts from several workers |
| lookups (`internal/dns/resolver.go`) | per lookup: attempt, type, slots paid, queries dialed | attempts, types, Dial hook | Go's resolver decides how many queries it sends |
| wildcard detection (`resolver.go`, R:168-282) | fingerprint, verdict per parent | probe until the answers stop growing, match, probe on a near miss | answers rotate, probes fail, workers share and extend the fingerprint |
| rate limiter (`internal/dns/ratelimit.go`) | the next free slot | reserve, wait | callers that give up |
| takeover hints (`internal/dns/takeover.go`) | one entry per CNAME target | ask, look up, drop, wait | single flight with retry |
| DoT dialer (`internal/dns/transport.go`) | idle TLS connections | dial, probe, close, drain | an answer still under way on a reused connection |
| `-diff` and `Verify` (`main_diff.go`, `scan/verify.go`) | previous and current names, verification outcomes | observe, verify, count | cut verification, missing entries |
| library (`pkg/subenum`) | two channels, a forwarder | forward, drop after cancel, collect | slow or absent reader |
| TUI (`internal/tui`) | two screens, one scan, messages under way | keys, events, loader, output | messages of a finished scan, event listener re-armed by hand |
| start of a run (`main.go`, `main_config.go`, `main_resume.go`) | settings by source, inputs read, the state file's digests | apply config, environment and flags, read, compare, save | everything may change between an interrupt and its resume |
| end of a run (`main.go`, `scan/verdict.go`, `internal/report`) | status and result per target, verdicts | settle a target, grade, choose the exit code | refusals, aborts, signals and failing files in any combination |
| certificate logs (`main_ct.go`, `internal/ct`) | the names the logs gave, per target | append the new names to the entries, seed the permutations, save and replay | a fetch that fails in one run and succeeds in the next moves every saved index |
| lab server (`internal/dnsserver`) | open connections, the wait group, `closing` | UDP loop, accept loops, a goroutine per connection and datagram, `Close` | `Close` races connections just accepted, delayed answers and parked connections |
| lab zone (`internal/labzone`) | tables of names, wildcards and existing names; the query window | parse a line, answer a query, refuse above a rate | wildcards at the closest ancestor, whatever the order of the lines |
| results file and writer (`internal/output`) | buffer and sticky error, temporary file | emit, finish, close, rename | any of these fails, or the process dies |

Interactions: `run` (or the library, or the TUI) calls `scan.Run` once per
target and pass and consumes its event channel; workers call `Lookup` or the
pool, which take slots of the rate limiter carried by the context; every hit
goes through `emitResult` to the writer and into the state the next `-resume`
starts from.

What makes each component correct is what the properties below say; the hazards
they answer are listed, with their lines, in `PROJECT.json`.

## 2. Modules

    ScanContract   <---- refined by ---- ScanRun <- ScanProps <- ScanProofs <- ScanContractProofs
    MCScan (ScanProps) --------------------+
    ResolverPool <- ResolverPoolProps -----+-- MCDeep
    RateLimiter <- Lookup <- LookupProps --+
    ResumeRun <- ResumeProps <- MCResume --+
    LabZone <- LabZoneProps ---------------+
    ResumeGate <- ResumeGateProps ---------+-- MCOutcome
    Wildcard <- WildcardProps -------------+
    RunEnd <- RunEndProps -----------------+

    TakeoverCache <- TakeoverProps --------+
    DotDialer <- DotProps -----------------+
    OutputRun <- OutputProps --------------+
    LabServer <- LabServerProps -----------+-- MCParts
    DiffRun <- DiffProps ------------------+
    Library <- LibraryProps ---------------+
    TuiModel <- TuiProps ------------------+

    ScanProps <- ScanProofs <- ScanContractProofs        LookupProps <- LookupProofs
    RunEndProps, WildcardProps, LabZoneProps <- OutcomeProofs
    ResolverPoolProps <- PoolProofs
    ResumeProps, ResumeGateProps <- ResumeProofs
    OutputProps, LabServerProps, TakeoverProps, DotProps <- PartsProofs
    LibraryProps, TuiProps, DiffProps <- ClientProofs

`X <- Y` reads "Y extends X". `*Props` modules hold properties, `*Proofs`
modules theorems, `MC*` modules the values of the constants. MCParts shares one
run between seven components that do not interact in it: a behaviour belongs to
one of them and the others stay as they start. MCOutcome does the same for the
four that decide how a run starts, is interrupted and resumed, filters and ends,
and for the lab's zone; MCDeep for a recursive scan, the resolver pool its workers
ask and the lookups they make.

### ScanRun

One step per critical section, channel transfer or atomic counter of `Run`.
`main` is the goroutine of `Run` (checks, spawning, joins, `EventDone`, `close`),
`disp` the dispatcher, `wpc[w]`/`wjob[w]` a worker and its job, `tpc` the ticker.

* `jobs`, `enqueue` and `completed` are unbuffered: a transfer is one step of
  sender and receiver (`Dispatch`, the `Meet` actions).
* `events` is buffered; a send appends to the history and may happen arbitrarily
  late, which is how a full buffer is felt.
* A name is a sequence of labels, so entries with dots, exclusions of a host or
  of a subtree, and recursion (a child is `entry \o parent`) are exact.
* A lookup's outcome and a wildcard verdict are chosen freely; `found`,
  `filtered`, `nxdomain`, `failed` and a cancelled lookup are told apart, because
  the counters, the guard and the resume point treat them differently.
* `settled` and `watermark` are `rootDone` and the resume point (R:598-628).

ScanContract is what a reader of the events relies on: parents are opened, each
candidate in scope is tested at most once and only below an open parent, only a
tested name is reported, a lookup cut short never counts as a failure of the
resolver, and nothing happens after the end. `KeepsContract` maps the engine's
state to it.

### ResumeRun

`run` of `main.go` over its targets, with the state file and the `-o` file on
disk, repeated up to `MaxRuns` times. A `world` says what the scan is and what
exists: targets, recursion, cap, workers, wildcards, overload, permutations and
what the certificate logs know. `AskLogs` is the fetch, which may fail in one run
and not in the next; `CommitResults` the deferred close and rename, which comes
after `Finish` has removed the state file and may fail `MaxMissed` times. A scan is coarser than in ScanRun: jobs are handed out (`Hand`),
answered, reported, in any order within the pool; the watermark is the same. A
signal is three steps, as in the code (delivered, stored, context cancelled), a
kill takes any step, and `Restart` reads the file and re-emits.

### ResolverPool

Each step is one critical section of a member's mutex, or one lookup. `lies` says
per member whether it denies existing names, invents others, or neither; the
trusted resolver is truthful but may fail. `resolveViaPool`'s confirmation of
each hit is part of the module.

### RateLimiter, Lookup

`Reserve` is the critical section of `Wait`, `StopWaiting` its return; `handed`
is the history of slots. Lookup refines it: attempts, the types of one attempt,
one reserved slot per expected query, and the Dial hook that reserves another for
each query beyond them. Go's resolver is external: it dials, and answers.

### TakeoverCache, DotDialer, OutputRun

TakeoverCache keeps the code's steps apart: register under the mutex, look up,
delete under the mutex, close. DotDialer has one step per dial, write, read and
close, a server that answers late or never, and deadlines that may pass at any
time. OutputRun has the two buffers (the JSON results held until `Finish`, the
`bufio.Writer` with its sticky error), the deferred `Close` with its rename, the
exit code chosen before it, and a crash between any two steps.

### DiffRun, Library, TuiModel

DiffRun covers the -diff bookkeeping, the feed loop and workers of `Verify` and
the counting of its outcomes. A looked-up name may exist and yet have no record of
this run's types, whose outcome is that of a name which does not exist. Library covers the engine's channel, the forwarder
with its grace period after a cancel, and both ways to consume (`Run`, `Scan`).
TuiModel covers both screens, the loader, one listener per scan, messages under
way between Bubble Tea and the model, and the output file's fate.

### Wildcard

The zone is the set of answers its server gives to names that do not exist, which
rotate: an answer differs from the last one when there is another, and none stays
away for longer than `Window`. `Probe` and `Conclude` are `checkWildcard`, for the
root and for a parent; `AskAgain` is the cache of the parents' verdicts. Then
workers look up names of a wildcard zone: `Match` is `isWildcardAnswer`'s
comparison, `Revalidate` one of its fresh probes, which extends the fingerprint
all workers share. One lookup with its attempts is one step (its attempts are
module Lookup), and it may fail, or bring only some types' records, when `lossy`.

### ResumeGate

The start of a run up to its scan, a step per source of settings and per file
read, in the order of `run`; then the state file an interrupt writes. The user
edits the environment, the config file and the input files at any step, a
running process included. `original` remembers what the first, interrupted run
used; `stable` whether a file changed under a run that was using it.

### LabServer, LabZone

LabServer has a step per channel, lock or wait-group operation of the server's
goroutines; the wait group is the set of goroutines it still waits for. Clients
send, dial and hang up as they like, and a deadline may pass at any time. `Close`
is three steps: the connections under the lock, the listeners, the wait.
LabZone parses a file line by line into the three tables of the code, then answers
queries; the clock is there for `$REFUSE-ABOVE`, whose window is the code's. Its
property reads the lines themselves, in no order, with no tables.

### RunEnd

The loop over the targets as the report and the exit code see it. The result of a
scan is any that ScanRun allows: refused, stopped early, or finished with or
without the guard's error, a cut, a cap and some share of failures. The signal
is two steps, its code and the cancelled context.

## 3. Runs

| run | what it checks |
|---|---|
| `scan_flat` | shutdown order, one and last `EventDone`, the pending count, the resume point, the counters, for a live flat scan with a duplicate and an out-of-scope entry |
| `scan_deep` | types and the contract for a recursive scan, two levels, a refused target, a subtree out of scope; in the pool nothing injected, nothing hidden, nobody blamed wrongly; lookups keep the pace and return the outcome they earned |
| `scan_capped` | the cap's announcement and accounting, the contract, and that `Run` returns, for a resumed recursive scan with a query cap and a dotted entry |
| `parts` | the seven small components: reports, results, hints and DoT answers right, every listener, forwarder, asker and `Close` comes to its end |
| `outcome` | runs interrupted, killed and resumed end with what an uninterrupted one finds, each hit written once, within the budget; a resumed run goes on with the same scan; wildcard verdicts and filtering are right; report and exit code tell the truth; a lab zone answers what its lines say |
| `resume_skipped`, `resume_dotted`, `resume_logs`, `resume_commit`, `resume_inputs`, `diff_unchecked`, `abort_permute` | violations: section 6 |

Every property of a passing run has a mutant in `PROJECT.json`: a plausible bug
in the mapped code under which the same run fails.

**Bounds.** Two workers are enough for every race between a worker and another
goroutine and for two workers crossing a threshold together; no step involves
three. Four entries give the watermark a gap, a duplicate and an out-of-scope
entry at once; depth 2 is the first at which an expanded name comes from an
expanded name. `MinJobs` is 1 where the guard should trip and 100 where it must
not. A single progress tick suffices because a tick only reads. Three invocations
are the first number at which a resumed run is itself interrupted. The seven worlds
of the resumed run are a recursive scan by two workers (`Tree`) and one that meets
a wildcard parent (`Wildcarded`); permutations of one target under a cap and an overloaded resolver (`Permuted`); two targets
without permutations, with a working resolver, and by one worker; and recursion
with names of the certificate logs, one new and one in the wordlist (`Logged`).
In the passing run every results file is committed (`MaxMissed` 0), with 1 in
`resume_commit`. The pool runs
with an honest member beside a liar and with two liars, three lookups over two
names, `FlagAfter` 2 (the code's value is larger, the shape the same). Lookups
run with the default types A and AAAA, two callers and two attempts, up to clock
3: the first time at which a second attempt can end. Three askers share takeover
hints: one that looks up, one that waits, one that comes after; no asker makes
more than one entry, so nothing else bounds that part. Three queries share a DoT
pool of one connection, so it is found empty, taken and full. The results file
holds three results and the buffer two.
In `outcome`, the root's check starts with 3 probes and ends after 4 without news
or 10 in all, where the code has 5, `max(8, 4 x size)` and 128: zones hold three
records and three answers, alone, apart or overlapping, and none stays away for
more than 4 answers, so a check that ended early would miss one. Two
results matched by two workers are one that extends the fingerprint and one that
it is extended under. Two targets are enough for every mix of status and exit
code. Two settings, one of them unsaved, two files and two edits over three
runs: an edit undone by a second one, and a resume of a resume.
The lab server runs with one listener, a datagram and two connections of one query
each: one parked or delayed, one accepted as `Close` begins. A serial server is
not combined with `CloseStreamsAfter`, which concerns streams only. Zones have up
to three lines, the fewest with a wildcard, a name that hides it and one beside
them, out of thirteen that give every type, both kinds of alias and both
directives; three limited queries, two ticks to the second.

**Fairness.** Only `scan_capped`, for `Terminates`, and the liveness properties of
`parts` use it.
Weak fairness of each goroutine's steps is what Go's scheduler gives: a goroutine
that can run does. A lookup ends because each has its own timeout, the engine's
sends succeed because its consumer reads to the end. In the library a fair engine
and forwarder are assumed and **no** fairness of the caller: `ExitsAfterCancel`
says that after a cancel the forwarder ends although nobody reads. Of the TUI,
Bubble Tea's delivery of messages and the engine are fair, the user is not.
A takeover asker need never come; one that asked is fair. The lab server's own
steps are fair together; its clients and their deadlines are not, and nobody has to
call `Close`: `CloseReturns` says that a `Close` once begun ends without them.

**Deadlock** is checked in the scan runs, of the pool and the lookups too: the pool
rests only when nobody is in a lookup, the lookups only when all have returned.
MCParts and MCOutcome stop when their bounds are used up, and say so in
their configurations.

## 4. Proofs

TLAPS checks these for every value of the constants allowed by the modules'
assumptions, which state no more than the code does: the option checks (at least
one worker, a depth of at least one, an interval above zero), that a flag which is
not given differs from every value (`GateAssumption`), that a zone's answers and
their records are finite and an answer of a wildcard holds a record
(`WildcardAssumption`; without one the name counts as not found), and that a line of
a zone file is one `parseLine` accepts (`LabZoneAssumption`). `FilterIsExact` alone
has a hypothesis on the constants, `ShortRotation`, explained below; TLC evaluates it
in MCOutcome.

| theorem | property | says |
|---|---|---|
| **`ScanProofs`** | | |
| `TypeCorrect` | `TypeOK` | types of ScanRun |
| `NobodyOutlives` | `NobodyOutlivesRun` | when `events` is closed every goroutine that sends on it has ended |
| `FinalEventOnce` | `FinalEvent` | a closed channel carried exactly one `EventDone` and nothing follows it |
| `ResumePointSound` | `WatermarkSound` | no entry below the resume point is unanswered, unless out of scope |
| `PendingIsExact` | `PendingExact` | `jobs` is closed only when no worker holds a job, or after a cancel |
| `CapIsAnnounced` | `CapAnnounced` | a cap is announced exactly if it skipped candidates |
| `CountsAlwaysAgree` | `CountsAgree` | outcomes, totals and events agree; an unreliable scan fired the guard |
| **`ScanContractProofs`** | | |
| `EngineKeepsContract` | `KeepsContract` | the engine implements ScanContract |
| **`PoolProofs`** | | |
| `NobodyInjects` | `NothingInjected` | no member gets a name reported that does not exist |
| `HonestUnblamed` | `HonestNeverFlagged` | no truthful member is contradicted or flagged |
| `NobodyHides` | `NothingHidden` | one denying member hides no name |
| **`LookupProofs`** | | |
| `RateHeld` | | any two slots are an interval apart |
| `LookupsPaced`, `LookupsSpaced` | | lookups implement the limiter, so its guarantee is theirs |
| `PaceIsHeld` | `PaceHeld` | no query on the wire without a slot that is due |
| `RepliesEarned` | `ReplyEarned` | a reply is what the last attempt's types add up to |
| **`OutcomeProofs`** | | |
| `VerdictsTrue` | `VerdictTrue` | a failed probe makes no wildcard verdict false |
| `OwnNeverFiltered` | | a result with a record of its own is not filtered: half of `FilterExact` |
| `FilterIsExact` | `FilterExact` | under `ShortRotation`, an undisturbed scan also reports no wildcard answer |
| `ScenarioAnswered` | `AnswersAsZone` | a lab zone answers and limits as its lines say |
| `ExitCodeHonest` | `ExitCodeTrue` | the exit code says what happened to the targets |
| `CompleteHonest` | `CompleteMeansComplete` | a complete report is of targets scanned to the end |
| **`PartsProofs`** | | |
| `TargetNeverTruncated` | `TargetWhole` | the results file is the old one or whole, with a failure or crash anywhere |
| `SuccessHonest` | `SuccessMeansWritten` | exit code 0 follows no failed write |
| `CloseWaits` | `NoHandlerAfterClose` | when `Close` has returned, no goroutine of the lab server is left or about to start |
| `LookupsShared` | `LookupShared` | nobody looks up what another does |
| `AnswersAreOwn` | `AnswersMatch` | a query over a pooled connection reads its own answer |
| **`ClientProofs`** | | |
| `NothingIsLost` | `NothingLostWhileLive` | until a cancel the library's caller gets every event in order |
| `OneAtATime` | `OneListenerAtATime` | one message of a screen's scan under way |
| `TheEndTellsTheScan` | `EndTellsTheScan` | exit code and results file are the last scan's |
| `RemovedIsSilent` | `RemovedReportTrue` | only what was looked up again and has no record of this run's types is reported removed |
| **`ResumeProofs`** | | |
| `ResumedIsSameScan` | `ResumesSameScan` | a resumed run goes on with the same scan |
| `OneBudgetForAllRuns` | `BudgetCoversRuns` | one query budget for all runs of a pass |
| `ResultsSurvive` | `SavedSurvives` | while `missed = 0`, saved results are in one of the two files |
| `PointNeverAhead` | `StateCoversPoint` | what resolves below a saved point is among the saved results |
| `ListIsRebuilt` | `PermListRebuilt` | under `SameLists`, a resumed permutation pass has the interrupted one's list |
| `FileOnlyAdvances` | `StateOnlyAdvances` | the state file is only added to, or spent |
| `NoNameTwice` | | no run writes a name twice: half of `SameAsUninterrupted` |
| `CalmListIsRebuilt` | `PermListRebuilt` | under `Calm`, recursive or not, every run of a permutation pass has the same list |
| `ScansComplete` | `SameAsUninterrupted` | the run that finishes has written what one uninterrupted run finds, no name twice |

### The engine

*Shutdown.* None of the three shutdown properties is inductive: that nobody is
left at the close depends on the joins that came before. `ShutdownInv` follows
the order of `Run`: nobody exists before the spawn; a worker exits only after
`jobs` is closed; past each join the joined goroutines have exited; `EventDone` is
in the history exactly from the step that sends it on. Its key lemma
(`NothingAfterOver`) says that past the joins only `Run` itself can take a step.

*Resume point.* `WatermarkSound` speaks of names, the code settles indices: an
index is settled when its answer is in, when it is a duplicate, or when it is out
of scope. `MarkInv` says what a settled index means (`SettledMeaning`), that all
indices below the watermark are settled (`SettledBelow`), that an index already
dispatched has its name in the duplicate set (`RootsSeen`), and that the index a
job carries is its name's (`JobsRooted`). A duplicate is settled by its first
occurrence, which has the smaller index and so lies below the watermark too
(`MarkInvSound`).

*Pending, cap, counters.* `pending` is the number of workers with a job between
dispatch and completion, plus the one in the dispatcher's hand. `CapInv` ties the
announcement to the budget: skipping means capped, and capped means all of the
budget was handed out (`CappedSpent`). `TallyInv` relates each counter to the
number of outcomes by where each worker stands in the sequence of its own
updates: `Uncounted`, `Unfound` and `Sending` are the workers whose outcome some
counter has not seen yet. `GuardInv` says why the guard does not miss: once no
outcome is uncounted, the worker whose increment came last sees every failure
(`LastSeesAll`).

*Contract.* `Contract` has a step per event of a scan's life, and each action of
the engine maps to one or to a stutter (`EngineStep`). The mapping needs `EngineInv`: a parent
is open from its lookup's hit on (`GrownInv`), a name has one job (`NamesOnce`),
what was tested and what is under way add up to what was admitted (`BudgetInv`),
a verdict on a parent is not given twice (`DecideInv`), and every candidate of an
open parent is tested, under way, still queued, or skipped by the cap
(`CompleteInv`), so an uncancelled end leaves none.

### Pool, lookups, wildcards, ends

*Pool.* A caller carries what a member told it over several critical sections and
believes or blames it later. `GoesByTruth` says of each place in the code what
the caller may still count on there: that a member caught by a canary denies,
whose denial it doubts, what the trusted resolver then said. `NothingHidden` adds
that nobody is benched before a lookup has failed (`NobodyBenched`), so that the
rotation, proved to come to every member, finds the honest one.

*Rate and replies.* `SlotsSpaced` needs `BehindFree`: every slot handed out lies
an interval before the next free one. `PaceHeld` is an account (`Account`): the
slots that have come and nobody waits for cover the queries sent and those that
lookups under way have paid for. `ReplyEarned` needs one answer for every type
asked so far (`Kept`), unless a cancel cut the attempt short.

*Wildcards.* All that a check learns, and all that workers add to the fingerprint,
are records the zone serves; a check that ends without any has seen NXDOMAIN.

*Rotation.* That nothing is missing (`FilterIsExact`) rests on `LearnedInv`: without a
failed lookup, an answer not yet learned has stayed away since the check began. A
check that ends has sent enough probes for every answer to come round, or has seen
one answer only; then the zone has no other, because of two answers none of which is
a part of the other the second makes the fingerprint grow. `ShortRotation` says just
that: `Window` is at most `fingerprintProbes + StaleMin` and `fingerprintMaxProbes`,
and no answer contains another. With the code's 5, 8 and 128 this allows windows up to
13; a longer window is a zone the check does not claim to learn, and one that
nests its answers is in section 6. Every fresh probe
and every repeat of the check keep the fingerprint whole, so a name that does not
exist matches it (`ReportInv`).

*Lab zone.* `TablesSum`: an entry of the tables is what the lines at its owner add
up to, in any order (`Sums`), and `named` the names that exist. `covering` walks the
suffixes of a name; what it stops at is the closest encloser of the property, by
a least element of the suffixes that exist (`EncloserIsClosest`). From the two,
one lookup and the following of an alias agree with the lines (`AnswerSays`,
`ResolvedExpected`). `RateInv`: the queries counted in the window under way are
exactly those asked since it began, so a refusal means more than the limit within a
second, and an answer no more than the limit in this tick.

*Exit code and report.* The exit code is computed from a count, a flag and the
signal. `RunInv` ties these to the status of each target, and each status to what
the target's passes were.

### Files, caches, server, clients

*Results file.* `FileInv`: while the writer has not failed, what is in the file
and the buffer is, in order, what was emitted; a file about to be renamed has had
no error since, because the sticky error makes every later flush fail. Hence the
commit may look only at the last flush and the close.

*Takeover.* An entry has at most one owner; while that owner looks up, the map
still holds its entry (`OwnersTrue`), and a conclusive entry stays in the map
(`AnswersStay`), so there is never a second one to look up.

*DoT.* A connection in the pool owes nobody an answer (`PoolClean`); one in use owes
at most its own query's, unless it is marked bad (`HeldRight`), and a bad one does
not return to the pool.

*Lab server.* `LabIInv` says whom the wait group waits for: every goroutine that
was started and has not ended, except a datagram the serial loop answers itself;
a goroutine is only added by one that is waited for (an accept loop or the UDP
loop), so the group cannot grow from empty while `Close` waits.

*Library, screens, diff.* What the caller has, what the forwarder holds and what
is in the two channels is, end to end, what the engine sent. Of a screen's scan,
messages under way and the listener re-armed are one in number. A missing name has
one verification, under way, stored or never handed out.

### Runs over runs

All of it holds for any number of targets, entries, runs, interrupts and kills.

*Budget.* `BudgetInv`: what a pass has begun covers what it counted and has under
way (`PassCounts`), and its cap is what the earlier runs left (`CapIsLeft`).

*Results.* `SurviveInv`: what a run restored from the state file is among what it
has written and will save (`Restored`), for the targets it has reached; and a run
that removes the file has reached all of them (`Concluded`).

*Resume point.* `PointInv` says that the runs count alike: the entries are the same
in each (`LogsKnown`), a saved point is a position in them, and a pass starts where
the saved one ended and only moves on (`Onward`, `PassPoint`). `ToldInv` says what
a position claims: every entry below the watermark of the pass under way was
answered and, if it resolves, is among the hits gathered (`PassTold`), and the
same of what each target behind it will save (`Covered`). The watermark is the
first position not settled: `WatermarkIsLeast`, by well-founded induction.

*Permutation list.* `ListInv`: a permutation pass starts only when the main pass
has nothing left (`MainOver`), and the resumed run's main pass starts at the end
of its list, so it finds no further name and the seeds are the same. That needs
`SameLists`. A recursive resumed run expands restored names again and may find
more where lookups had failed (where none fails, see *Nothing left out*); logs that answer late bring names (run `resume_logs`); a target skipped
behind an aborted one loses its results (run `resume_skipped`).

*State file.* `StateOnlyAdvances` compares two versions of the file. `FileStep`
shows that only `Finish` writes it, from the file the run was started with, and
the inductive invariants give each part of `TargetAdvances`.

*No name twice.* A name restored from the state file is not fresh, and a pass emits
only what is. `WrittenOnce` says of a fresh hit already written that the pass
under way handed its name out and has it in flight no more, or that it is of the
main pass and the target is past it.

*Nothing left out.* `ScansComplete` is the sum of the others. What one run finds is
defined level by level, a name below a name found; as a set it is the least one that
holds the entries that resolve and, with a name above the depth, whatever
resolves below it (`MainHitsAreLeast`, by a least counterexample). A pass that is not
stopped comes to cover such a set. `PassRoots`: an entry handed out is settled, in
flight, or answered and not yet reported; nothing is lost between worker and
dispatcher. `PassDeep`: the children of every name found, restored ones included, have
been handed out or are queued, unless the worker that found the name has not reported
back. At the end nothing is in flight, unreported or queued, so all that
resolves is among the hits (`MainIsOver`). Restored names are why `Undotted` is needed:
the code judges their depth by their labels (section 6).
The list to permute is then `FullPerms`, whoever makes it (`PermCandidatesAre`), which
is also what makes `CalmListIsRebuilt` hold for recursive scans; its pass tells what
it hands out just as the main pass does, by the lemmas on `ListTold`.
`WholeInv` carries this over targets and runs: what is saved is no more than the
expected hits, covers its permutation point, and is all of them once the target is
done (`SavedWhole`); the same of the targets passed (`KeptWhole`) and of the one under
way (`WorkWhole`). That nothing else is written is `AllWritten`: the output of a
target is what it has gathered.

### Only model-checked

* All liveness (`Terminates`, `ExitsAfterCancel`, `ScanShownOver`, `HintReturns`,
  `CloseReturns`): fairness and ENABLED are out of this prover's reach.
* `SavedSurvives` after a results file failed to be replaced, `PermListRebuilt`
  outside `SameLists` and `Calm`, and `FilterExact` outside `ShortRotation`, where
  some constants break them (section 6).

## 5. Not modelled

* The link between Wildcard and ScanRun: a wildcard verdict is free in ScanRun,
  which allows every verdict Wildcard gives.
* Validation of options, `-attempts` against `-retries`, `-print-config`, the
  counters copied into the report.
* Wordlist normalisation and permutation of names: pure string functions.
  ResumeRun takes their lists as constants.
* `loadPrevious`, the JSON of the state file, SARIF, summaries, rendering:
  formatting. ResumeRun assumes that a resume finds its inputs unchanged, which
  ResumeGate checks.
* The certificate logs' HTTP request and the reading of its answer, DoH, TLS:
  library code.
* Of the lab server the bytes of a message, `DoHHandler` (net/http runs its
  requests), the certificate and the counters tests read; of a zone the syntax of
  names and values.
* The form of the TUI and its saved values: field editing and layout.
* The simulated resolver and the validation helpers: pure functions of one name.
* `tools/`, `data/`: not part of the program.
* Time: deadlines may pass at any moment, except in RateLimiter and in the
  pool's bench, which have a clock.

## 6. What the models found

Seven runs end in a counterexample to something the repository says:

* `resume_skipped`: targets skipped after a resolver abort lose their saved
  results when a signal follows (`main_resume.go:297` keeps only status `""`).
* `resume_dotted`: a resumed recursive scan judges the depth of a restored name by
  its labels (R:592), a scan that finds one by its job's (R:839). An entry of two
  labels found before the interrupt is not expanded again, so its children that
  were not yet tested are lost, against README:368. Hence `Undotted` in `Calm`.
* `diff_unchecked`: names a cut verification never handed out count as still
  resolving, because the zero `Outcome` is "found" (`main_diff.go:154`).
* `abort_permute`: when the guard aborts a target's permutation pass, the next
  targets are scanned with the overloaded resolver all the same; only the main
  pass's `resolverAbort` is tested (`main.go:972`, README:382).
* `resume_logs`: names of the certificate logs are not saved when the fetch failed,
  so a resumed run that reaches the logs rebuilds another list of permutations
  than the one its saved position counts in.
* `resume_inputs`: the digests of the input files are taken at the interrupt
  (`main_resume.go:289`), not when the files were read: an exclude file changed
  while the run used it is resumed as unchanged, against README:368 ("refuses to
  start if an input file ... changed"). The wordlist is safe through its entries'
  digest. `ResumesSameScan` asks for the inputs only while `stable`.
* `resume_commit`: the state file of a finished run is removed (`main.go:1003`)
  before the results file is renamed into place (`main.go:812`): one failed rename
  loses the restored results.

Smaller disagreements met while modelling, without a run of their own:

* A resumed recursive scan expands restored wildcard parents without the check their
  first expansion had (R:585-597, `docs/ARCHITECTURE.md:94`): `Unhindered` excludes
  wildcard parents.
* A rotating wildcard whose first answer contains the others it gives to the first
  probes ends the check there although its answers differ (`resolver.go:492` compares
  sizes; `docs/ARCHITECTURE.md:78` says "when their answers differ"): with the answers
  {r1, r2}, {r1} and {r3} the last is never learned and its names are reported. Hence
  the last conjunct of `ShortRotation`.
* A previous name that exists, but has no record of the types this run asks for, is
  reported removed: `OutcomeNXDomain` is the outcome of NODATA too
  (`resolver.go:38-41`, `380-386`), and `emitRemoved` tests only that
  (`main_diff.go:155`), although "only an NXDOMAIN answer counts as removed"
  (`docs/monitoring.md:37`, `main_diff.go:136-138`). A run with `-type A` over a
  results file made with A and AAAA reports every name that has only AAAA.
  With `MCExisting` TLC finds `removed \cap Existing = {}` violated in the diff
  part of MCParts, by a behaviour of 15 states. `RemovedReportTrue` therefore speaks of names without a record
  of this run's types, not of names that are gone.
* A rename or close that fails under `-diff` with changes, or with some targets
  failed, leaves exit code 4 or 3: the deferred close only turns 0 into 1
  (`main.go:816`), although 1 is "the output file failed" (README:375).
  `SuccessMeansWritten` speaks of code 0 only.
* Under `NoAbort` a mere warning makes the library's `Scan` return an error
  (`subenum.go:425`) documented to mean incomplete results (`subenum.go:397`).
* With an explicit `-seed 0` the replayed arguments hold no seed
  (`main_resume.go:246`), so a resumed simulation draws another one, although
  "the resumed part simulates the same answers".
* With `-diff` and `-o` on one file an interrupted run replaces its own baseline by
  partial results (`main_resume.go:195`); the resumed run compares with those.
* The permutation pass's verdict is no part of the target's or the run's
  (`main_summary.go:39`), so a report can be `complete` although that pass was
  aborted; `queries_sent` leaves the pass out as well. `CompleteMeansComplete`
  speaks of the main passes.
* A near miss whose fresh probes are cut by a cancel is reported as a result
  (R:275 ignores the outcome).
* A bad `SUBENUM_*` or config value leaves the flag at zero while `-print-config`
  names the old source (`main_config.go:109`).
* The guard compares the failures counted now with the processed count its worker
  had earlier (R:902): it can report more than 100%, and fire a little below its
  20%. `CountsAgree` says it never misses: a scan that ends above the limit has
  told so.
* A resume can repeat more than one worker pool of lookups (README:368): answers
  not yet reported to the dispatcher count too.
* With `-recursive`, a resumed permutation pass rebuilds a different list when a
  child's lookup failed the first time (`main_permute.go:82-84`).
* Lookups cut by an interrupt are not charged to `-max-queries` of the resumed run.
* A pool member is asked once more after the canary check that flags it
  (`pool.go:63` against `pool.go:318`); its answer is still confirmed.
* Queries refused their extra rate slot are counted as sent
  (`resolver.go:131-140`); ARCHITECTURE.md:179 speaks of an end "without
  EventDone" that `R:439-446` does not have.
* ctrl+c in the TUI after the engine sent `EventDone` but before the screen
  handled it labels a complete scan interrupted (`model.go:212`).

## 7. Plan

1. `mergeStats` and the report of a resumed run in ResumeRun.
2. The loader of previous results, the wordlist and the permutations against
   reference definitions.
3. Wildcard as a component of ScanRun: the verdicts it takes are those the check
   gives, also for recursion.
4. Proofs of `AllFound` with wildcard parents and dotted entries, once the resumed
   scan treats restored names as it treated them when it found them.
