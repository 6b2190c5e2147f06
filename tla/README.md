# A verification of EduSafety

EduSafety lets teachers have an app of theirs reviewed and certified.  It is an
Express server over PostgreSQL that issues, publishes, verifies and revokes
certification badges for commits of GitHub repositories under certification
policies, scans a public URL on request, and keeps review records; a React
application in which a reviewer loads a repository, scans it, has an AI draft
judgments and decides; and a skill with which an AI agent writes a report into the
project it reviews.  This directory holds TLA+ models of its parts, the TLC
runs that check them and proofs of what matters most.  Paths below are relative to
the repository's root (`src/app.ts` is the application's server file, `README.md` in a
path with a line number the repository's own).

## 1. Inventory

For each part: the state it keeps, its operations, what it interacts with, what is
hard about it and what makes it correct.

**Badge issue service** (`src/certification/issue-service.ts`, with
`saveIssuedBadge`, `saveRejectedAnalysis` and `getBadgeBySubject` of
`src/db/postgres-repository.ts`).  State: `#inFlight`, a map of promises in each
process, and the tables of analyses and badges.  One operation, `issue`: read the
ACTIVE policy, pin it, share the promise of a flight with the same URL, commit and
policy or start one; the flight asks GitHub for the repository, looks for an existing
badge, analyses, and stores a rejected analysis or signs and stores a badge.  Hard:
a dozen awaits between which anything may happen, several processes that share only
the database (on Vercel there may be several), a unique index that
makes an INSERT wait for somebody else's transaction, a COMMIT whose answer is lost,
GitHub that names another repository the second time it is asked.  Correct: one badge
per subject, nobody told of a badge that is not stored, nobody told of a badge he did
not ask for, every call answered.

**Policy service** (`src/certification/policy-service.ts`, and `createDraftPolicy`,
`updateDraftPolicy`, `publishPolicy`, `nextPolicyVersion` of the repository).  State:
the policies with status, version and snapshot, the version sequence, the audit log,
row locks and one advisory lock.  Hard: the service checks what it reads without a
lock and the transaction checks again; publications replace each other; two kinds of
locks.  Correct: one ACTIVE policy, what was published is frozen, distinct versions,
an audit log that tells which policy was in force, no deadlock.

**Badge verification and revocation** (`src/certification/verification-service.ts`,
`revokeBadge`, `getBadge`, `listBadges`, `getDefaultBranchHead` of
`src/github/client.ts`, the handlers `src/app.ts:700-724` and `:769-792`).  State: the
revocations and their audit rows; outside, the repository on GitHub and the clock.
Hard: concurrent revocations of one badge, a status compiled from a row read before
two requests to GitHub, a name that changes hands between them.  Correct: one
revocation and one audit row, whoever revokes sees it, no VALID without a
branch of this repository at the certified commit.

**Rate limiters and gates** (`src/http/admission-control.ts`, used at
`src/app.ts:345-496, 538-577, 726-768`).  State: per process, a bounded map of
counting windows and a counter per gate.  Hard: window boundaries, eviction at the
limit, Retry-After rounding, gates released in several `finally` blocks and, for a
scan, twice.  Correct: how much gets through in any span, whom it refuses and
forgets, no place at a gate lost or given back twice.

**URL check** (`src/components/SecurityAuditPage.jsx`, the route `src/app.ts:345-496`,
`src/security-scan/service.ts`, `anthropic-summary.ts`).  State: the page's field, the box
ticked for it, the key, the result and the request under way; on the server two
gates and the deadlines of a probe.  The page asks for the settings, then for scans; the
scanner resolves, probes under a deadline, reads a body up to a limit and evaluates; an
optional AI summary has a fallback.  Hard: everything of the page changes at a
different time, an answer may come after the page was left, a body may end at the
limit.  Correct: what is shown belongs to the field, what is sent was confirmed, a page
that is said to be checked as a whole was read as a whole.

**Source analysis** (`collect` of `src/github/client.ts`, `src/analysis/`).  No lasting
state: a walk over a commit's trees, batches of blobs, evaluators, a decision.  Hard:
five limits, each of which leaves something unread; requests that fail; a
repository that is renamed or replaced meanwhile.  Correct: what passes is clean as a
whole, what fails does so for a reason in the commit.

**Review screens** (`src/components/ReviewMode.jsx`, `src/lib/reviewAi.js`,
`reviewSummary.js`, `ledger.js`, `certificationBadge.js`, with `App.jsx`).  State of a React
component with answers that arrive long after they were asked for; a run number
and request ids guard most of them.  Judgments of several chunks are merged and summed up
with the reviewer's own; a record goes to the browser's ledger and in a copy to the
server.  Hard: loads, AI answers, badge answers and copies in any order, new reviews
between them.  Correct: nothing of one review gets into the next, a pass rests on
quotations that were found or on the reviewer, what is called saved is saved.

**Report of the skill** (`skill/edusafe/scripts/render.mjs`, called as `SKILL.md` says).
State: the folder `edusafe-report/` with the report at its top, `history/` and a staging
folder.  An AI writes a report, `validateReport` holds it to a contract, `swapStaging` moves
eight files one by one and undoes its moves when one fails.  Hard: failures and kills
between any two moves, undoing that fails itself, verdicts and sums that an AI
wrote.  Correct: no report is lost, the top is of one run unless an error said so, no
failed sub-check is hidden.

**Rule scan of the skill** (`scan.mjs`, `scan-rules.mjs`): from texts to findings.
**Signing** (`src/certification/attestation.ts`): hashing and EIP-712.
**Review records** (`src/db/review-repository.ts`): a table whose `round` is counted
in a subselect of the INSERT; two saves of one target race.
**Runtime** (`src/bootstrap.ts`, `src/server.ts`, `src/http/vercel-adapter.ts`): one
module variable, `runtimePromise`, set on the first request, cleared by a failure and
by closing.
**Administrator sessions** (`src/auth/admin-auth.ts`): signed cookies, no state.
**Start-up** (`src/db/client.ts`, `migrate.ts`, `src/config.ts`), **pages, badge images,
scripts, presentations**: I/O, rendering and texts.

How they interact: the policy service determines the ACTIVE policy that a flight
pins (`ActivePolicy` is the interface between the two models); a flight runs the source
analysis; the review screens ask for a badge through a limiter and a gate; a badge that was
issued is verified by the same request and by the public afterwards; verification
and analysis share the GitHub client; everything persistent goes through
`withTransaction` or a single statement.

## 2. Modules

| module | what it is |
| --- | --- |
| `ActivePolicy` | abstract: a register of the ACTIVE policy that is replaced in one step |
| `PolicyLifecycle` | the policy service and its transactions; implements `ActivePolicy` |
| `BadgeRegistry` | abstract: a subject is given one badge once, callers are told of it |
| `BadgeIssue` | flights in several processes; uses `ActivePolicy` as environment, implements `BadgeRegistry` |
| `BadgeVerification` | revoking, listing and verifying badges, with GitHub as environment |
| `FixedWindow` | `FixedWindowRateLimiter` as operators on its map |
| `RateLimiter` | one limiter over time, with clients and a clock |
| `Admission` | the three limited handlers: four limiters (`FixedWindow`) and four gates |
| `UrlScan` | the URL check: page, route, scanner and summary |
| `SourceCollection` | one analysis of a commit: `collect`, the evaluators, the decision |
| `ReviewVerdicts` | drafts of the AI and the summary of a review, as operators |
| `ReviewSession` | a reviewer's browser; uses `ReviewVerdicts` |
| `ReportContract` | `validateReport` and its rollups, as operators |
| `ReportFolder` | runs of the skill and the swap of their files; uses `ReportContract` |
| `MC*` | the same for TLC: symmetry sets, constant functions, contents of commits and reports |
| `*Proofs` | theorems and proofs |

### How state and actions correspond to the code

The unit of interleaving is what the event loop and PostgreSQL make atomic.  In each
model a phase is the await at which a call is suspended, and an action is the code
from one await to the next, with everything it changes.

*BadgeIssue.*  `inFlight[i]` is `#inFlight` of process i, its key the normalised URL, the
commit and the pinned policy.  `Join`/`Lead` are the synchronous test and set after the
second await of `issue`.  A flight's leader runs `Resolve` ... `AnswerIssued`; `Settle` is
`promise.finally` together with the answers of all who share the promise.  A transaction of
`saveIssuedBadge` is `tx[r]`: `Insert` has sent its COMMIT, `CommitApplied` and
`CommitDropped` are what the database makes of it, also after the process died.
`MustWait` is the wait of the unique index, `InsertConflicts` and `AnswerWinner` the 23505
branch.  `Crash`, `Rename` and `Publish` are the environment.  A uid is named by the call
that signed it, since the salt is random.  A commit, a URL and a policy are names;
whether the analysis passes is a free choice.

*PolicyLifecycle.*  A call is one administrator's request: read (`Find...`), resolve the
criteria (`Resolve...`), then the transaction with its locks in the order of the code.  A
transaction's writes appear at its COMMIT, as READ COMMITTED shows them.  The partial
unique index and the immutability trigger are deliberately no guards: the
properties show that the transactions never run into them.  `Refuse` is every
throw of the service and the repository, `Fail` a query or connection that fails.
The criteria table is one value, `Usable` or not; a snapshot is who wrote it last and
the state of that table.

*BadgeVerification.*  `Insert` with ON CONFLICT DO NOTHING waits while another open
transaction has inserted the same uid; `CommitUnanswered` is a COMMIT that was applied
while the connection broke.  `Read` is one query with its join, `Judge` runs `verify` to its
first await, `AskMetadata` and `AskCommit` are the two requests to GitHub, which address
the repository by name: `holder` is who has the name, and only the first answer
carries an id.  A list verifies its badges concurrently.  `known`, `began` and `heard` are
history: what was revoked, what time it was and what the name stood for while
the request ran.

*FixedWindow, RateLimiter, Admission.*  The map is a sequence in insertion order, which
is what `#touch`, `#pruneExpired` and `#makeRoom` rely on; they keep some of its positions, as
`Keep` does.  `recent[k]` is history: a numbered pair for each request of k that was admitted
within a window.  A handler asks its limiters and its
gate in one synchronous step; `closures[c]` are the `release` functions it has not called.

*UrlScan.*  The page's variables are the component's `useState`s; `scan[n]` is the n-th
request with its URL, key and tick as they were sent, and what the server has of it:
`dns`, `probe`, `body`, `summary`.  `Read` takes one chunk of a body and
cuts what is over the limit.  `Answered` is the page getting the server's answer, a result or an
error, `Unreachable` its `fetch` being rejected, `Leave` its unmount: the page aborts nothing, so
the request goes on unless the window is closed.  `LookupLate`, `ProbeLate` and `SummaryLate` are
the deadlines (`withDeadline` twice, and the timeout given to the AI's client).  A body is a length with or without
something bad at its end, where a limit would miss it.  The header checks
are named, not parsed; the choice of the AI's model on the page is left out.

*SourceCollection.*  `ReadMetadata` ... `ConfirmCommit` are the requests of `collect` in
their order, each of which may fail; `ReadTree` takes a directory from `queue`, a `Batch` of
blobs is fetched concurrently and taken in the order of paths (`EndBatch`, `TakeAll`).
A commit is a function from directories to listings, the name of a tree standing for the path of
its directory, and a path of a file its rank (`InOrder` sorts by it); `Directories` are those that
are reached from the root.  `Change`
is the environment: the repository is renamed, replaced by another of its name, hidden or
shown.  A blob is its size and the marks the evaluators look for; `Decide` is
`analyze` after collecting.

*ReviewVerdicts, ReviewSession.*  `loads`, `asks`, `orders` and `copies` are promises under
way, each with the run in which it was started; `NetworkAnswers` answers any of them.  The
screens' handlers are actions of their own names (`load`, `runSuggest`, `runJudge`,
`setOverride`, `requestCertification`, `saveToLedger`, `resetAll`), offered by the step they
are on.  An ask counts the chunks it waits for by first and second attempt; the answers'
contents are chosen when the last is there, since nothing depends on them before.
`Validated`, `Merged`, `FinalVerdict` and `Status` are the functions of `reviewAi.js`
and `reviewSummary.js`.  `Suggested` overwrites what was ticked meanwhile (`ReviewMode.jsx:159`)
and `CopyAnswered` has no guard against a later review (`:254`), as in the code.  The
rubric has no required item that only a human may judge, so a reason of `setHumanReason`
has no effect and is not modelled.  A record's flag that it is certified, which stays false when it is
saved while the answer is out, is left out with the other texts of a record.

*ReportContract, ReportFolder.*  `top`, `staging` and `history` say which run made each
file.  `Archive`, `Place`, `Unplace` and `Unarchive` move one file, in the order of
`REPORT_FILES` and back; `Fault` makes a move fail, `Kill` ends the process.  `Valid` is
`validateReport`, its rules about single fields one flag.  Folders of `history` are
in the order of their stamps; two runs within one second and a clock that is set
back are not modelled.

## 3. Runs

| run | asks | bounds | distinct states |
| --- | --- | --- | --- |
| `issue` | one badge per subject, answers agree with what is stored and asked for, flights and their keys; the refinement of `BadgeRegistry`; is every call answered | 2 calls, 2 processes, 1 URL, 2 revisions, 2 policies, 1 rename, 1 crash | 249 k |
| `policy` | ACTIVE, acknowledgements, audit log, the published is frozen; the refinement of `ActivePolicy`; does every call end | 2 administrators, 2 policies, versions to 2, criteria usable or not | 319 k |
| `revocation` | one revocation, who sees it, does every request end | 2 requests, 2 badges (one expires, one is broken), 1 tick | 361 k |
| `badge_head` | what VALID and STALE mean while GitHub changes | 1 request, 2 repositories, 2 branches, 2 commits | 66 k |
| `limiter` | what a limiter admits, refuses, forgets and promises | 3 keys for 2 entries, limit 2, window 3, second 2, time to 7 | 159 k |
| `admission` | gates and password checks | 1 issuance, 2 logins, 2 scans, 2 clients, 2 accounts, time to 2 | 2.2 M |
| `url_scan` | what the page shows and sends, what it says was covered, does a scan end | 2 scans, 2 URLs, bodies to twice the limit, gates of 1, 5 moves of the user | 1.6 M |
| `collection` | what a pass and a fail of an analysis mean | 5 entries, 3 files, 3 units of bytes (2 in a file), depth 1, 2 at a time, 2 changes of the repository | 575 k |
| `review` | late answers, saving, badge requests, what a pass rests on, does the screen get free | 2 reviews, of 2 chunks and of 1, 3 items, 2 moves | 476 k |
| `report` | what is rendered, what a swap leaves | 3 runs, 2 faults, history of 1 | 89 k |
| `limiter_per_minute` | finding, below | 1 key, limit 6, time to 12 in tens of seconds | until the violation |
| `usage_is_billed` | finding, below | those of `review` | until the violation |

Why these bounds are enough.  *issue*: two calls lead and join, or race in two
processes; one rename and two policies give each key a reason to differ, one crash
leaves a transaction whose owner is gone.  More calls and several URLs of one repository are
covered by the proofs, which hold for any number of each.  *policy*: two administrators
race, and two policies let one replace the other; longer successions and more
administrators are again in the proofs.  *revocation*: a race needs two
requests.  *limiter*: two entries and three clients evict, `limit` 2 makes twice the limit differ from
one more than it, and a second of two units makes rounding visible.  *url_scan*:
two scans let an answer belong to the one before; a unit below the limit, the limit
and a unit above it are all lengths.  *collection*: `MCSourceCollection` lists
commits at and beyond each limit, one for each way to leave something unread.
*review*: two reviews make an answer late, two chunks an ask half answered; the
reviewer's two moves (choices, requests and records) are few but come at any point.
*report*: three runs make a report go to history and be trimmed there; the second fault is the
one that hits the undoing.  `MaxTime`, `MaxMoves`, `MaxCrashes`, `MaxVersion`, `MaxChanges`,
`MaxReviews`, `MaxScans`, `MaxRuns` and `MaxFaults` are the only caps on counters.

CHECK_DEADLOCK is FALSE where requests are a finite set that is answered or a user may have made
the moves of the bound; `policy` and `limiter` check for deadlock.

### Fairness

*issue*: weak fairness of a call's next step and of the database ending a
transaction.  The event loop resumes a continuation whose promise settled; GitHub
requests carry a timeout of 15 s; PostgreSQL detects a broken connection or
finishes the COMMIT.  Nobody is obliged to call, to publish or to fail.
*policy*: weak fairness of steps and strong fairness of lock acquisition, since
PostgreSQL queues waiters and a lock that is freed again and again is handed to each
in turn.  *revocation*: weak fairness of a request's steps.  A GitHub request ends
with an answer or its timeout, so `HeadUnknown` belongs to them; a query is not
assumed to fail, since neither a statement nor a lock timeout is configured.
*url_scan*: weak fairness of `Due`, what the server does without being answered: its handler takes
up a request that arrived, and the timers of lookup, probe and summary fire; and of `Answered`, an
answer that the server gave reaching the page.  Name servers, the target and the AI may never
answer, fail or finish a body (`Heard` has no fairness), and a broken connection need not show
(`Unreachable` has none, since the page's `fetch` has no timeout).  So `ScanEnds` rests on each of
the three deadlines: a run without any one of them violates it.  It presumes that the network
delivers the request and the answer, where the page would wait as long as the browser does, and
that the timeout of the AI's client, external code, bounds the whole call.
*review*: weak fairness of the network's answering: the requests of browsers and of the
AI's client end in an answer or an error.

### Findings

`limiter_per_minute`: `README.md:138` says that public issue requests are limited to "IP별
분당 6회", six per IP and minute.  A window starts with the first request it admits and is
forgotten as it ends (`src/http/admission-control.ts:52`), so up to eleven requests of one
client get through within sixty seconds.  `SlidingBound` of `limiter` states the bound that
holds: fewer than twice the limit in any span as long as a window.

`usage_is_billed`: the comment at `src/lib/reviewAi.js:268` says that `onUsage` is called for every
response, failed attempts and refusals included, because the cost that is told must equal
what is charged.  `judgeItems` adds the usage up in a variable that is dropped when
`Promise.all` rejects (`:356`), and so does `suggestFeatures` (`:313`), so after a run that
fails the screen tells of fewer calls than were billed.

Seen while modelling, and no property of the code's own words forbids it: a file that has
the name of an excluded directory (a file `build`) is skipped without making the
coverage incomplete (`src/github/client.ts:231`); when undoing a swap fails for a placed file and
then succeeds for the archived one, the new file is overwritten
(`skill/edusafe/scripts/render.mjs:1106`), although the old report survives.

## 4. Proofs

For every value of the constants, under the named ASSUMEs of the modules: finite gates, positive
limits and windows (`OptionsAssumption`, `AccountOptionsAssumption`, `LimitsAssumption`), `None` not a
member of the sets, and commits that are finite with no path twice (`CommitsAssumption`; the code
marks a listing that repeats a path as incomplete, the kind "unsafe").  Each module defines its
invariant (`Inv`, or one of several: `HeadInv`, `LimiterInv`, `CollectionInv`), proves that `Init`
implies it and that each action keeps each conjunct it may disturb, and draws the theorems from it.

Inductions over numbers, for the recursive functions `Keep` and `TakeAll`, take a set instead of a
predicate: a set of numbers that is not all of them has a least outside it (`WFMin` of
the library), which is 0 or follows one inside (`NatUpTo`).

* `BadgeIssueProofs`: types (`TypeCorrect`), `OneBadgePerSubject`, `IssuedIsStored`, that whoever loses a race finds
  the winner, and that all answers about a subject agree.  None of these is inductive.  `Inv` adds that the
  committed badges are those of the committed transactions (`BadgesAreCommitted`), and
  that an open transaction is the only one of its subject, for which nothing is
  stored (`OpenIsAlone`): the promise of the unique index, and what
  `CommitApplied` needs, which may happen long after the caller has gone.
  Of flights it proves `InFlightIsRunning`, `IssuedAsAsked`, `PassAnalysisHasBadge`,
  `OneFlightCreates` and the refinement of `BadgeRegistry`.  On top of `Inv` they need what a flight's
  leader knows of its subject at each phase (`NamesKnown`, `RevisionNamed`), that a
  caller's flight has a leader with his key (`FlightsLed`), and that only the flight that committed a badge says that
  it is new (`CreatedByFlight`).
* `PolicyLifecycleProofs`: `OneActive`, `PublishedIsFrozen`, `PublishedOnce`, `SuccessionIsALine`, that no version is
  given twice, and the refinement of `ActivePolicy`.  `Inv` says that the advisory lock is held exactly in
  the phases that read or change which policy is ACTIVE (`AdvisoryHeld`), so what a
  publication read of it still holds when it commits (`ReplacesActive`), and that a
  draft that was checked under its row lock stays a draft (`DraftStays`); `Told` and
  `Logged` tie acknowledgements and audit rows to what was published.
* `BadgeVerificationProofs`: `OneRevocation`, `RevokeAnswerIsFinal`, `RevocationStands`.  `Inv`
  says that whoever has inserted a row is about to commit it and nobody else has
  (`InsertedIsNew`), and that whoever has not has seen the row of another
  (`ConflictIsSeen`); so the second read of `revokeBadge` finds a revocation.
  `HeadIsOfThisRequest` follows from `HeadInv`: a request under way has heard of what the
  name stands for now, and one that asks for a commit has found the badge's repository.
* `AdmissionProofs`: `GateIsExact`.  A call holds the closure of a gate exactly while it does
  that gate's work (`ClosuresMatch`), so every step moves a call and a counter
  together; the second call of a scan's `release` finds its closure used.
  Of a limiter, `SlidingBound`, `RetryIsEnough`, `ForgetsLeastRecent` and that the history they speak of
  is exact (`HistoryIsExact`).  `LimiterInv` ties every entry to the admissions of its key (`Tracks`):
  those since the window opened are numbered up to the count, and of those before it at most one
  less than the limit are younger than a window, since the first of them opened a window
  that has ended; twice the limit less one is the sum.  What was told a refused key is still true
  of its entry (`Told`), and the entries lie in the order of their keys' last requests
  (`EntriesInOrder`), from which it follows whom `#makeRoom` forgets.  `ChecksBounded` is the same fact
  of the login handler's accounts while all of them fit into the map (`AccountsHold`); with more
  accounts a forgotten one starts anew, and no bound holds.
* `SourceCollectionProofs`: `PassIsClean`, `FailIsGrounded` and the types.  `CollectionInv` says that
  there are directories that were read (`WalkIs`) such that, with the queue and while the coverage is complete,
  every tree found in them is read or queued, nothing in them is hidden and
  all their files are eligible (`ReadIs`).  The queue empty, they are closed under subdirectories and
  so all there are (`DirectoriesAre`).  `FilesAre` says that each
  eligible file up to `start` was taken or made the coverage incomplete, so those collected are all files
  of the commit (`CompleteIs`) and the evaluators see what there is.  In the other direction `CoverageIs` gives
  the reason of an incomplete coverage: an interruption, a file that was refused, or the
  commit itself (`Grounds`).  What taking a batch amounts to is a lemma about `TakeAll`,
  what a listing's trees and sorted files are, one about `InOrder`.
* `UrlScanProofs`: `ShownIsOfField`, `SentAsMeant`, `CoverageIsTrue`.  `Inv` says
  which scan the page waits for and that only of the field it holds, that a scan's
  confirmation was given for its URL, and how much of a body was read when it was cut.

* `ReviewSessionProofs`: `OnlyThisReview`, `SavedIsCurrent`, `CertificationIsOfThisRequest`,
  `PassIsGrounded`, `DraftsStand`.  `Inv` numbers the reviews and the orders of a badge, says what an
  unanswered request may be of, that one load, suggestion or judgment of the review at hand is awaited while
  the screen is busy with it (`LoadIsAlone`, `AskIsAlone`), so a late answer meets no draft it could
  replace, that drafts come from quotations that were verified (`DraftsSound`), and that reasons stand
  beside overrides only (`HumansGiveNone`).
* `ReportFolderProofs`: `RenderedIsHonest`, `TopIsWhole`, `FailureIsUndone`, `FoundIsKept`.  During a
  swap what was found at the top and is not in its place lies in the newest
  folder of history under its own name (`FoundSoFar`); while no undoing has failed, which
  files are where follows from what was moved so far (`Exact`).  That a valid report
  is honest is a lemma about the contract alone (`ValidIsHonest`): three sums
  over disjoint sets of items.

`TypeCorrect`, `CollectionTypes`, `LimiterTypes` and `NoVersionTwice` are proved of variables and versions
without a run of their own.

Only model-checked: everything under fairness (`EveryCallAnswered`, `EveryCallEnds`,
`EveryRequestEnds`, `ScanEnds`, `BusyEnds`), which is outside what the proof system does, as is
ENABLED.  Every other property of the runs that pass is a theorem.

## 5. Not modelled, and why

Canonical JSON, hashing, EIP-712 signatures and cookies are computations whose
correctness is that of their algorithms; a signature is a fresh name and a proof that
matches or not.  The rule scan of the skill and the single evaluators match texts: a blob
has the marks they look for.  In the browser reading, redacting and scanning of files
(`github.js`, `localFolder.js`, `redact.js`, `scanner.js`, `submissionGate.js`) are their
outcome only.  Rendering of Markdown and HTML, the skill's digest, start-up, migrations, scripts
and presentations have no behaviour over time.  Review records of the server are two single
statements: the race for a round is in the list of hazards, and nothing reads the round again.
A wall clock that is set back is not modelled.

## 6. Plan

1. `ServerRuntime` (`src/bootstrap.ts`): first requests, failures and closing race for
   `runtimePromise`; one runtime and one pool at a time, every pool closed.
2. Proofs: the bound of `SlidingBound` for the endpoints of `Admission`, whose limiters
   are of the same operators; the summary of a review (`ReviewVerdicts`) as a theorem of its own.
