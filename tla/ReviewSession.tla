---------------------------- MODULE ReviewSession ----------------------------
(***************************************************************************)
(* One reviewer's browser: the review screen (ReviewMode.jsx) in the tab   *)
(* it is shown in (App.jsx), the calls it makes of GitHub, of the AI       *)
(* (reviewAi.js), of the certification server (certificationBadge.js) and  *)
(* of the server's ledger, and the ledger of the browser (ledger.js).      *)
(*                                                                         *)
(* A handler runs to its first await at once.  What it awaits is in        *)
(* flight: loads and requests to the AI in asks, requests for a badge in   *)
(* orders, copies of saved records in copies; each is answered when the    *)
(* network pleases, in any order, while the reviewer goes on, starts a new *)
(* review or leaves the screen.                                            *)
(*                                                                         *)
(* Abstractions.  The files of an application are reduced to the number of *)
(* chunks they make and to the items the rule scan has suspicions about.   *)
(* Texts (errors, progress, the AI's summary) are left out; a key for the  *)
(* AI is at hand whenever it is asked.  Of tokens and dollars, which every *)
(* answer adds to in the same way, only the number of calls is kept.       *)
(***************************************************************************)
EXTENDS ReviewVerdicts, Sequences

CONSTANTS
  Apps,         \* what can be loaded
  Pinned,       \* those on GitHub, with a commit
  ChunksOf,     \* ChunksOf[a]: how many chunks its code makes
  Hits,         \* Hits[a]: items the rule scan finds suspicions about
  Offered,      \* verdicts the reviewer may choose
  Given,        \* what the AI may answer about an item
  Seen,         \* what the AI may say of the features of a chunk
  MaxReviews,   \* bound of the reviews begun
  MaxMoves      \* bound of the verdicts and reasons chosen, requests made and records saved

ASSUME AppsAssumption ==
  /\ Pinned \subseteq Apps /\ None \notin Apps \cup {"load", "suggest", "judge"}
  /\ ChunksOf \in [Apps -> Nat \ {0}] /\ Hits \in [Apps -> SUBSET Items]
ASSUME OfferedAssumption == Offered \subseteq Verdicts /\ Given \subseteq Answers \cup {None} /\ Seen \subseteq SUBSET Features
ASSUME BoundsAssumption == MaxReviews \in Nat \ {0} /\ MaxMoves \in Nat

VARIABLES
  view,           \* the tab: "review" or "ledger"
  step,           \* step of the review
  run,            \* runRef: which review this is
  busy,           \* what the screen says is under way, or None
  repoMeta,       \* the application loaded, or None; its scan goes with it
  features,       \* the flags ticked
  judgments,      \* judgments[i]: the draft of i and the review it was asked in
  aiRan,
  overrides,
  humanInputs,
  usage,          \* calls of the AI the screen tells of
  certification,  \* the request for a badge and what came of it, or None
  savedRound,     \* the round the review was saved as, or None
  serverSync,     \* whether it tells what came of a copy for the server
  ledger,         \* localStorage: the records
  loads,          \* loads under way
  asks,           \* requests to the AI under way
  orders,         \* requests for a badge under way
  copies,         \* records on their way to the server
  ordered,        \* certReqRef
  moves,          \* how many of these there were
  billed          \* history: calls of the AI this review has been billed for

draft == <<judgments, aiRan, usage>>
chosen == <<features, overrides, humanInputs>>
saved == <<savedRound, serverSync>>
certifying == <<certification, orders, ordered>>
storing == <<ledger, copies>>
asking == <<loads, asks, billed>>
vars == <<view, step, run, busy, repoMeta, draft, chosen, saved, certifying,
          storing, asking, moves>>

-----------------------------------------------------------------------------
(* What the screen shows *)

Listed == Applicable(features, overrides)
Final(i) == FinalVerdict(i, judgments, overrides, humanInputs)
Shown == [i \in Listed |-> Final(i)]

\* Listed items the AI may judge and has not.
Pending == {i \in Listed \cap Verifiable : judgments[i] = None}

\* The record of the review as it stands.
Record ==
  [target |-> repoMeta, profile |-> features, level |-> ProtectionLevel(features),
   status |-> Status(Shown), aiUsed |-> aiRan,
   counts |-> [v \in Verdicts |-> Cardinality({i \in Listed : Final(i) = v})]]

Round(target) == Cardinality({k \in DOMAIN ledger : ledger[k].record.target = target}) + 1

-----------------------------------------------------------------------------
(* Type *)

TypeOK ==
  /\ view \in {"review", "ledger"} /\ step \in 1..4 /\ run \in 1..MaxReviews
  /\ busy \in {None, "load", "suggest", "judge"}
  /\ repoMeta \in Apps \cup {None} /\ features \subseteq Features
  /\ \A i \in Items : judgments[i] # None =>
       judgments[i] \in [verdict : Verdicts, grounded : BOOLEAN, demoted : BOOLEAN, of : 1..MaxReviews]
  /\ aiRan \in BOOLEAN /\ overrides \in [Items -> Choices] /\ humanInputs \in [Items -> Choices]
  /\ usage \in Nat /\ billed \in Nat /\ moves \in 0..MaxMoves
  /\ savedRound \in 1..MaxMoves \cup {None} /\ serverSync \in BOOLEAN
  /\ ordered \in 0..MaxMoves /\ \A o \in orders : o.id \in 1..ordered

-----------------------------------------------------------------------------
(* The handlers: what is undone when the review changes, or ends *)

Move == moves < MaxMoves /\ moves' = moves + 1

\* Mutant: there is no such effect.
NoEffect == savedRound' = savedRound /\ serverSync' = FALSE

\* The effect on judgments, overrides, humanInputs and features.
Changed == savedRound' = None /\ serverSync' = FALSE

Blank ==
  /\ step' = 1 /\ busy' = None /\ repoMeta' = None
  /\ features' = {} /\ judgments' = [i \in Items |-> None] /\ aiRan' = FALSE
  /\ overrides' = [i \in Items |-> NoChoice] /\ humanInputs' = [i \in Items |-> NoChoice]
  /\ usage' = 0 /\ certification' = None /\ Changed
  /\ billed' = 0 /\ run' = run + 1

resetAll ==
  /\ run < MaxReviews /\ Blank
  /\ UNCHANGED <<view, orders, ordered, storing, loads, asks, moves>>

\* Another tab unmounts the screen: what is under way finds nobody.  The refs of
\* the next one start again; that run goes on counting stands for that.
Leave ==
  /\ run < MaxReviews /\ view = "review" /\ Blank
  /\ view' = "ledger" /\ loads' = {} /\ asks' = {} /\ orders' = {} /\ copies' = {}
  /\ UNCHANGED <<ordered, ledger, moves>>

Return ==
  /\ view = "ledger" /\ view' = "review"
  /\ UNCHANGED <<step, run, busy, repoMeta, draft, chosen, saved, certifying, storing, asking, moves>>

\* The ledger's own page removes a record.
remove(k) ==
  /\ view = "ledger"
  /\ ledger' = SubSeq(ledger, 1, k - 1) \o SubSeq(ledger, k + 1, Len(ledger))
  /\ UNCHANGED <<view, step, run, busy, repoMeta, draft, chosen, saved, certifying, copies, asking, moves>>

-----------------------------------------------------------------------------
(* Loading *)

\* loadRepo of what is pinned, loadFolder of the rest.
load(a) ==
  /\ busy = None /\ repoMeta = None
  /\ busy' = "load"
  /\ loads' = loads \cup {[run |-> run, app |-> a, read |-> FALSE]}
  /\ UNCHANGED <<view, step, run, repoMeta, draft, chosen, saved, certifying, storing, asks, billed, moves>>

\* The files have come; busy is set whichever review the screen is in by now.
LoadRead(l) ==
  /\ ~l.read /\ busy' = "load"
  /\ loads' = (loads \ {l}) \cup {[l EXCEPT !.read = TRUE]}
  /\ UNCHANGED <<view, step, run, repoMeta, draft, chosen, saved, certifying, storing, asks, billed, moves>>

\* The rest of a load, after a pause for the screen; or its failure.
LoadEnds(l) ==
  /\ loads' = loads \ {l}
  /\ busy' = IF l.run = run THEN None ELSE busy
  /\ \/ l.read /\ repoMeta' = IF l.run = run THEN l.app ELSE repoMeta
     \/ UNCHANGED repoMeta
  /\ UNCHANGED <<view, step, run, draft, chosen, saved, certifying, storing, asks, billed, moves>>

-----------------------------------------------------------------------------
(* Asking the AI: all chunks at once, each up to twice (requestStructured) *)

Ask(kind, items) ==
  /\ busy = None /\ Move /\ busy' = kind
  /\ asks' = asks \cup
       {[n |-> moves, kind |-> kind, run |-> run, app |-> repoMeta, items |-> items,
         first |-> ChunksOf[repoMeta], second |-> 0, spent |-> 0, open |-> TRUE]}
  /\ UNCHANGED <<view, step, run, repoMeta, draft, chosen, saved, certifying, storing, loads, billed>>

runSuggest == Ask("suggest", {})

\* Mutant: a run after the first asks about all items again.
runJudgeOfAll == Pending # {} /\ Ask("judge", Listed \cap Verifiable)

runJudge ==
  /\ Pending # {}
  /\ Ask("judge", IF aiRan THEN Pending ELSE Listed \cap Verifiable)

Bill(a, n) == billed' = IF a.run = run THEN billed + n ELSE billed

\* a in the place of b, unless no chunk of it is waited for any more.
Replace(b, a) == asks' = (asks \ {b}) \cup {x \in {a} : a.first + a.second > 0}

\* a with one of its answers there, which was asked for the first or second time.
Less(a, t) == IF t = "first" THEN [a EXCEPT !.first = @ - 1] ELSE [a EXCEPT !.second = @ - 1]

\* An answer that does not parse is asked for again, once.
Malformed(a) ==
  /\ a.first > 0 /\ Bill(a, 1)
  /\ Replace(a, [a EXCEPT !.first = @ - 1, !.second = @ + 1, !.spent = IF a.open THEN @ + 1 ELSE 0])
  /\ UNCHANGED <<view, step, run, busy, repoMeta, draft, chosen, saved, certifying, storing, loads, moves>>

\* Mutant: a failure leaves the screen busy.
ChunkFailsBusy(a, t, n) ==
  /\ Replace(a, [Less(a, t) EXCEPT !.spent = 0, !.open = FALSE]) /\ Bill(a, n)
  /\ UNCHANGED <<view, step, run, busy, repoMeta, draft, chosen, saved, certifying, storing, loads, moves>>

\* A refusal, a cut answer, a second malformed one (n = 1) or no answer at all
\* (n = 0): Promise.all rejects, and later answers to other chunks find nobody.
ChunkFails(a, t, n) ==
  /\ Replace(a, [Less(a, t) EXCEPT !.spent = 0, !.open = FALSE]) /\ Bill(a, n)
  /\ busy' = IF a.open /\ a.run = run THEN None ELSE busy
  /\ UNCHANGED <<view, step, run, repoMeta, draft, chosen, saved, certifying, storing, loads, moves>>

\* What the answers make of the chunks, chosen when the last of them is there.
Results(a) ==
  [1..ChunksOf[a.app] ->
     IF a.kind = "suggest" THEN Seen
     ELSE {[i \in a.items |-> Validated(said[i], i, Hits[a.app])] : said \in [a.items -> Given]}]

\* What the awaiting handler does with them.
Suggested(got) ==
  /\ features' = UNION {got[c] : c \in DOMAIN got} /\ Changed
  /\ UNCHANGED <<judgments, aiRan, overrides, humanInputs>>

Judged(a, got) ==
  /\ judgments' = [i \in Items |->
       IF i \notin a.items THEN judgments[i]
       ELSE LET d == Merged([c \in DOMAIN got |-> got[c][i]], DOMAIN got)
            IN  [verdict |-> d.verdict, grounded |-> d.grounded, demoted |-> d.demoted, of |-> a.run]]
  /\ aiRan' = TRUE /\ Changed
  /\ UNCHANGED chosen

\* Mutant: results are taken whichever review the screen is in by now.
ChunkDoneAnyReview(a, t) ==
  LET b == [Less(a, t) EXCEPT !.spent = @ + 1]
  IN  /\ a.open /\ Replace(a, b) /\ Bill(a, 1)
      /\ IF b.first + b.second = 0
         THEN /\ busy' = None /\ usage' = usage + b.spent
              /\ \E got \in Results(a) : IF a.kind = "suggest" THEN Suggested(got) ELSE Judged(a, got)
         ELSE UNCHANGED <<busy, draft, chosen, saved>>
      /\ UNCHANGED <<view, step, run, repoMeta, certifying, storing, loads, moves>>

ChunkDone(a, t) ==
  LET b == [Less(a, t) EXCEPT !.spent = @ + 1]
  IN  /\ a.open /\ Replace(a, b) /\ Bill(a, 1)
      /\ IF a.run = run /\ b.first + b.second = 0
         THEN /\ busy' = None /\ usage' = usage + b.spent
              /\ \E got \in Results(a) : IF a.kind = "suggest" THEN Suggested(got) ELSE Judged(a, got)
         ELSE UNCHANGED <<busy, draft, chosen, saved>>
      /\ UNCHANGED <<view, step, run, repoMeta, certifying, storing, loads, moves>>

-----------------------------------------------------------------------------
(* The reviewer's choices *)

Edit ==
  /\ Changed
  /\ UNCHANGED <<view, step, run, busy, repoMeta, draft, certifying, storing, asking>>

Tick(f) ==
  /\ features' = IF f \in features THEN features \ {f} ELSE features \cup {f}
  /\ Edit /\ UNCHANGED <<overrides, humanInputs, moves>>

\* Offered beside listed items the AI may judge and beside those that do not apply.
setOverride(i, v) ==
  /\ i \in Verifiable \/ i \notin Listed
  /\ v # overrides[i].verdict
  /\ overrides' = [overrides EXCEPT ![i] = IF v = None THEN NoChoice ELSE [@ EXCEPT !.verdict = v]]
  /\ Edit /\ Move /\ UNCHANGED <<features, humanInputs>>

setOverrideReason(i) ==
  /\ i \in Listed \cap Verifiable /\ overrides[i].verdict # None
  /\ overrides' = [overrides EXCEPT ![i].reason = ~@]
  /\ Edit /\ Move /\ UNCHANGED <<features, humanInputs>>

\* What the AI may not judge is not required: no reason is asked for here.
setHuman(i, v) ==
  /\ i \in Listed \ Verifiable /\ v # humanInputs[i].verdict
  /\ humanInputs' = [humanInputs EXCEPT ![i].verdict = v]
  /\ Edit /\ Move /\ UNCHANGED <<features, overrides>>

-----------------------------------------------------------------------------
(* The report: requesting a badge, saving *)

requestCertification ==
  /\ Status(Shown) = "pass_candidate" /\ repoMeta \in Pinned /\ certification = None
  /\ Move /\ ordered' = ordered + 1
  /\ certification' = [phase |-> "pending", of |-> repoMeta, id |-> ordered', answers |-> None, badge |-> None]
  /\ orders' = orders \cup {[of |-> repoMeta, id |-> ordered']}
  /\ UNCHANGED <<view, step, run, busy, repoMeta, draft, chosen, saved, storing, asking>>

\* What the server answers: a badge of some application, or None for any other
\* answer.  A badge of another application than the one asked about is an error.
Settled(o, badge) ==
  [phase |-> IF badge = o.of THEN "issued" ELSE "not issued", of |-> o.of, id |-> None,
   answers |-> o.id, badge |-> IF badge = o.of THEN badge ELSE None]

\* Mutant: an answer about the same commit is taken whatever it answers.
settleBySubject(o, badge) ==
  certification' = IF certification # None /\ certification.of = o.of THEN Settled(o, badge) ELSE certification

settleCertificationRequest(o, badge) ==
  certification' =
    IF certification # None /\ certification.of = o.of /\ certification.id = o.id
    THEN Settled(o, badge) ELSE certification

OrderAnswered(o, badge) ==
  /\ orders' = orders \ {o} /\ settleCertificationRequest(o, badge)
  /\ UNCHANGED <<view, step, run, busy, repoMeta, draft, chosen, saved, ordered, storing, asking, moves>>

saveToLedger ==
  /\ savedRound = None /\ Move
  /\ savedRound' = Round(repoMeta)
  /\ ledger' = Append(ledger, [record |-> Record, round |-> Round(repoMeta)])
  /\ copies' = copies \cup {[run |-> run, n |-> Len(ledger)]}
  /\ UNCHANGED <<view, step, run, busy, repoMeta, draft, chosen, serverSync, certifying, asking>>

\* syncRecordToServer has answered, whichever review the screen is in by now.
CopyAnswered(c) ==
  /\ copies' = copies \ {c} /\ serverSync' = TRUE
  /\ UNCHANGED <<view, step, run, busy, repoMeta, draft, chosen, savedRound, certifying, ledger, asking, moves>>

-----------------------------------------------------------------------------
(* The four screens: what each offers *)

Goto(s) ==
  /\ step' = s
  /\ UNCHANGED <<view, run, busy, repoMeta, draft, chosen, saved, certifying, storing, asking, moves>>

LoadScreen ==
  /\ step = 1
  /\ \/ \E a \in Apps : load(a)
     \/ repoMeta # None /\ (Goto(2) \/ resetAll)

FeatureScreen ==
  /\ step = 2
  /\ (\E f \in Features : Tick(f)) \/ runSuggest \/ Goto(3)

JudgeScreen ==
  /\ step = 3
  /\ \/ runJudge \/ Goto(4)
     \/ \E i \in Items :
          \/ \E v \in Offered \cup {None} : setOverride(i, v) \/ setHuman(i, v)
          \/ setOverrideReason(i)

ReportScreen ==
  /\ step = 4
  /\ requestCertification \/ saveToLedger \/ resetAll

Screen ==
  /\ view = "review"
  /\ LoadScreen \/ FeatureScreen \/ JudgeScreen \/ ReportScreen \/ \E s \in 1..(step - 1) : Goto(s)

\* What the network answers.
AskAnswered(a) ==
  \/ Malformed(a)
  \/ \E t \in {"first", "second"} :
       a[t] > 0 /\ (ChunkDone(a, t) \/ \E n \in 0..1 : ChunkFails(a, t, n))

NetworkAnswers ==
  \/ \E l \in loads : LoadRead(l) \/ LoadEnds(l)
  \/ \E a \in asks : AskAnswered(a)
  \/ \E o \in orders, badge \in Apps \cup {None} : OrderAnswered(o, badge)
  \/ \E c \in copies : CopyAnswered(c)

Next ==
  \/ Screen \/ NetworkAnswers \/ Leave \/ Return \/ \E k \in DOMAIN ledger : remove(k)

Init ==
  /\ view = "review" /\ step = 1 /\ run = 1 /\ busy = None /\ repoMeta = None
  /\ features = {} /\ judgments = [i \in Items |-> None] /\ aiRan = FALSE
  /\ overrides = [i \in Items |-> NoChoice] /\ humanInputs = [i \in Items |-> NoChoice]
  /\ usage = 0 /\ certification = None /\ savedRound = None /\ serverSync = FALSE
  /\ ledger = <<>> /\ loads = {} /\ asks = {} /\ orders = {} /\ copies = {}
  /\ ordered = 0 /\ moves = 0 /\ billed = 0

Spec == Init /\ [][Next]_vars

\* The network answers sooner or later: browsers and the AI's client give up.
FairSpec == Spec /\ WF_vars(NetworkAnswers)

-----------------------------------------------------------------------------
(* Properties *)

\* Whatever arrives late, the screen holds drafts asked for in this review, a
\* badge asked for this application, and no more calls of the AI than this review
\* was billed for.
OnlyThisReview ==
  /\ \A i \in Items : judgments[i] # None => judgments[i].of = run
  /\ certification # None => certification.of = repoMeta
  /\ usage <= billed

\* While the screen says it is saved, the newest record is the review as it
\* stands: what changed after saving can be saved again.
SavedIsCurrent ==
  savedRound # None => ledger[Len(ledger)] = [record |-> Record, round |-> savedRound]

\* What the screen says of a badge is what the server answered to the request made
\* last, and a badge it shows is of the application under review.
CertificationIsOfThisRequest ==
  certification # None /\ certification.phase # "pending" =>
    /\ certification.answers = ordered
    /\ certification.phase = "issued" => certification.badge = repoMeta

\* In a candidate for passing every required item that applies was found fulfilled
\* by the reviewer, excused by the reviewer with a reason, or found fulfilled by the
\* AI on verified quotations where the scan has no suspicion.
PassIsGrounded ==
  repoMeta # None /\ Status(Shown) = "pass_candidate" =>
    \A i \in Listed \cap Required :
      \/ overrides[i].verdict = "ok"
      \/ overrides[i].verdict = "na" /\ overrides[i].reason
      \/ /\ overrides[i].verdict = None /\ judgments[i].verdict = "ok"
         /\ judgments[i].grounded /\ i \notin Hits[repoMeta]

\* A draft the reviewer may have read is not redrawn within a review.
DraftsStand ==
  [][run' = run => \A i \in Items : judgments[i] # None => judgments'[i] = judgments[i]]_vars

\* The screen does not stay busy.
BusyEnds == busy # None ~> busy = None

\* With no answer of the AI awaited, the screen tells of every call it was billed
\* for.  The code breaks this: what the calls of a failed run cost is dropped.
UsageIsBilled == (\A a \in asks : a.run # run) => usage = billed

=============================================================================
