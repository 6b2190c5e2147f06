------------------------- MODULE ReviewSessionProofs -------------------------
(***************************************************************************)
(* Theorems about ReviewSession, for every rubric, every set of            *)
(* applications with any number of chunks, every set of answers of the AI  *)
(* and any number of reviews and moves.                                    *)
(*                                                                         *)
(* The argument.  Before an application is loaded there is nothing         *)
(* (NothingYet), and a review is not given up while it loads (LoadIsAlone).*)
(* Answers of the AI change the screen only while the screen is busy with  *)
(* them (AskIsAlone), so nothing that was asked for in another review, or  *)
(* beside another request, can reach it; and no item of such a request has *)
(* a draft.  A draft found fulfilled rests on quotations (DraftsSound),    *)
(* which is what the summary looks at.                                     *)
(***************************************************************************)
EXTENDS ReviewSession, SequenceTheorems, TLAPS

Judgments == [verdict : Verdicts, grounded : BOOLEAN, demoted : BOOLEAN, of : Nat]

Loads == [run : Nat, app : Apps, read : BOOLEAN]

AskRecords ==
  [n : Nat, kind : {"suggest", "judge"}, run : Nat, app : Apps \cup {None}, items : SUBSET Items,
   first : Nat, second : Nat, spent : Nat, open : BOOLEAN]

Typed ==
  /\ view \in {"review", "ledger"} /\ step \in 1..4 /\ run \in Nat
  /\ repoMeta \in Apps \cup {None} /\ aiRan \in BOOLEAN
  /\ overrides \in [Items -> Choices] /\ humanInputs \in [Items -> Choices]
  /\ usage \in Nat /\ billed \in Nat /\ ordered \in Nat /\ moves \in Nat
  /\ loads \subseteq Loads /\ asks \subseteq AskRecords

\* Without an application there is nothing else.
NothingYet ==
  repoMeta = None => /\ step = 1 /\ certification = None /\ savedRound = None
                     /\ \A i \in Items : judgments[i] = None

\* One load at most is under way: this review's, which has no application yet.
LoadIsAlone ==
  \A l \in loads : l.run = run /\ busy # None /\ repoMeta = None /\ \A m \in loads : m = l

\* The answers to a are taken.
Awaited(a) == a.run = run /\ a.open

\* One request to the AI at most is awaited: of the application on the screen,
\* about items without drafts.  The screen will tell of what it has spent.
AskIsAlone ==
  \A a \in asks :
    /\ a.run <= run /\ (~a.open => a.spent = 0)
    /\ Awaited(a) =>
         /\ busy # None /\ a.app = repoMeta /\ repoMeta # None /\ usage + a.spent <= billed
         /\ a.kind = "judge" => \A i \in a.items : judgments[i] = None
         /\ \A b \in asks : Awaited(b) => b = a

\* What a draft says, given what the scan found in the application.
SoundDraft(d, i, app) ==
  /\ d.verdict = "ok" => d.grounded /\ i \notin Hits[app]
  /\ d.verdict = "na" => i \notin Required

DraftsSound ==
  /\ DOMAIN judgments = Items
  /\ ~aiRan => \A i \in Items : judgments[i] = None
  /\ \A i \in Items : judgments[i] # None =>
       /\ judgments[i] \in Judgments /\ judgments[i].of = run
       /\ SoundDraft(judgments[i], i, repoMeta)

\* Reasons are given beside overrides only.
HumansGiveNone == \A i \in Items : ~humanInputs[i].reason

\* An answer about a badge is to the request made last.
Certified ==
  certification # None =>
    /\ certification.of = repoMeta
    /\ certification.phase = "pending" => certification.id = ordered
    /\ certification.phase # "pending" =>
         /\ certification.answers = ordered /\ certification.id = None
         /\ certification.phase = "issued" => certification.badge = certification.of

OrdersNumbered == \A o \in orders : o.id \in Nat

SavedInReview == view = "ledger" => savedRound = None

Billed == usage <= billed

IsSeq(s) == \E S : s \in Seq(S)
LedgerIsSeq == IsSeq(ledger)

Inv ==
  /\ Typed /\ NothingYet /\ LoadIsAlone /\ AskIsAlone /\ DraftsSound /\ HumansGiveNone
  /\ Certified /\ OrdersNumbered /\ SavedInReview /\ LedgerIsSeq /\ SavedIsCurrent /\ Billed

-----------------------------------------------------------------------------
(* Drafts *)

LEMMA ValidatedIsSound ==
  ASSUME NEW answer \in Answers \cup {None}, NEW i \in Items, NEW app
  PROVE  Validated(answer, i, Hits[app]) \in Drafts /\ SoundDraft(Validated(answer, i, Hits[app]), i, app)
<1>1. CASE answer = None \/ answer.verdict = "needs_human"
  BY <1>1 DEF Validated, Kept, SoundDraft, Drafts, Verdicts
<1>2. CASE answer # None /\ answer.verdict # "needs_human"
  BY <1>2 DEF Validated, Kept, Demoted, SoundDraft, Drafts, Verdicts, Answers
<1> QED
  BY <1>1, <1>2

LEMMA MergedIsSound ==
  ASSUME NEW chunks, chunks # {}, NEW drafts, NEW i \in Items, NEW app,
         \A c \in chunks : drafts[c] \in Drafts /\ SoundDraft(drafts[c], i, app)
  PROVE  Merged(drafts, chunks) \in Drafts /\ SoundDraft(Merged(drafts, chunks), i, app)
<1> DEFINE Of(v) == {drafts[c] : c \in {k \in chunks : drafts[k].verdict = v}}
           Rests(v) == Kept(v, \E d \in Of(v) : d.grounded)
<1>1. \A v : \A d \in Of(v) : d.verdict = v /\ SoundDraft(d, i, app) /\ d \in Drafts
  OBVIOUS
<1>2. \A v \in Verdicts : Rests(v) \in Drafts
  BY DEF Kept, Drafts
<1>3. CASE Cardinality(chunks) = 1
  BY <1>3 DEF Merged
<1>4. CASE Cardinality(chunks) # 1 /\ Of("fail") # {}
  <2>1. Merged(drafts, chunks) = Rests("fail")
    BY <1>4 DEF Merged
  <2> QED
    BY <2>1, <1>2 DEF Kept, SoundDraft, Verdicts
<1>5. CASE Cardinality(chunks) # 1 /\ Of("fail") = {} /\ Of("ok") # {}
  <2>1. Merged(drafts, chunks) = Rests("ok")
    BY <1>5 DEF Merged
  <2>2. PICK d \in Of("ok") : TRUE
    BY <1>5
  <2>3. d.grounded /\ i \notin Hits[app]
    BY <1>1, <2>2 DEF SoundDraft
  <2>4. Rests("ok").verdict = "ok" /\ Rests("ok").grounded
    BY <2>2, <2>3 DEF Kept
  <2> QED
    BY <2>1, <2>3, <2>4, <1>2 DEF SoundDraft, Verdicts
<1>6. CASE Cardinality(chunks) # 1 /\ Of("fail") = {} /\ Of("ok") = {} /\ Of("needs_human") # {}
  <2>1. Merged(drafts, chunks) = Demoted \/ Merged(drafts, chunks) = Kept("needs_human", FALSE)
    BY <1>6 DEF Merged
  <2>2. Demoted \in Drafts /\ SoundDraft(Demoted, i, app)
    BY DEF Demoted, SoundDraft, Drafts, Verdicts
  <2>3. Kept("needs_human", FALSE) \in Drafts /\ SoundDraft(Kept("needs_human", FALSE), i, app)
    BY DEF Kept, SoundDraft, Drafts, Verdicts
  <2> QED
    BY <2>1, <2>2, <2>3
<1>7. CASE Cardinality(chunks) # 1 /\ Of("fail") = {} /\ Of("ok") = {} /\ Of("needs_human") = {}
  <2>1. Merged(drafts, chunks) = Kept("na", FALSE)
    BY <1>7 DEF Merged
  <2>2. PICK c \in chunks : TRUE
    OBVIOUS
  <2>3. drafts[c].verdict = "na"
    BY <1>7, <2>2 DEF Drafts, Verdicts
  <2>4. i \notin Required
    BY <2>2, <2>3 DEF SoundDraft
  <2> QED
    BY <2>1, <2>4 DEF Kept, SoundDraft, Drafts, Verdicts
<1> QED
  BY <1>3, <1>4, <1>5, <1>6, <1>7

-----------------------------------------------------------------------------
(* What a record is made from *)

LEMMA RecordStays ==
  ASSUME UNCHANGED <<repoMeta, judgments, aiRan, chosen>>
  PROVE  Record' = Record
<1>1. Listed' = Listed
  BY DEF Listed, Applicable, chosen
<1>2. \A i : Final(i)' = Final(i)
  BY DEF Final, FinalVerdict, Chosen, NaNeedsReason, chosen
<1>3. Shown' = Shown
  BY <1>1, <1>2 DEF Shown
<1>4. Status(Shown)' = Status(Shown)
  BY <1>3 DEF Status
<1>5. ProtectionLevel(features)' = ProtectionLevel(features)
  BY DEF ProtectionLevel, chosen
<1>6. [v \in Verdicts |-> Cardinality({i \in Listed : Final(i) = v})]'
        = [v \in Verdicts |-> Cardinality({i \in Listed : Final(i) = v})]
  BY <1>1, <1>2
<1> QED
  BY <1>4, <1>5, <1>6 DEF Record, chosen

\* A review that is saved, and has not changed since, is as it was saved.
LEMMA SavedStays ==
  ASSUME SavedIsCurrent,
         savedRound' = None \/ UNCHANGED <<savedRound, ledger, repoMeta, judgments, aiRan, chosen>>
  PROVE  SavedIsCurrent'
<1>1. CASE savedRound' = None
  BY <1>1 DEF SavedIsCurrent
<1>2. CASE UNCHANGED <<savedRound, ledger, repoMeta, judgments, aiRan, chosen>>
  <2>1. Record' = Record
    BY <1>2, RecordStays
  <2> QED
    BY <1>2, <2>1 DEF SavedIsCurrent
<1> QED
  BY <1>1, <1>2

-----------------------------------------------------------------------------
(* The invariant holds at first and is kept *)

LEMMA InitInv == Init => Inv
<1> SUFFICES ASSUME Init PROVE Inv
  OBVIOUS
<1>1. Typed
  <2>1. NoChoice \in Choices
    BY DEF NoChoice, Choices
  <2>2. overrides \in [Items -> Choices] /\ humanInputs \in [Items -> Choices]
    BY <2>1 DEF Init
  <2>3. loads \subseteq Loads /\ asks \subseteq AskRecords
    BY DEF Init
  <2>4. view \in {"review", "ledger"} /\ repoMeta \in Apps \cup {None} /\ aiRan \in BOOLEAN
    BY DEF Init
  <2>5. step \in 1..4 /\ run \in Nat /\ usage \in Nat /\ billed \in Nat /\ ordered \in Nat /\ moves \in Nat
    BY DEF Init
  <2> QED
    BY <2>2, <2>3, <2>4, <2>5 DEF Typed
<1>2. NothingYet /\ LoadIsAlone /\ AskIsAlone /\ DraftsSound
  BY DEF Init, NothingYet, LoadIsAlone, AskIsAlone, DraftsSound
<1>3. HumansGiveNone /\ Certified /\ OrdersNumbered /\ SavedInReview /\ SavedIsCurrent /\ Billed
  BY DEF Init, HumansGiveNone, Certified, OrdersNumbered, SavedInReview, SavedIsCurrent, Billed, NoChoice
<1>4. LedgerIsSeq
  <2>1. ledger \in Seq({})
    BY DEF Init
  <2> QED
    BY <2>1 DEF LedgerIsSeq, IsSeq
<1> QED
  BY <1>1, <1>2, <1>3, <1>4 DEF Inv

\* A new review, begun while nothing loads or when what is under way is forgotten.
LEMMA BlankInv ==
  ASSUME Inv, Blank, view' \in {"review", "ledger"}, UNCHANGED <<ordered, ledger, moves>>,
         loads' = {}, asks' \subseteq asks, orders' \subseteq orders
  PROVE  Inv'
<1>1. Typed'
  <2>1. NoChoice \in Choices
    BY DEF NoChoice, Choices
  <2>2. overrides' \in [Items -> Choices] /\ humanInputs' \in [Items -> Choices]
    BY <2>1 DEF Blank
  <2>3. loads' \subseteq Loads /\ asks' \subseteq AskRecords
    BY DEF Inv, Typed
  <2>4. view' \in {"review", "ledger"} /\ repoMeta' \in Apps \cup {None} /\ aiRan' \in BOOLEAN
    BY DEF Blank
  <2>5. /\ step' \in 1..4 /\ run' \in Nat /\ usage' \in Nat /\ billed' \in Nat
        /\ ordered' \in Nat /\ moves' \in Nat
    BY DEF Inv, Typed, Blank
  <2> QED
    BY <2>2, <2>3, <2>4, <2>5 DEF Typed
<1>2. NothingYet' /\ LoadIsAlone' /\ DraftsSound'
  BY DEF Inv, Blank, Changed, NothingYet, LoadIsAlone, DraftsSound
<1>3. AskIsAlone'
  <2> SUFFICES ASSUME NEW a \in asks'
               PROVE  a.run < run' /\ (~a.open => a.spent = 0)
    BY DEF AskIsAlone, Awaited, Inv, Typed, AskRecords, Blank
  <2>1. a \in asks /\ a.run \in Nat /\ run' = run + 1 /\ run \in Nat
    BY DEF Inv, Typed, AskRecords, Blank
  <2> QED
    BY <2>1 DEF Inv, AskIsAlone
<1>4. HumansGiveNone' /\ Certified' /\ OrdersNumbered' /\ SavedInReview' /\ LedgerIsSeq' /\ Billed'
  BY DEF Inv, Blank, Changed, HumansGiveNone, Certified, OrdersNumbered, SavedInReview, LedgerIsSeq, Billed, NoChoice
<1>5. SavedIsCurrent'
  BY SavedStays DEF Inv, Blank, Changed
<1> QED
  BY <1>1, <1>2, <1>3, <1>4, <1>5 DEF Inv

LEMMA ResetInv ==
  ASSUME Inv, view = "review", repoMeta # None, resetAll
  PROVE  Inv'
<1>1. loads = {}
  BY DEF Inv, LoadIsAlone
<1> QED
  BY <1>1, BlankInv DEF resetAll, Inv, Typed, storing

LEMMA LeaveInv == ASSUME Inv, Leave PROVE Inv'
BY BlankInv DEF Leave, Inv, Typed

\* Steps that concern neither drafts nor badges nor what is under way.
LEMMA PassingInv ==
  ASSUME Inv, UNCHANGED <<run, busy, repoMeta, draft, chosen, savedRound, certifying, asking, moves>>,
         view' \in {"review", "ledger"}, step' \in 1..4,
         view' = "ledger" => savedRound = None,
         repoMeta = None => step' = 1,
         savedRound = None \/ ledger' = ledger, IsSeq(ledger')
  PROVE  Inv'
<1>1. Typed'
  BY DEF Inv, Typed, draft, chosen, certifying, asking
<1>2. NothingYet' /\ LoadIsAlone' /\ AskIsAlone' /\ DraftsSound'
  BY DEF Inv, NothingYet, LoadIsAlone, AskIsAlone, Awaited, DraftsSound, draft, certifying, asking
<1>3. HumansGiveNone' /\ Certified' /\ OrdersNumbered' /\ SavedInReview' /\ LedgerIsSeq' /\ Billed'
  BY DEF Inv, HumansGiveNone, Certified, OrdersNumbered, SavedInReview, LedgerIsSeq, Billed, draft, chosen, certifying, asking
<1>4. SavedIsCurrent'
  <2>1. UNCHANGED <<repoMeta, judgments, aiRan, chosen, savedRound>>
    BY DEF draft
  <2>2. CASE savedRound = None
    BY <2>1, <2>2, SavedStays DEF Inv
  <2>3. CASE ledger' = ledger
    BY <2>1, <2>3, SavedStays DEF Inv
  <2> QED
    BY <2>2, <2>3
<1> QED
  BY <1>1, <1>2, <1>3, <1>4 DEF Inv

LEMMA ReturnInv == ASSUME Inv, Return PROVE Inv'
BY PassingInv DEF Return, Inv, SavedInReview, LedgerIsSeq, NothingYet, Typed, saved, storing

LEMMA RemoveInv == ASSUME Inv, NEW k \in DOMAIN ledger, remove(k) PROVE Inv'
<1>1. PICK S : ledger \in Seq(S)
  BY DEF Inv, LedgerIsSeq, IsSeq
<1>2. k \in 1..Len(ledger) /\ Len(ledger) \in Nat
  BY <1>1
<1>3. SubSeq(ledger, 1, k - 1) \in Seq(S) /\ SubSeq(ledger, k + 1, Len(ledger)) \in Seq(S)
  BY <1>1, <1>2, SubSeqProperties
<1>4. ledger' \in Seq(S)
  BY <1>3, ConcatProperties DEF remove
<1>5. IsSeq(ledger')
  BY <1>4 DEF IsSeq
<1> QED
  BY <1>5, PassingInv DEF remove, Inv, SavedInReview, NothingYet, Typed, saved

LEMMA CopyInv == ASSUME Inv, NEW c, CopyAnswered(c) PROVE Inv'
BY PassingInv DEF CopyAnswered, Inv, SavedInReview, LedgerIsSeq, NothingYet, Typed

LEMMA GotoInv ==
  ASSUME Inv, NEW s \in 1..4, Goto(s), repoMeta # None \/ s = 1
  PROVE  Inv'
BY PassingInv DEF Goto, Inv, SavedInReview, LedgerIsSeq, Typed, saved, storing

-----------------------------------------------------------------------------
(* Loading *)

\* What loading leaves alone.
LEMMA LoadKeeps ==
  ASSUME Inv, UNCHANGED <<view, step, run, draft, chosen, saved, certifying, storing, asks, billed, moves>>,
         loads' \subseteq Loads, LoadIsAlone',
         repoMeta' \in Apps \cup {None}, repoMeta # None => repoMeta' = repoMeta,
         busy # None => busy' # None \/ repoMeta = None
  PROVE  Inv'
<1>1. Typed'
  BY DEF Inv, Typed, draft, chosen, certifying, storing
<1>2. NothingYet'
  BY DEF Inv, NothingYet, draft, saved, certifying
<1>3. AskIsAlone'
  BY DEF Inv, AskIsAlone, Awaited, draft
<1>4. DraftsSound'
  BY DEF Inv, NothingYet, DraftsSound, draft
<1>5. HumansGiveNone' /\ Certified' /\ OrdersNumbered' /\ SavedInReview' /\ LedgerIsSeq' /\ Billed'
  BY DEF Inv, NothingYet, HumansGiveNone, Certified, OrdersNumbered, SavedInReview, LedgerIsSeq, Billed,
         draft, chosen, saved, certifying, storing
<1>6. SavedIsCurrent'
  BY SavedStays DEF Inv, NothingYet, draft, saved, storing
<1> QED
  BY <1>1, <1>2, <1>3, <1>4, <1>5, <1>6 DEF Inv

LEMMA LoadInv == ASSUME Inv, NEW a \in Apps, load(a) PROVE Inv'
<1>1. loads = {}
  BY DEF Inv, LoadIsAlone, load
<1> DEFINE new == [run |-> run, app |-> a, read |-> FALSE]
<1>2. loads' = {new} /\ new.run = run /\ new \in Loads
  BY <1>1 DEF load, Loads, Inv, Typed
<1> HIDE DEF new
<1>3. busy' # None
  BY AppsAssumption DEF load
<1>4. LoadIsAlone'
  BY <1>2, <1>3 DEF load, LoadIsAlone
<1>5. loads' \subseteq Loads /\ repoMeta' \in Apps \cup {None}
  BY <1>2 DEF load, Inv, Typed
<1> QED
  BY <1>3, <1>4, <1>5, LoadKeeps DEF load

LEMMA LoadReadInv == ASSUME Inv, NEW l \in loads, LoadRead(l) PROVE Inv'
<1> DEFINE new == [l EXCEPT !.read = TRUE]
<1>1. loads = {l} /\ l.run = run /\ repoMeta = None /\ l \in Loads
  BY DEF Inv, Typed, LoadIsAlone
<1>2. loads' = {new} /\ new.run = run /\ new \in Loads
  BY <1>1 DEF LoadRead, Loads
<1> HIDE DEF new
<1>3. busy' # None
  BY AppsAssumption DEF LoadRead
<1>4. LoadIsAlone'
  BY <1>1, <1>2, <1>3 DEF LoadRead, LoadIsAlone
<1>5. loads' \subseteq Loads /\ repoMeta' \in Apps \cup {None}
  BY <1>2 DEF LoadRead, Inv, Typed
<1> QED
  BY <1>3, <1>4, <1>5, LoadKeeps DEF LoadRead

LEMMA LoadEndsInv == ASSUME Inv, NEW l \in loads, LoadEnds(l) PROVE Inv'
<1>1. loads = {l} /\ repoMeta = None /\ l \in Loads
  BY DEF Inv, Typed, LoadIsAlone
<1>2. loads' = {}
  BY <1>1 DEF LoadEnds
<1>3. repoMeta' \in Apps \cup {None}
  BY <1>1 DEF LoadEnds, Loads
<1> QED
  BY <1>1, <1>2, <1>3, LoadKeeps DEF LoadEnds, LoadIsAlone

-----------------------------------------------------------------------------
(* Asking the AI *)

\* What is left alone while an answer is waited for.
LEMMA AskKeeps ==
  ASSUME Inv, UNCHANGED <<view, step, run, repoMeta, draft, chosen, saved, certifying, storing, loads>>,
         asks' \subseteq AskRecords, AskIsAlone',
         billed' \in Nat, billed <= billed', moves' \in Nat, loads # {} => busy' # None
  PROVE  Inv'
<1>1. Typed'
  BY DEF Inv, Typed, draft, chosen, certifying
<1>2. NothingYet' /\ LoadIsAlone' /\ DraftsSound'
  BY DEF Inv, NothingYet, LoadIsAlone, DraftsSound, draft, saved, certifying
<1>3. HumansGiveNone' /\ Certified' /\ OrdersNumbered' /\ SavedInReview' /\ LedgerIsSeq'
  BY DEF Inv, HumansGiveNone, Certified, OrdersNumbered, SavedInReview, LedgerIsSeq,
         draft, chosen, saved, certifying, storing
<1>4. Billed'
  BY DEF Inv, Typed, Billed, draft
<1>5. SavedIsCurrent'
  BY SavedStays DEF Inv, draft, saved, storing
<1> QED
  BY <1>1, <1>2, <1>3, <1>4, <1>5 DEF Inv

LEMMA AskInv ==
  ASSUME Inv, NEW kind \in {"suggest", "judge"}, NEW items \in SUBSET Items, repoMeta # None,
         kind = "judge" => \A i \in items : judgments[i] = None, Ask(kind, items)
  PROVE  Inv'
<1> DEFINE new == [n |-> moves, kind |-> kind, run |-> run, app |-> repoMeta, items |-> items,
                   first |-> ChunksOf[repoMeta], second |-> 0, spent |-> 0, open |-> TRUE]
<1>1. new \in AskRecords
  BY AppsAssumption DEF AskRecords, Inv, Typed
<1>2. /\ new.run = run /\ new.app = repoMeta /\ new.kind = kind /\ new.items = items
      /\ new.open = TRUE /\ new.spent = 0 /\ asks' = asks \cup {new}
  BY DEF Ask
<1> HIDE DEF new
<1>3. \A a \in asks : ~Awaited(a) /\ a.run <= run /\ (~a.open => a.spent = 0)
  BY DEF Inv, AskIsAlone, Ask
<1>4. busy' # None
  BY AppsAssumption DEF Ask
<1>5. usage + new.spent <= billed
  BY <1>2 DEF Inv, Typed, Billed
<1>6. AskIsAlone'
  <2>1. run' = run /\ repoMeta' = repoMeta /\ judgments' = judgments /\ usage' = usage /\ billed' = billed
    BY DEF Ask, draft
  <2>2. run <= run
    BY DEF Inv, Typed
  <2> QED
    BY <1>2, <1>3, <1>4, <1>5, <2>1, <2>2 DEF AskIsAlone, Awaited
<1>7. asks' \subseteq AskRecords /\ billed' = billed /\ moves' \in Nat
  BY <1>1, <1>2 DEF Ask, Inv, Typed, Move
<1>8. billed \in Nat /\ billed <= billed
  BY DEF Inv, Typed
<1> QED
  BY <1>4, <1>6, <1>7, <1>8, AskKeeps DEF Ask

LEMMA LessIs ==
  ASSUME NEW a \in AskRecords, NEW t \in {"first", "second"}, a[t] > 0
  PROVE  /\ Less(a, t) \in AskRecords
         /\ \A f \in {"n", "kind", "run", "app", "items", "spent", "open"} : Less(a, t)[f] = a[f]
<1>1. CASE t = "first"
  BY <1>1 DEF Less, AskRecords
<1>2. CASE t = "second"
  BY <1>2 DEF Less, AskRecords
<1> QED
  BY <1>1, <1>2

\* a as it is after one more answer.
Follows(x, a) ==
  /\ x \in AskRecords /\ x.run = a.run /\ x.app = a.app /\ x.kind = a.kind /\ x.items = a.items
  /\ x.open => a.open
  /\ ~x.open => x.spent = 0

LEMMA AnswerKeeps ==
  ASSUME Inv, NEW a \in asks, NEW x, Follows(x, a), Replace(a, x),
         NEW n \in Nat, Bill(a, n), x.open => x.spent <= a.spent + n,
         busy' = busy \/ (Awaited(a) /\ ~x.open),
         UNCHANGED <<run, repoMeta, judgments, usage>>
  PROVE  /\ AskIsAlone' /\ asks' \subseteq AskRecords
         /\ billed' \in Nat /\ billed <= billed' /\ (loads # {} => busy' # None)
<1>1. asks' \subseteq (asks \ {a}) \cup {x}
  BY DEF Replace
<1>2. billed' \in Nat /\ billed <= billed' /\ (Awaited(a) => billed' = billed + n)
  BY DEF Bill, Inv, Typed, Awaited
<1>3. asks' \subseteq AskRecords
  BY <1>1 DEF Follows, Inv, Typed
<1>4. loads # {} => busy' # None
  BY DEF Inv, LoadIsAlone, AskIsAlone
<1>5. \A c \in asks \ {a} : Awaited(c) => ~Awaited(a) /\ ~Awaited(x)
  BY DEF Inv, AskIsAlone, Follows, Awaited
<1>6. \A c \in asks \ {a} :
        Awaited(c) => busy' # None /\ c.app = repoMeta /\ repoMeta # None /\ usage + c.spent <= billed'
  <2> SUFFICES ASSUME NEW c \in asks \ {a}, Awaited(c)
               PROVE  busy' # None /\ c.app = repoMeta /\ repoMeta # None /\ usage + c.spent <= billed'
    OBVIOUS
  <2>1. busy' = busy
    BY <1>5
  <2>2. busy # None /\ c.app = repoMeta /\ repoMeta # None /\ usage + c.spent <= billed
    BY DEF Inv, AskIsAlone
  <2>3. usage \in Nat /\ c.spent \in Nat /\ billed \in Nat
    BY DEF Inv, Typed, AskRecords
  <2> QED
    BY <1>2, <2>1, <2>2, <2>3
<1>7. Awaited(x) =>
        /\ busy' # None /\ x.app = repoMeta /\ repoMeta # None /\ usage + x.spent <= billed'
        /\ x.kind = "judge" => \A i \in x.items : judgments[i] = None
  <2> SUFFICES ASSUME Awaited(x)
               PROVE  /\ busy' # None /\ x.app = repoMeta /\ repoMeta # None /\ usage + x.spent <= billed'
                      /\ x.kind = "judge" => \A i \in x.items : judgments[i] = None
    OBVIOUS
  <2>1. Awaited(a) /\ x.open
    BY DEF Awaited, Follows
  <2>2. /\ busy # None /\ a.app = repoMeta /\ repoMeta # None /\ usage + a.spent <= billed
        /\ a.kind = "judge" => \A i \in a.items : judgments[i] = None
    BY <2>1 DEF Inv, AskIsAlone
  <2>3. usage \in Nat /\ a.spent \in Nat /\ billed \in Nat /\ x.spent \in Nat
    BY DEF Inv, Typed, AskRecords, Follows
  <2>4. usage + x.spent <= billed'
    BY <1>2, <2>1, <2>2, <2>3
  <2> QED
    BY <2>1, <2>2, <2>4 DEF Follows
<1>8. x.run <= run /\ (~x.open => x.spent = 0)
  BY DEF Follows, Inv, AskIsAlone
<1>9. AskIsAlone'
  <2>1. \A c : (Awaited(c) <=> Awaited(c)')
    BY DEF Awaited
  <2>2. \A c \in asks' : c.run <= run /\ (~c.open => c.spent = 0)
    BY <1>1, <1>8 DEF Inv, AskIsAlone
  <2>3. \A c \in asks' : Awaited(c) =>
          busy' # None /\ c.app = repoMeta /\ repoMeta # None /\ usage + c.spent <= billed'
    BY <1>1, <1>6, <1>7
  <2>4. \A c \in asks' : Awaited(c) /\ c.kind = "judge" => \A i \in c.items : judgments[i] = None
    BY <1>1, <1>7 DEF Inv, AskIsAlone
  <2>5. \A c, d \in asks' : Awaited(c) /\ Awaited(d) => c = d
    BY <1>1, <1>5 DEF Inv, AskIsAlone
  <2> QED
    BY <2>1, <2>2, <2>3, <2>4, <2>5 DEF AskIsAlone
<1> QED
  BY <1>2, <1>3, <1>4, <1>9

LEMMA MalformedInv == ASSUME Inv, NEW a \in asks, Malformed(a) PROVE Inv'
<1> DEFINE x == [a EXCEPT !.first = @ - 1, !.second = @ + 1, !.spent = IF a.open THEN @ + 1 ELSE 0]
<1>1. a \in AskRecords
  BY DEF Inv, Typed
<1>2. Follows(x, a) /\ (x.open => x.spent <= a.spent + 1)
  <2>1. /\ x.run = a.run /\ x.app = a.app /\ x.kind = a.kind /\ x.items = a.items /\ x.open = a.open
        /\ x.n = a.n /\ x.first = a.first - 1 /\ x.second = a.second + 1
        /\ x.spent = IF a.open THEN a.spent + 1 ELSE 0
    BY <1>1 DEF AskRecords
  <2>2. a.first - 1 \in Nat /\ a.second + 1 \in Nat /\ a.spent + 1 \in Nat
    BY <1>1 DEF Malformed, AskRecords
  <2>3. x \in AskRecords
    BY <1>1, <2>2 DEF AskRecords
  <2> QED
    BY <2>1, <2>2, <2>3 DEF Follows
<1>3. Replace(a, x) /\ Bill(a, 1)
  BY DEF Malformed
<1> HIDE DEF x
<1>4. UNCHANGED <<run, busy, repoMeta, judgments, usage>>
  BY DEF Malformed, draft
<1>5. /\ AskIsAlone' /\ asks' \subseteq AskRecords
      /\ billed' \in Nat /\ billed <= billed' /\ (loads # {} => busy' # None)
  <2>1. 1 \in Nat /\ (busy' = busy \/ (Awaited(a) /\ ~x.open))
    BY <1>4
  <2> QED
    BY <1>2, <1>3, <1>4, <2>1, AnswerKeeps
<1>6. moves' \in Nat
  BY DEF Malformed, Inv, Typed
<1> QED
  BY <1>5, <1>6, AskKeeps DEF Malformed

LEMMA ChunkFailsInv ==
  ASSUME Inv, NEW a \in asks, NEW t \in {"first", "second"}, a[t] > 0, NEW n \in 0..1, ChunkFails(a, t, n)
  PROVE  Inv'
<1> DEFINE less == Less(a, t)
           x == [less EXCEPT !.spent = 0, !.open = FALSE]
<1>1. a \in AskRecords
  BY DEF Inv, Typed
<1>2. less \in AskRecords /\ \A f \in {"n", "kind", "run", "app", "items", "spent", "open"} : less[f] = a[f]
  BY <1>1, LessIs
<1>3. Replace(a, x) /\ Bill(a, n) /\ n \in Nat
  BY DEF ChunkFails
<1> HIDE DEF less
<1>4. Follows(x, a) /\ ~x.open
  BY <1>1, <1>2 DEF Follows, AskRecords
<1> HIDE DEF x
<1>5. UNCHANGED <<run, repoMeta, judgments, usage>> /\ (busy' = busy \/ (Awaited(a) /\ ~x.open))
  BY <1>4 DEF ChunkFails, draft, Awaited
<1>6. /\ AskIsAlone' /\ asks' \subseteq AskRecords
      /\ billed' \in Nat /\ billed <= billed' /\ (loads # {} => busy' # None)
  BY <1>3, <1>4, <1>5, AnswerKeeps
<1>7. moves' \in Nat
  BY DEF ChunkFails, Inv, Typed
<1> QED
  BY <1>6, <1>7, AskKeeps DEF ChunkFails

\* The answer to a chunk that leaves others out, or to a request nobody awaits.
LEMMA ChunkDoneMoreInv ==
  ASSUME Inv, NEW a \in asks, NEW t \in {"first", "second"}, a[t] > 0, ChunkDone(a, t),
         ~(a.run = run /\ Less(a, t).first + Less(a, t).second = 0)
  PROVE  Inv'
<1> DEFINE less == Less(a, t)
           x == [less EXCEPT !.spent = @ + 1]
<1>1. a \in AskRecords
  BY DEF Inv, Typed
<1>2. less \in AskRecords /\ \A f \in {"n", "kind", "run", "app", "items", "spent", "open"} : less[f] = a[f]
  BY <1>1, LessIs
<1>3. Replace(a, x) /\ Bill(a, 1) /\ a.open
  BY DEF ChunkDone
<1>4. ~(a.run = run /\ x.first + x.second = 0)
  BY <1>2 DEF AskRecords
<1>5. UNCHANGED <<view, step, run, busy, repoMeta, draft, chosen, saved, certifying, storing, loads, moves>>
  BY <1>4 DEF ChunkDone
<1> HIDE DEF less
<1>6. Follows(x, a) /\ x.spent = a.spent + 1
  BY <1>1, <1>2, <1>3 DEF Follows, AskRecords
<1> HIDE DEF x
<1>7. x.open => x.spent <= a.spent + 1
  BY <1>1, <1>6 DEF AskRecords
<1>8. UNCHANGED <<judgments, usage>>
  BY <1>5 DEF draft
<1>9. /\ AskIsAlone' /\ asks' \subseteq AskRecords
      /\ billed' \in Nat /\ billed <= billed' /\ (loads # {} => busy' # None)
  <2>1. 1 \in Nat /\ (busy' = busy \/ (Awaited(a) /\ ~x.open)) /\ run' = run /\ repoMeta' = repoMeta
    BY <1>5
  <2> QED
    BY <1>3, <1>6, <1>7, <1>8, <2>1, AnswerKeeps
<1>10. moves' \in Nat
  BY <1>5 DEF Inv, Typed
<1> QED
  BY <1>5, <1>9, <1>10, AskKeeps

\* What the answers to all chunks make of an item.
LEMMA ResultIsSound ==
  ASSUME NEW a \in AskRecords, a.app \in Apps, a.kind = "judge", NEW got \in Results(a), NEW i \in a.items
  PROVE  LET d == Merged([c \in DOMAIN got |-> got[c][i]], DOMAIN got)
         IN  d \in Drafts /\ SoundDraft(d, i, a.app)
<1> DEFINE chunks == 1..ChunksOf[a.app]
           Said == {[j \in a.items |-> Validated(said[j], j, Hits[a.app])] : said \in [a.items -> Given]}
           drafts == [c \in DOMAIN got |-> got[c][i]]
<1>1. ChunksOf[a.app] \in Nat \ {0}
  BY AppsAssumption
<1>2. chunks # {}
  BY <1>1
<1>3. got \in [chunks -> Said]
  BY DEF Results
<1>4. i \in Items
  BY DEF AskRecords
<1>5. \A c \in chunks : got[c][i] \in Drafts /\ SoundDraft(got[c][i], i, a.app)
  <2> SUFFICES ASSUME NEW c \in chunks
               PROVE  got[c][i] \in Drafts /\ SoundDraft(got[c][i], i, a.app)
    OBVIOUS
  <2>1. got[c] \in Said
    BY <1>3
  <2>2. PICK said \in [a.items -> Given] : got[c] = [j \in a.items |-> Validated(said[j], j, Hits[a.app])]
    BY <2>1
  <2>3. got[c][i] = Validated(said[i], i, Hits[a.app])
    BY <2>2
  <2>4. said[i] \in Answers \cup {None}
    BY <2>2, OfferedAssumption
  <2> QED
    BY <1>4, <2>3, <2>4, ValidatedIsSound
<1>6. DOMAIN got = chunks
  BY <1>3
<1>7. \A c \in chunks : drafts[c] = got[c][i]
  BY <1>6
<1> HIDE DEF chunks, drafts
<1>8. Merged(drafts, chunks) \in Drafts /\ SoundDraft(Merged(drafts, chunks), i, a.app)
  BY <1>2, <1>4, <1>5, <1>7, MergedIsSound
<1> QED
  BY <1>6, <1>8 DEF drafts

\* The last answer to a request of this review.
LEMMA ChunkDoneLastInv ==
  ASSUME Inv, NEW a \in asks, NEW t \in {"first", "second"}, a[t] > 0, ChunkDone(a, t),
         a.run = run, Less(a, t).first + Less(a, t).second = 0
  PROVE  Inv'
<1> DEFINE less == Less(a, t)
           x == [less EXCEPT !.spent = @ + 1]
<1>1. a \in AskRecords
  BY DEF Inv, Typed
<1>2. less \in AskRecords /\ \A f \in {"n", "kind", "run", "app", "items", "spent", "open"} : less[f] = a[f]
  BY <1>1, LessIs
<1>3. x.first + x.second = 0 /\ x.spent = a.spent + 1
  BY <1>1, <1>2 DEF AskRecords
<1>4. /\ Replace(a, x) /\ Bill(a, 1) /\ a.open
      /\ UNCHANGED <<view, step, run, repoMeta, certifying, storing, loads, moves>>
  BY DEF ChunkDone
<1>5. /\ busy' = None /\ usage' = usage + x.spent
      /\ \E got \in Results(a) : IF a.kind = "suggest" THEN Suggested(got) ELSE Judged(a, got)
  BY <1>3 DEF ChunkDone
<1> HIDE DEF less, x
<1>6. /\ Awaited(a) /\ a.app = repoMeta /\ repoMeta \in Apps /\ usage + a.spent <= billed
      /\ a.kind = "judge" => \A i \in a.items : judgments[i] = None
  BY <1>4 DEF Inv, Typed, AskIsAlone, Awaited
<1>7. asks' = asks \ {a} /\ billed' = billed + 1
  BY <1>3, <1>4, <1>6 DEF Replace, Bill, Awaited
<1>8. loads = {} /\ \A c \in asks' : ~Awaited(c)
  BY <1>6, <1>7 DEF Inv, LoadIsAlone, AskIsAlone
<1>9. usage' \in Nat /\ billed' \in Nat /\ usage' <= billed'
  BY <1>1, <1>3, <1>5, <1>6, <1>7 DEF Inv, Typed, AskRecords
<1>10. savedRound' = None /\ overrides' = overrides /\ humanInputs' = humanInputs
  BY <1>5 DEF Suggested, Judged, Changed, chosen
<1>11. DraftsSound' /\ aiRan' \in BOOLEAN
  <2>1. CASE a.kind = "suggest"
    <3>1. UNCHANGED <<judgments, aiRan>>
      BY <1>5, <2>1 DEF Suggested
    <3> QED
      BY <1>4, <3>1 DEF Inv, Typed, DraftsSound
  <2>2. CASE a.kind = "judge"
    <3>1. PICK got \in Results(a) : Judged(a, got)
      BY <1>5, <2>2
    <3> DEFINE M(i) == Merged([c \in DOMAIN got |-> got[c][i]], DOMAIN got)
    <3>2. \A i \in a.items : M(i) \in Drafts /\ SoundDraft(M(i), i, repoMeta)
      BY <1>1, <1>6, <2>2, ResultIsSound
    <3> HIDE DEF M
    <3>3. /\ aiRan' = TRUE
          /\ judgments' = [i \in Items |->
               IF i \notin a.items THEN judgments[i]
               ELSE [verdict |-> M(i).verdict, grounded |-> M(i).grounded,
                     demoted |-> M(i).demoted, of |-> a.run]]
      BY <3>1 DEF Judged, M
    <3>4. \A i \in Items : i \in a.items =>
            judgments'[i] \in Judgments /\ judgments'[i].of = run /\ SoundDraft(judgments'[i], i, repoMeta)
      <4> SUFFICES ASSUME NEW i \in Items, i \in a.items
                   PROVE  /\ judgments'[i] \in Judgments /\ judgments'[i].of = run
                          /\ SoundDraft(judgments'[i], i, repoMeta)
        OBVIOUS
      <4>1. judgments'[i] = [verdict |-> M(i).verdict, grounded |-> M(i).grounded,
                             demoted |-> M(i).demoted, of |-> run]
        BY <3>3, <1>6 DEF Awaited
      <4>2. M(i) \in Drafts /\ SoundDraft(M(i), i, repoMeta) /\ run \in Nat
        BY <3>2 DEF Inv, Typed
      <4> QED
        BY <4>1, <4>2 DEF Judgments, Drafts, SoundDraft
    <3>5. \A i \in Items : i \notin a.items => judgments'[i] = judgments[i]
      BY <3>3
    <3>6. DOMAIN judgments' = Items /\ aiRan' = TRUE
      BY <3>3
    <3> QED
      BY <1>4, <3>4, <3>5, <3>6 DEF Inv, DraftsSound
  <2> QED
    BY <1>1, <2>1, <2>2 DEF AskRecords
<1>12. Typed'
  <2>1. asks' \subseteq AskRecords
    BY <1>7 DEF Inv, Typed
  <2> QED
    BY <1>4, <1>9, <1>10, <1>11, <2>1 DEF Inv, Typed, certifying
<1>13. NothingYet' /\ LoadIsAlone'
  BY <1>4, <1>6, <1>8, AppsAssumption DEF NothingYet, LoadIsAlone
<1>14. AskIsAlone'
  <2>1. \A c \in asks' : ~Awaited(c)' /\ c.run <= run' /\ (~c.open => c.spent = 0)
    BY <1>4, <1>7, <1>8 DEF Awaited, Inv, AskIsAlone
  <2> QED
    BY <2>1 DEF AskIsAlone
<1>15. HumansGiveNone' /\ Certified' /\ OrdersNumbered' /\ SavedInReview' /\ LedgerIsSeq' /\ Billed'
  BY <1>4, <1>9, <1>10 DEF Inv, HumansGiveNone, Certified, OrdersNumbered, SavedInReview, LedgerIsSeq, Billed,
                           certifying, storing
<1>16. SavedIsCurrent'
  BY <1>10, SavedStays DEF Inv
<1> QED
  BY <1>11, <1>12, <1>13, <1>14, <1>15, <1>16 DEF Inv

-----------------------------------------------------------------------------
(* The reviewer's choices *)

\* What is chosen is not saved yet.
LEMMA EditKeeps ==
  ASSUME Inv, Edit, overrides' \in [Items -> Choices], humanInputs' \in [Items -> Choices],
         HumansGiveNone', moves' \in Nat
  PROVE  Inv'
<1>1. Typed'
  BY DEF Inv, Typed, Edit, draft, certifying, asking
<1>2. NothingYet' /\ LoadIsAlone' /\ AskIsAlone' /\ DraftsSound'
  BY DEF Inv, Edit, Changed, NothingYet, LoadIsAlone, AskIsAlone, Awaited, DraftsSound, draft, certifying, asking
<1>3. Certified' /\ OrdersNumbered' /\ SavedInReview' /\ LedgerIsSeq' /\ Billed'
  BY DEF Inv, Edit, Changed, Certified, OrdersNumbered, SavedInReview, LedgerIsSeq, Billed,
         draft, certifying, storing, asking
<1>4. SavedIsCurrent'
  BY SavedStays DEF Inv, Edit, Changed
<1> QED
  BY <1>1, <1>2, <1>3, <1>4 DEF Inv

LEMMA TickInv == ASSUME Inv, NEW f, Tick(f) PROVE Inv'
BY EditKeeps DEF Tick, Inv, Typed, HumansGiveNone

LEMMA OverrideInv ==
  ASSUME Inv, NEW i \in Items, NEW v \in Offered \cup {None}, setOverride(i, v)
  PROVE  Inv'
<1>1. overrides \in [Items -> Choices] /\ v \in Verdicts \cup {None}
  BY OfferedAssumption DEF Inv, Typed
<1>2. NoChoice \in Choices /\ [overrides[i] EXCEPT !.verdict = v] \in Choices
  BY <1>1 DEF NoChoice, Choices
<1>3. overrides' \in [Items -> Choices]
  BY <1>1, <1>2 DEF setOverride
<1> QED
  BY <1>3, EditKeeps DEF setOverride, Move, Inv, Typed, HumansGiveNone

LEMMA OverrideReasonInv == ASSUME Inv, NEW i \in Items, setOverrideReason(i) PROVE Inv'
<1>1. overrides \in [Items -> Choices]
  BY DEF Inv, Typed
<1>2. [overrides[i] EXCEPT !.reason = ~overrides[i].reason] \in Choices
  BY <1>1 DEF Choices
<1>3. overrides' = [overrides EXCEPT ![i] = [overrides[i] EXCEPT !.reason = ~overrides[i].reason]]
  BY <1>1 DEF setOverrideReason, Choices
<1>4. overrides' \in [Items -> Choices]
  BY <1>1, <1>2, <1>3
<1> QED
  BY <1>4, EditKeeps DEF setOverrideReason, Move, Inv, Typed, HumansGiveNone

LEMMA HumanInv ==
  ASSUME Inv, NEW i \in Items, NEW v \in Offered \cup {None}, setHuman(i, v)
  PROVE  Inv'
<1>1. humanInputs \in [Items -> Choices] /\ v \in Verdicts \cup {None} /\ ~humanInputs[i].reason
  BY OfferedAssumption DEF Inv, Typed, HumansGiveNone
<1> DEFINE new == [humanInputs[i] EXCEPT !.verdict = v]
<1>2. new \in Choices /\ ~new.reason
  BY <1>1 DEF Choices
<1>3. humanInputs' = [humanInputs EXCEPT ![i] = new]
  BY <1>1 DEF setHuman, Choices
<1> HIDE DEF new
<1>4. humanInputs' \in [Items -> Choices] /\ HumansGiveNone'
  BY <1>1, <1>2, <1>3 DEF Inv, HumansGiveNone
<1> QED
  BY <1>4, EditKeeps DEF setHuman, Move, Inv, Typed

-----------------------------------------------------------------------------
(* Badges and records *)

\* What requests for a badge leave alone.
LEMMA CertifyKeeps ==
  ASSUME Inv, UNCHANGED <<view, step, run, busy, repoMeta, draft, chosen, saved, storing, asking>>,
         ordered' \in Nat, moves' \in Nat, Certified', OrdersNumbered',
         repoMeta = None => certification' = None
  PROVE  Inv'
<1>1. Typed'
  BY DEF Inv, Typed, draft, chosen, asking
<1>2. NothingYet' /\ LoadIsAlone' /\ AskIsAlone' /\ DraftsSound'
  BY DEF Inv, NothingYet, LoadIsAlone, AskIsAlone, Awaited, DraftsSound, draft, saved, asking
<1>3. HumansGiveNone' /\ SavedInReview' /\ LedgerIsSeq' /\ Billed'
  BY DEF Inv, HumansGiveNone, SavedInReview, LedgerIsSeq, Billed, draft, chosen, saved, storing, asking
<1>4. SavedIsCurrent'
  BY SavedStays DEF Inv, draft, saved, storing
<1> QED
  BY <1>1, <1>2, <1>3, <1>4 DEF Inv

LEMMA RequestInv == ASSUME Inv, requestCertification PROVE Inv'
<1>1. ordered' \in Nat /\ moves' \in Nat /\ repoMeta # None
  BY AppsAssumption DEF requestCertification, Move, Inv, Typed
<1>2. Certified'
  BY DEF requestCertification, Certified
<1>3. OrdersNumbered'
  BY <1>1 DEF requestCertification, Inv, OrdersNumbered
<1> QED
  BY <1>1, <1>2, <1>3, CertifyKeeps DEF requestCertification

LEMMA OrderInv == ASSUME Inv, NEW o \in orders, NEW badge, OrderAnswered(o, badge) PROVE Inv'
<1>1. ordered' \in Nat /\ moves' \in Nat /\ orders' \subseteq orders /\ ordered' = ordered /\ repoMeta' = repoMeta
  BY DEF OrderAnswered, Inv, Typed
<1>2. OrdersNumbered'
  BY <1>1 DEF Inv, OrdersNumbered
<1>3. CASE certification # None /\ certification.of = o.of /\ certification.id = o.id
  <2>1. certification' = Settled(o, badge)
    BY <1>3 DEF OrderAnswered, settleCertificationRequest
  <2>2. certification.id # None
    BY <1>3, NoneIsNothing DEF Inv, OrdersNumbered
  <2>3. certification.id = ordered /\ certification.of = repoMeta
    BY <1>3, <2>2 DEF Inv, Certified
  <2>4. Certified'
    BY <1>1, <1>3, <2>1, <2>3 DEF Certified, Settled
  <2>5. repoMeta # None
    BY <1>3 DEF Inv, NothingYet
  <2> QED
    BY <1>1, <1>2, <2>4, <2>5, CertifyKeeps DEF OrderAnswered
<1>4. CASE ~(certification # None /\ certification.of = o.of /\ certification.id = o.id)
  <2>1. certification' = certification
    BY <1>4 DEF OrderAnswered, settleCertificationRequest
  <2>2. Certified' /\ (repoMeta = None => certification' = None)
    BY <1>1, <2>1 DEF Inv, Certified, NothingYet
  <2> QED
    BY <1>1, <1>2, <2>2, CertifyKeeps DEF OrderAnswered
<1> QED
  BY <1>3, <1>4

LEMMA SaveInv == ASSUME Inv, view = "review", repoMeta # None, saveToLedger PROVE Inv'
<1> DEFINE new == [record |-> Record, round |-> Round(repoMeta)]
<1>1. ledger' = Append(ledger, new) /\ savedRound' = Round(repoMeta)
  BY DEF saveToLedger
<1>2. new.record = Record /\ new.round = Round(repoMeta) /\ new = [record |-> Record, round |-> Round(repoMeta)]
  OBVIOUS
<1> HIDE DEF new
<1>3. PICK S : ledger \in Seq(S)
  BY DEF Inv, LedgerIsSeq, IsSeq
<1>4. ledger \in Seq(S \cup {new})
  BY <1>3, SeqDef
<1>5. ledger' \in Seq(S \cup {new}) /\ ledger'[Len(ledger')] = new
  BY <1>1, <1>4, AppendProperties
<1>6. LedgerIsSeq'
  BY <1>5 DEF LedgerIsSeq, IsSeq
<1>7. Record' = Record
  BY RecordStays DEF saveToLedger, draft
<1>8. SavedIsCurrent'
  BY <1>1, <1>2, <1>5, <1>7 DEF SavedIsCurrent
<1>9. Typed'
  BY DEF saveToLedger, Move, Inv, Typed, draft, chosen, certifying, asking
<1>10. NothingYet' /\ LoadIsAlone' /\ AskIsAlone' /\ DraftsSound'
  BY DEF saveToLedger, Inv, NothingYet, LoadIsAlone, AskIsAlone, Awaited, DraftsSound, draft, certifying, asking
<1>11. HumansGiveNone' /\ Certified' /\ OrdersNumbered' /\ SavedInReview' /\ Billed'
  BY DEF saveToLedger, Inv, HumansGiveNone, Certified, OrdersNumbered, SavedInReview, Billed,
         draft, chosen, certifying, asking
<1> QED
  BY <1>6, <1>8, <1>9, <1>10, <1>11 DEF Inv

-----------------------------------------------------------------------------
(* The specification *)

LEMMA ScreenInv == ASSUME Inv, Screen PROVE Inv'
<1>1. view = "review" /\ (step # 1 => repoMeta # None)
  BY DEF Screen, Inv, NothingYet
<1>2. CASE LoadScreen
  <2>1. CASE \E a \in Apps : load(a)
    BY <2>1, LoadInv
  <2>2. CASE repoMeta # None /\ (Goto(2) \/ resetAll)
    BY <1>1, <2>2, GotoInv, ResetInv
  <2> QED
    BY <1>2, <2>1, <2>2 DEF LoadScreen
<1>3. CASE FeatureScreen
  <2>1. repoMeta # None
    BY <1>1, <1>3 DEF FeatureScreen
  <2>2. CASE runSuggest
    BY <2>1, <2>2, AskInv DEF runSuggest
  <2>3. CASE Goto(3)
    BY <2>1, <2>3, GotoInv
  <2> QED
    BY <1>3, <2>2, <2>3, TickInv DEF FeatureScreen
<1>4. CASE JudgeScreen
  <2>1. repoMeta # None
    BY <1>1, <1>4 DEF JudgeScreen
  <2>2. CASE runJudge
    <3>1. PICK items \in SUBSET Items :
            items = (IF aiRan THEN Pending ELSE Listed \cap Verifiable) /\ Ask("judge", items)
      BY <2>2, ItemsAssumption DEF runJudge, Pending
    <3>2. \A i \in items : judgments[i] = None
      BY <3>1 DEF Pending, Inv, DraftsSound
    <3> QED
      BY <2>1, <3>1, <3>2, AskInv
  <2>3. CASE Goto(4)
    BY <2>1, <2>3, GotoInv
  <2>4. CASE \E i \in Items :
               \/ \E v \in Offered \cup {None} : setOverride(i, v) \/ setHuman(i, v)
               \/ setOverrideReason(i)
    BY <2>4, OverrideInv, HumanInv, OverrideReasonInv
  <2> QED
    BY <1>4, <2>2, <2>3, <2>4 DEF JudgeScreen
<1>5. CASE ReportScreen
  <2>1. repoMeta # None
    BY <1>1, <1>5 DEF ReportScreen
  <2> QED
    BY <1>1, <1>5, <2>1, RequestInv, SaveInv, ResetInv DEF ReportScreen
<1>6. ASSUME NEW s \in 1..(step - 1), Goto(s) PROVE Inv'
  <2>1. step \in 1..4
    BY DEF Inv, Typed
  <2>2. s \in 1..4 /\ repoMeta # None
    BY <1>1, <2>1
  <2> QED
    BY <1>6, <2>2, GotoInv
<1> QED
  BY <1>2, <1>3, <1>4, <1>5, <1>6 DEF Screen

LEMMA ChunkDoneInv ==
  ASSUME Inv, NEW a \in asks, NEW t \in {"first", "second"}, a[t] > 0, ChunkDone(a, t)
  PROVE  Inv'
BY ChunkDoneMoreInv, ChunkDoneLastInv

LEMMA NetworkInv == ASSUME Inv, NetworkAnswers PROVE Inv'
<1>1. ASSUME NEW a \in asks, AskAnswered(a) PROVE Inv'
  BY <1>1, MalformedInv, ChunkDoneInv, ChunkFailsInv DEF AskAnswered
<1> QED
  BY <1>1, LoadReadInv, LoadEndsInv, OrderInv, CopyInv DEF NetworkAnswers

LEMMA StutterInv == ASSUME Inv, UNCHANGED vars PROVE Inv'
BY PassingInv DEF vars, saved, storing, Inv, SavedInReview, LedgerIsSeq, NothingYet, Typed

LEMMA NextInv == Inv /\ [Next]_vars => Inv'
BY ScreenInv, NetworkInv, LeaveInv, ReturnInv, RemoveInv, StutterInv DEF Next

\* The inductive invariant, with the types of everything the screen keeps.
THEOREM Invariance == Spec => []Inv
BY InitInv, NextInv, PTL DEF Spec

-----------------------------------------------------------------------------
(* What follows *)

\* Whatever arrives late, nothing of another review is on the screen, and the
\* calls of the AI it tells of have been billed.
THEOREM NothingOfOthers == Spec => []OnlyThisReview
<1>1. Inv => OnlyThisReview
  BY DEF Inv, DraftsSound, Certified, Billed, OnlyThisReview
<1> QED
  BY <1>1, Invariance, PTL

\* A review that is said to be saved is in the ledger as it stands.
THEOREM SavedAsItStands == Spec => []SavedIsCurrent
<1>1. Inv => SavedIsCurrent
  BY DEF Inv
<1> QED
  BY <1>1, Invariance, PTL

\* What is shown of a badge answers the request made last, about this application.
THEOREM BadgeOfThisRequest == Spec => []CertificationIsOfThisRequest
<1>1. Inv => CertificationIsOfThisRequest
  BY DEF Inv, Certified, CertificationIsOfThisRequest
<1> QED
  BY <1>1, Invariance, PTL

\* However drafts, features, overrides and reasons were come by, a candidate for
\* passing rests on verified quotations or on the reviewer.
LEMMA PassRests == ASSUME Inv PROVE PassIsGrounded
<1> SUFFICES ASSUME repoMeta # None, Status(Shown) = "pass_candidate", NEW i \in Listed \cap Required
             PROVE  \/ overrides[i].verdict = "ok"
                    \/ overrides[i].verdict = "na" /\ overrides[i].reason
                    \/ /\ overrides[i].verdict = None /\ judgments[i].verdict = "ok"
                       /\ judgments[i].grounded /\ i \notin Hits[repoMeta]
  BY DEF PassIsGrounded
<1>1. i \in Items /\ i \in Verifiable /\ i \in Required /\ i \in Listed
  BY ItemsAssumption
<1>2. Shown[i] = Final(i) /\ DOMAIN Shown = Listed
  BY <1>1 DEF Shown
<1>3. Final(i) # "fail" /\ Final(i) # "needs_human"
  <2> DEFINE Of(v) == {j \in DOMAIN Shown : Shown[j] = v}
  <2>1. Of("fail") \cap Required = {} /\ Of("needs_human") = {}
    BY DEF Status
  <2> QED
    BY <1>1, <1>2, <2>1
<1> DEFINE own == IF judgments[i] = None THEN None ELSE judgments[i].verdict
           v == IF overrides[i].verdict # None THEN overrides[i].verdict ELSE own
<1>4. Chosen(i, judgments, overrides, humanInputs) = IF v = None THEN "needs_human" ELSE v
  BY <1>1 DEF Chosen
<1>5. /\ v # None /\ v # "fail" /\ v # "needs_human"
      /\ v = "na" => overrides[i].reason \/ humanInputs[i].reason
  BY <1>1, <1>3, <1>4 DEF Final, FinalVerdict, NaNeedsReason
<1>6. ~humanInputs[i].reason /\ overrides[i].verdict \in Verdicts \cup {None}
  BY <1>1 DEF Inv, HumansGiveNone, Typed, Choices
<1>7. judgments[i] # None =>
        judgments[i].verdict \in Verdicts /\ SoundDraft(judgments[i], i, repoMeta)
  BY <1>1 DEF Inv, DraftsSound, Judgments
<1>8. CASE overrides[i].verdict # None
  BY <1>5, <1>6, <1>8 DEF Verdicts
<1>9. CASE overrides[i].verdict = None
  <2>1. judgments[i] # None /\ v = judgments[i].verdict
    BY <1>5, <1>9
  <2>2. judgments[i].verdict = "ok"
    BY <1>1, <1>5, <1>7, <2>1 DEF SoundDraft, Verdicts
  <2> QED
    BY <1>7, <1>9, <2>1, <2>2 DEF SoundDraft
<1> QED
  BY <1>8, <1>9

\* Whatever the reviewer and the AI did, in whatever order, a candidate for passing
\* is grounded in every required item that applies.
THEOREM PassesAreGrounded == Spec => []PassIsGrounded
BY Invariance, PassRests, PTL

LEMMA DraftsKept ==
  ASSUME Inv, [Next]_vars, run' = run, NEW i \in Items, judgments[i] # None
  PROVE  judgments'[i] = judgments[i]
<1>1. ~Blank
  BY DEF Blank, Inv, Typed
<1>2. ASSUME NEW a \in asks, NEW t \in {"first", "second"}, ChunkDone(a, t) PROVE judgments'[i] = judgments[i]
  <2>1. CASE UNCHANGED draft
    BY <2>1 DEF draft
  <2>2. CASE ~(UNCHANGED draft)
    <3>1. PICK got \in Results(a) :
            a.open /\ a.run = run /\ (IF a.kind = "suggest" THEN Suggested(got) ELSE Judged(a, got))
      BY <1>2, <2>2 DEF ChunkDone
    <3>2. CASE a.kind = "suggest"
      BY <3>1, <3>2 DEF Suggested
    <3>3. CASE a.kind # "suggest"
      <4>1. a.kind = "judge" /\ Awaited(a)
        BY <3>1, <3>3 DEF Inv, Typed, AskRecords, Awaited
      <4>2. i \notin a.items
        BY <4>1 DEF Inv, AskIsAlone
      <4> QED
        BY <3>1, <3>3, <4>2 DEF Judged
    <3> QED
      BY <3>2, <3>3
  <2> QED
    BY <2>1, <2>2
<1>3. CASE NetworkAnswers
  <2>1. CASE \E a \in asks : AskAnswered(a)
    <3>1. ASSUME NEW a \in asks, Malformed(a) \/ \E t \in {"first", "second"}, n \in 0..1 : ChunkFails(a, t, n)
          PROVE  judgments'[i] = judgments[i]
      BY <3>1 DEF Malformed, ChunkFails, draft
    <3> QED
      BY <1>2, <2>1, <3>1 DEF AskAnswered
  <2>2. CASE ~\E a \in asks : AskAnswered(a)
    BY <1>3, <2>2 DEF NetworkAnswers, LoadRead, LoadEnds, OrderAnswered, CopyAnswered, draft
  <2> QED
    BY <2>1, <2>2
<1>4. CASE Screen
  <2>1. CASE LoadScreen
    BY <1>1, <2>1 DEF LoadScreen, load, Goto, resetAll, draft
  <2>2. CASE FeatureScreen
    BY <2>2 DEF FeatureScreen, Tick, Edit, runSuggest, Ask, Goto, draft
  <2>3. CASE JudgeScreen
    BY <2>3 DEF JudgeScreen, runJudge, Ask, Goto, setOverride, setHuman, setOverrideReason, Edit, draft
  <2>4. CASE ReportScreen
    BY <1>1, <2>4 DEF ReportScreen, requestCertification, saveToLedger, resetAll, draft
  <2>5. CASE \E s \in 1..(step - 1) : Goto(s)
    BY <2>5 DEF Goto, draft
  <2> QED
    BY <1>4, <2>1, <2>2, <2>3, <2>4, <2>5 DEF Screen
<1>5. CASE Leave \/ Return \/ (\E k \in DOMAIN ledger : remove(k)) \/ UNCHANGED vars
  BY <1>1, <1>5 DEF Leave, Return, remove, vars, draft
<1> QED
  BY <1>3, <1>4, <1>5 DEF Next

\* No step of a review redraws a draft, whichever request is answered.
THEOREM DraftsAreKept == Spec => DraftsStand
<1>1. Inv /\ [Next]_vars =>
        [run' = run => \A i \in Items : judgments[i] # None => judgments'[i] = judgments[i]]_vars
  BY DraftsKept
<1> QED
  BY <1>1, Invariance, PTL DEF Spec, DraftsStand

=============================================================================
