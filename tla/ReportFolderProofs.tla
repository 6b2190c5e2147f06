-------------------------- MODULE ReportFolderProofs --------------------------
(***************************************************************************)
(* Theorems about ReportFolder, for every rubric and checklist, every      *)
(* report an AI may write, every limit of the history and any number of    *)
(* runs, failed moves and killed processes.                                *)
(*                                                                         *)
(* The argument.  While files are moved, what was found at the top and is  *)
(* not in its place is in the newest folder of history under its own name  *)
(* (FoundSoFar): a file is archived once (Once), and nothing is placed     *)
(* before everything is archived.  As long as no undoing has failed, which *)
(* files are where follows from what was archived and placed (Exact), so   *)
(* undoing everything leads back to where the swap began.                  *)
(***************************************************************************)
EXTENDS ReportFolder, FiniteSetTheorems, SequenceTheorems, TLAPS

Phases == {"idle", "write", "validated", "failed", "done"} \cup Swapping

FoldersOf == [Names -> Nat \cup {None}]

\* No file is listed twice.
Once(s) == \A j, k \in 1..Len(s) : s[j] = s[k] => j = k

Typed ==
  /\ phase \in Phases /\ run \in 0..MaxRuns /\ (phase # "idle" => run # 0)
  /\ top \in FoldersOf /\ staging \in [Names -> {run, None}] /\ before \in FoldersOf
  /\ history \in Seq(FoldersOf)
  /\ archived \in Seq(Names) /\ Once(archived) /\ placed \in Seq(Names) /\ Once(placed)
  /\ made \in BOOLEAN /\ told \in BOOLEAN /\ undone \subseteq Names

\* A draft is being written or has been found valid.
DraftsValid == draft # None => phase = "write" \/ (phase = "validated" /\ Valid(draft))

\* Whoever renders has a report.
ReportThere ==
  /\ phase = "write" /\ draft # None => staging["report"] = run
  /\ phase = "validated" => staging["report"] = run

InArchive(f) == made /\ history # <<>> /\ history[Len(history)][f] = before[f]

AllArchived == \A f \in Names : before[f] # None => f \in ToSet(archived)

\* While files are moved, and when all are: where to find what was at the top.
FoundSoFar ==
  phase \in Swapping \cup {"done"} =>
    /\ made => history # <<>>
    /\ \A f \in ToSet(archived) : before[f] # None /\ InArchive(f)
    /\ phase \in {"place", "done"} \/ placed # <<>> => AllArchived
    /\ \A f \in Names : before[f] # None /\ f \notin ToSet(archived) => top[f] = before[f] \/ InArchive(f)
    /\ phase = "unplace" => \A f \in Names : before[f] # None /\ f \notin ToSet(archived) => top[f] = before[f]

\* Without failures of undoing: which files are where.
Exact ==
  /\ phase \in {"archive", "place"} => undone = {}
  /\ phase \in {"archive", "unarchive"} => placed = <<>>
  /\ phase \in Swapping => \A f \in ToSet(placed) : top[f] = run
  /\ phase \in Swapping /\ undone = {} =>
       \A f \in Names \ ToSet(placed) :
         staging[f] = run /\ top[f] = IF f \in ToSet(archived) THEN None ELSE before[f]
  /\ phase = "done" => top = [f \in Names |-> run]

Whole(folders) == \E r \in 1..MaxRuns \cup {None} : folders = [f \in Names |-> r]

\* A swap whose end will not speak of files left behind began with a whole top.
BeganWhole == phase \in Swapping /\ ~told => Whole(before)

\* Outside a swap what it found is still there.
Kept == phase \notin Swapping \cup {"done"} => FoundIsKept

Inv ==
  /\ Typed /\ DraftsValid /\ ReportThere /\ FoundSoFar /\ Exact /\ BeganWhole
  /\ TopIsWhole /\ FailureIsUndone /\ Kept

-----------------------------------------------------------------------------
(* Lists of files *)

LEMMA Listed ==
  ASSUME NEW S, NEW s \in Seq(S)
  PROVE  /\ Len(s) \in Nat /\ DOMAIN s = 1..Len(s) /\ ToSet(s) = {s[i] : i \in 1..Len(s)}
         /\ ToSet(s) \subseteq S /\ (s = <<>> <=> Len(s) = 0) /\ (s = <<>> => ToSet(s) = {})
BY LenProperties, EmptySeq DEF ToSet

LEMMA Appended ==
  ASSUME NEW S, NEW s \in Seq(S), Once(s), NEW e \in S, e \notin ToSet(s)
  PROVE  Append(s, e) \in Seq(S) /\ Once(Append(s, e)) /\ ToSet(Append(s, e)) = ToSet(s) \cup {e}
<1> DEFINE t == Append(s, e)
           n == Len(s)
<1>1. /\ t \in Seq(S) /\ Len(t) = n + 1 /\ n \in Nat
      /\ \A i \in 1..n : t[i] = s[i]
      /\ t[n + 1] = e
  BY AppendProperties, LenProperties
<1> HIDE DEF t
<1>2. ToSet(t) = {t[i] : i \in 1..(n + 1)} /\ ToSet(s) = {s[i] : i \in 1..n}
  BY <1>1, Listed
<1>3. \A i \in 1..(n + 1) : i \in 1..n \/ i = n + 1
  BY <1>1
<1>4. ToSet(t) \subseteq ToSet(s) \cup {e}
  BY <1>1, <1>2, <1>3
<1>5. n + 1 \in 1..(n + 1) /\ \A i \in 1..n : i \in 1..(n + 1)
  BY <1>1
<1>6. ToSet(s) \cup {e} \subseteq ToSet(t)
  BY <1>1, <1>2, <1>5
<1>7. \A i \in 1..n : t[i] # e
  BY <1>1, <1>2
<1>8. ASSUME NEW j \in 1..(n + 1), NEW k \in 1..(n + 1), t[j] = t[k] PROVE j = k
  <2>1. CASE j \in 1..n /\ k \in 1..n
    BY <1>1, <1>8, <2>1 DEF Once
  <2>2. CASE ~(j \in 1..n /\ k \in 1..n)
    BY <1>1, <1>3, <1>7, <1>8, <2>2
  <2> QED
    BY <2>1, <2>2
<1>9. Once(t)
  BY <1>1, <1>8 DEF Once
<1> QED
  BY <1>1, <1>4, <1>6, <1>9 DEF t

LEMMA Shortened ==
  ASSUME NEW S, NEW s \in Seq(S), Once(s), s # <<>>
  PROVE  /\ Last(s) \in ToSet(s) /\ Last(s) \in S /\ Front(s) \in Seq(S) /\ Once(Front(s))
         /\ ToSet(Front(s)) = ToSet(s) \ {Last(s)}
<1> DEFINE t == Front(s)
           n == Len(s)
<1>1. n \in Nat \ {0} /\ \A i \in 1..n : s[i] \in S
  BY EmptySeq, ElementOfSeq
<1>2. /\ t \in Seq(S) /\ Len(t) = n - 1 /\ \A i \in 1..(n - 1) : t[i] = s[i]
  <2>1. 1 \in Int /\ n - 1 \in Int /\ \A i \in 1..(n - 1) : s[i] \in S
    BY <1>1
  <2>2. /\ SubSeq(s, 1, n - 1) \in Seq(S)
        /\ Len(SubSeq(s, 1, n - 1)) = IF 1 <= n - 1 THEN (n - 1) - 1 + 1 ELSE 0
        /\ \A i \in 1..((n - 1) - 1 + 1) : SubSeq(s, 1, n - 1)[i] = s[1 + i - 1]
    BY <2>1, SubSeqProperties
  <2>3. t = SubSeq(s, 1, n - 1)
    BY DEF Front
  <2> HIDE DEF t, n
  <2>4. Len(t) = n - 1 /\ t \in Seq(S)
    <3>1. (IF 1 <= n - 1 THEN (n - 1) - 1 + 1 ELSE 0) = n - 1
      BY <1>1
    <3> QED
      BY <2>2, <2>3, <3>1
  <2>5. ASSUME NEW i \in 1..(n - 1) PROVE t[i] = s[i]
    <3>1. i \in 1..((n - 1) - 1 + 1) /\ 1 + i - 1 = i
      BY <1>1
    <3>2. t[i] = s[1 + i - 1]
      BY <2>2, <2>3, <3>1
    <3> QED
      BY <3>1, <3>2
  <2> QED
    BY <2>4, <2>5
<1> HIDE DEF t
<1>3. ToSet(t) = {t[i] : i \in 1..(n - 1)} /\ ToSet(s) = {s[i] : i \in 1..n}
  BY <1>2, Listed
<1>4. Last(s) = s[n] /\ n \in 1..n
  BY <1>1 DEF Last
<1>5. \A i \in 1..n : i \in 1..(n - 1) \/ i = n
  BY <1>1
<1>6. \A i \in 1..(n - 1) : i \in 1..n /\ s[i] # s[n]
  BY <1>1, <1>4 DEF Once
<1>7. ToSet(t) = ToSet(s) \ {Last(s)}
  <2>1. ToSet(t) \subseteq ToSet(s) \ {Last(s)}
    BY <1>2, <1>3, <1>4, <1>6
  <2>2. ToSet(s) \ {Last(s)} \subseteq ToSet(t)
    BY <1>2, <1>3, <1>4, <1>5
  <2> QED
    BY <2>1, <2>2
<1>8. Once(t)
  BY <1>2, <1>6 DEF Once
<1> QED
  BY <1>1, <1>2, <1>3, <1>4, <1>7, <1>8 DEF t

LEMMA FirstOf == ASSUME NEW files PROVE First(files) \subseteq files
BY DEF First

-----------------------------------------------------------------------------
(* Reports *)

LEMMA RollupFails ==
  ASSUME NEW verdicts
  PROVE  RollupVerdict(verdicts) = "fail" <=> "fail" \in verdicts
BY RubricAssumption DEF RollupVerdict, Verdicts

\* A report that keeps the contract hides no failed sub-check.
LEMMA ValidIsHonest ==
  ASSUME NEW r, Valid(r)
  PROVE  LET failing == {i \in Items : \E s \in Subs[i] : r.sub[i][s] = "fail"}
         IN  /\ \A i \in failing : r.verdict[i] = "fail"
             /\ r.summary.must_fix + r.summary.recommended + r.summary.info = Cardinality(failing)
             /\ \A c \in Criteria : Mapped[c] \cap failing # {} => r.moe[c] = "unmet"
<1> DEFINE failing == {i \in Items : \E s \in Subs[i] : r.sub[i][s] = "fail"}
           Failed(s) == {i \in DOMAIN r.verdict : r.verdict[i] = "fail" /\ r.severity[i] = s}
<1>1. DOMAIN r.verdict = Items
  BY DEF Valid, Complete
<1>2. ASSUME NEW i \in Items PROVE r.verdict[i] = "fail" <=> i \in failing
  <2> DEFINE said == {r.sub[i][s] : s \in Subs[i]}
  <2>1. RollupVerdict(said) # None => r.verdict[i] = RollupVerdict(said)
    BY DEF Valid, Complete
  <2>2. said # {}
    BY RubricAssumption
  <2>3. RollupVerdict(said) # None
    BY <2>2, RubricAssumption DEF RollupVerdict, Verdicts
  <2>4. RollupVerdict(said) = "fail" <=> "fail" \in said
    BY RollupFails
  <2> QED
    BY <2>1, <2>3, <2>4
<1>3. failing = Failed("high") \cup Failed("medium") \cup Failed("low")
  BY <1>1, <1>2 DEF Valid, Tidy, Severities
<1>4. /\ Failed("high") \cap Failed("medium") = {}
      /\ (Failed("high") \cup Failed("medium")) \cap Failed("low") = {}
  OBVIOUS
<1>5. IsFiniteSet(Items) /\ \A s : Failed(s) \subseteq Items
  BY <1>1, RubricAssumption
<1>6. \A s : IsFiniteSet(Failed(s))
  BY <1>5, FS_Subset
<1>7. r.summary = [must_fix |-> Cardinality(Failed("high")), recommended |-> Cardinality(Failed("medium")),
                   info |-> Cardinality(Failed("low")),
                   needs_human |-> Cardinality({i \in DOMAIN r.verdict : r.verdict[i] = "needs_human"})]
  BY DEF Valid, SummedUp, RecomputeSummary
<1> HIDE DEF Failed, failing
<1>8. /\ IsFiniteSet(Failed("high") \cup Failed("medium"))
      /\ Cardinality(Failed("high") \cup Failed("medium"))
           = Cardinality(Failed("high")) + Cardinality(Failed("medium")) - Cardinality({})
  BY <1>4, <1>6, FS_Union
<1>9. Cardinality(failing)
        = Cardinality(Failed("high") \cup Failed("medium")) + Cardinality(Failed("low")) - Cardinality({})
  BY <1>3, <1>4, <1>6, <1>8, FS_Union
<1>10. /\ Cardinality({}) = 0
       /\ \A s : Cardinality(Failed(s)) \in Nat
  BY <1>6, FS_EmptySet, FS_CardinalityType
<1>11. r.summary.must_fix + r.summary.recommended + r.summary.info = Cardinality(failing)
  BY <1>7, <1>8, <1>9, <1>10
<1>12. ASSUME NEW c \in Criteria, Mapped[c] \cap failing # {} PROVE r.moe[c] = "unmet"
  <2>1. PICK i \in Mapped[c] : i \in failing
    BY <1>12
  <2>2. i \in Items
    BY <2>1, RubricAssumption
  <2>3. "fail" \in VerdictsOf(r, Mapped[c])
    BY <1>1, <1>2, <2>1, <2>2 DEF VerdictsOf
  <2>4. r.moe[c] = MoeStatusFor(VerdictsOf(r, Mapped[c]))
    BY DEF Valid, ChecklistHolds
  <2> QED
    BY <2>3, <2>4 DEF MoeStatusFor
<1>13. \A i \in failing : i \in Items
  BY DEF failing
<1>14. \A i \in failing : r.verdict[i] = "fail"
  BY <1>2, <1>13
<1> QED
  BY <1>11, <1>12, <1>14 DEF failing

-----------------------------------------------------------------------------
(* The invariant holds at first and outside swaps *)

LEMMA InitInv == Init => Inv
<1> SUFFICES ASSUME Init PROVE Inv
  OBVIOUS
<1>1. \A S : <<>> \in Seq(S) /\ Len(<<>>) = 0
  BY EmptySeq
<1>2. Typed
  <2>1. Once(archived) /\ Once(placed)
    BY <1>1 DEF Init, Once
  <2>2. archived \in Seq(Names) /\ placed \in Seq(Names) /\ history \in Seq(FoldersOf)
    BY <1>1 DEF Init
  <2>3. top \in FoldersOf /\ before \in FoldersOf /\ staging \in [Names -> {run, None}]
    BY DEF Init, Empty, FoldersOf
  <2>4. run \in 0..MaxRuns
    BY LimitsAssumption DEF Init
  <2> QED
    BY <2>1, <2>2, <2>3, <2>4 DEF Init, Typed, Phases
<1>3. TopIsWhole
  BY DEF Init, TopIsWhole, Empty
<1>4. FoundIsKept
  BY DEF Init, FoundIsKept, Empty
<1> QED
  BY <1>2, <1>3, <1>4 DEF Init, Inv, DraftsValid, ReportThere, FoundSoFar, Exact, BeganWhole,
                          FailureIsUndone, Kept, Swapping

\* During a swap, and when all files are moved, what was found is kept.
LEMMA Found == ASSUME Inv PROVE FoundIsKept
<1>1. CASE phase \notin Swapping \cup {"done"}
  BY <1>1 DEF Inv, Kept
<1>2. CASE phase \in Swapping \cup {"done"}
  <2> SUFFICES ASSUME NEW f \in Names, before[f] # None
               PROVE  top[f] = before[f] \/ \E k \in DOMAIN history : history[k][f] = before[f]
    BY DEF FoundIsKept
  <2>1. top[f] = before[f] \/ InArchive(f)
    BY <1>2 DEF Inv, FoundSoFar
  <2>2. history \in Seq(FoldersOf)
    BY DEF Inv, Typed
  <2>3. history # <<>> => Len(history) \in DOMAIN history
    BY <2>2, EmptySeq, LenProperties
  <2> QED
    BY <2>1, <2>3 DEF InArchive
<1> QED
  BY <1>1, <1>2

Quiet == Phases \ (Swapping \cup {"done"})

\* What is left alone while nothing is moved.
LEMMA QuietInv ==
  ASSUME Inv, UNCHANGED <<top, history, swap, before>>, phase' \in Quiet,
         run' \in 1..MaxRuns, staging' \in [Names -> {run', None}], told' \in BOOLEAN,
         DraftsValid', ReportThere', TopIsWhole', FailureIsUndone'
  PROVE  Inv'
<1>1. phase' \in Phases /\ phase' \notin Swapping /\ phase' # "done"
  BY DEF Quiet
<1>2. run' # 0 /\ run' \in 0..MaxRuns
  BY LimitsAssumption
<1>3. Typed'
  BY <1>1, <1>2 DEF Inv, Typed, Once, swap
<1>4. FoundSoFar' /\ Exact' /\ BeganWhole'
  BY <1>1 DEF FoundSoFar, Exact, BeganWhole, Swapping
<1>5. Kept'
  <2>1. FoundIsKept
    BY Found
  <2> QED
    BY <2>1 DEF FoundIsKept, Kept
<1> QED
  BY <1>3, <1>4, <1>5 DEF Inv

\* Before the first run there is nothing to leave alone.
LEMMA RunBegun == ASSUME Inv, phase # "idle" PROVE run \in 1..MaxRuns
BY LimitsAssumption DEF Inv, Typed

LEMMA BeginInv == ASSUME Inv, Begin PROVE Inv'
<1>1. run' \in 1..MaxRuns /\ staging' \in [Names -> {run', None}] /\ staging' = Empty
  BY LimitsAssumption DEF Begin, Inv, Typed, Empty
<1>2. phase' \in Quiet /\ told' \in BOOLEAN
  BY DEF Begin, Quiet, Phases, Swapping, Inv, Typed
<1>3. draft = None
  BY DEF Begin, Inv, DraftsValid
<1>4. DraftsValid' /\ ReportThere' /\ FailureIsUndone'
  BY <1>3 DEF Begin, DraftsValid, ReportThere, FailureIsUndone
<1>5. TopIsWhole'
  BY DEF Begin, Inv, TopIsWhole, Swapping
<1> QED
  BY <1>1, <1>2, <1>4, <1>5, QuietInv DEF Begin

LEMMA WriteInv == ASSUME Inv, Write PROVE Inv'
<1>1. run' = run /\ run \in 1..MaxRuns
  BY RunBegun DEF Write
<1>2. staging' \in [Names -> {run', None}] /\ staging'["report"] = run
  BY <1>1 DEF Write, Inv, Typed, Names
<1>3. phase' \in Quiet /\ told' \in BOOLEAN
  BY DEF Write, Quiet, Phases, Swapping, Inv, Typed
<1>4. DraftsValid' /\ ReportThere' /\ FailureIsUndone'
  BY <1>1, <1>2 DEF Write, DraftsValid, ReportThere, FailureIsUndone
<1>5. TopIsWhole'
  BY DEF Write, Inv, TopIsWhole, Swapping
<1> QED
  BY <1>1, <1>2, <1>3, <1>4, <1>5, QuietInv DEF Write

LEMMA RejectInv == ASSUME Inv, Reject PROVE Inv'
<1>1. run' = run /\ run \in 1..MaxRuns
  BY RunBegun DEF Reject
<1>2. staging' \in [Names -> {run', None}]
  BY <1>1 DEF Reject, Inv, Typed, folder
<1>3. phase' \in Quiet /\ told' \in BOOLEAN
  BY DEF Reject, Quiet, Phases, Swapping, Inv, Typed
<1>4. DraftsValid' /\ ReportThere' /\ FailureIsUndone'
  BY DEF Reject, DraftsValid, ReportThere, FailureIsUndone
<1>5. TopIsWhole'
  BY DEF Reject, Inv, TopIsWhole, Swapping, folder
<1> QED
  BY <1>1, <1>2, <1>3, <1>4, <1>5, QuietInv DEF Reject, folder

LEMMA AcceptInv == ASSUME Inv, Accept PROVE Inv'
<1>1. run' = run /\ run \in 1..MaxRuns
  BY RunBegun DEF Accept
<1>2. staging' \in [Names -> {run', None}]
  BY <1>1 DEF Accept, Inv, Typed, folder
<1>3. phase' \in Quiet /\ told' \in BOOLEAN
  BY DEF Accept, Quiet, Phases, Swapping, Inv, Typed
<1>4. DraftsValid' /\ ReportThere' /\ FailureIsUndone'
  BY DEF Accept, Inv, DraftsValid, ReportThere, FailureIsUndone, folder
<1>5. TopIsWhole'
  BY DEF Accept, Inv, TopIsWhole, Swapping, folder
<1> QED
  BY <1>1, <1>2, <1>3, <1>4, <1>5, QuietInv DEF Accept, folder

LEMMA AgainInv == ASSUME Inv, Again PROVE Inv'
<1>1. run' = run /\ run \in 1..MaxRuns
  BY RunBegun DEF Again
<1>2. staging' \in [Names -> {run', None}] /\ staging'["report"] = run'
  BY <1>1 DEF Again, Inv, Typed, folder, Names
<1>3. phase' \in Quiet /\ told' \in BOOLEAN
  BY DEF Again, Quiet, Phases, Swapping, Inv, Typed
<1>4. draft = None
  BY DEF Again, Inv, DraftsValid
<1>5. DraftsValid' /\ ReportThere' /\ FailureIsUndone'
  BY <1>2, <1>4 DEF Again, DraftsValid, ReportThere, FailureIsUndone
<1>6. TopIsWhole'
  BY DEF Again, Inv, TopIsWhole, Swapping, folder
<1> QED
  BY <1>1, <1>2, <1>3, <1>5, <1>6, QuietInv DEF Again, folder

LEMMA KillInv == ASSUME Inv, Kill PROVE Inv'
<1>1. run' = run /\ run \in 1..MaxRuns
  BY RunBegun DEF Kill
<1>2. staging' \in [Names -> {run', None}]
  BY <1>1 DEF Kill, Inv, Typed, folder
<1>3. phase' \in Quiet /\ told' \in BOOLEAN
  BY DEF Kill, Quiet, Phases, Swapping, Inv, Typed
<1>4. DraftsValid' /\ ReportThere' /\ FailureIsUndone'
  BY DEF Kill, DraftsValid, ReportThere, FailureIsUndone
<1>5. TopIsWhole'
  BY DEF Kill, Inv, TopIsWhole, folder
<1> QED
  BY <1>1, <1>2, <1>3, <1>4, <1>5, QuietInv DEF Kill, folder

-----------------------------------------------------------------------------
(* A swap begins, and moves *)

LEMMA NothingListed == Once(<<>>) /\ ToSet(<<>>) = {} /\ \A S : <<>> \in Seq(S)
BY EmptySeq DEF Once, ToSet

LEMMA RenderInv == ASSUME Inv, Render PROVE Inv'
<1>1. /\ phase = "validated" /\ phase' \in {"failed", "archive"} /\ draft' = None
      /\ run' = run /\ top' = top /\ before' = top /\ history' = history /\ told' = told
      /\ made' = FALSE /\ archived' = <<>> /\ placed' = <<>> /\ undone' = {}
  BY DEF Render
<1>2. run' \in 1..MaxRuns
  BY <1>1, RunBegun
<1>3. staging' \in [Names -> {run', None}] /\ staging'["report"] = run'
  BY <1>1 DEF Render, Inv, Typed, ReportThere, Names
<1>4. phase' = "archive" => \A f \in Names : staging'[f] = run'
  BY <1>3 DEF Render, Range
<1>5. Typed'
  <2>1. run' # 0 /\ run' \in 0..MaxRuns
    BY <1>2, LimitsAssumption
  <2> QED
    BY <1>1, <1>3, <2>1, NothingListed DEF Inv, Typed, Phases, Swapping
<1>6. run' # None
  BY <1>2, LimitsAssumption
<1>7. DraftsValid' /\ ReportThere' /\ FailureIsUndone'
  BY <1>1, <1>3, <1>6 DEF DraftsValid, ReportThere, FailureIsUndone
<1>8. FoundSoFar' /\ Exact'
  BY <1>1, <1>4, NothingListed DEF FoundSoFar, Exact, Swapping
<1>9. BeganWhole' /\ TopIsWhole' /\ Kept'
  BY <1>1 DEF Inv, BeganWhole, TopIsWhole, Kept, FoundIsKept, Whole, Swapping
<1> QED
  BY <1>5, <1>7, <1>8, <1>9 DEF Inv

\* What every step of a swap leaves alone.
LEMMA SwapInv ==
  ASSUME Inv, phase \in Swapping, UNCHANGED <<run, draft, before, told>>, phase' \in Swapping,
         Typed', FoundSoFar', Exact'
  PROVE  Inv'
<1>1. BeganWhole'
  BY DEF Inv, BeganWhole, Whole
<1>2. DraftsValid' /\ ReportThere' /\ FailureIsUndone' /\ Kept' /\ TopIsWhole'
  BY DEF Inv, DraftsValid, ReportThere, FailureIsUndone, Kept, TopIsWhole, Swapping
<1> QED
  BY <1>1, <1>2 DEF Inv

LEMMA MakeArchiveInv == ASSUME Inv, MakeArchive PROVE Inv'
<1>1. /\ phase = "archive" /\ ~made /\ ~(made' /\ history' = <<>>)
      /\ run' = run /\ top' = top /\ before' = before /\ staging' = staging
      /\ archived' = archived /\ placed' = placed /\ undone' = undone
      /\ phase' \in {"archive", "unplace"}
  BY EmptySeq, AppendProperties DEF MakeArchive, Inv, Typed
<1>2. Empty \in FoldersOf
  BY DEF Empty, FoldersOf
<1>3. history' \in Seq(FoldersOf) /\ made' \in BOOLEAN
  <2>1. history \in Seq(FoldersOf)
    BY DEF Inv, Typed
  <2>2. Append(history, Empty) \in Seq(FoldersOf)
    BY <1>2, <2>1, AppendProperties
  <2> QED
    BY <2>1, <2>2 DEF MakeArchive, Inv, Typed
<1>4. Typed'
  BY <1>1, <1>3 DEF MakeArchive, Inv, Typed, Once, Phases, Swapping
<1>5. ToSet(archived) = {}
  BY <1>1 DEF Inv, FoundSoFar, InArchive, Swapping
<1>6. placed = <<>> /\ undone = {} /\ ToSet(placed) = {}
  BY <1>1, NothingListed DEF Inv, Exact
<1>7. \A f \in Names : top[f] = before[f] /\ staging[f] = run
  BY <1>1, <1>5, <1>6 DEF Inv, Exact, Swapping
<1>8. FoundSoFar'
  BY <1>1, <1>5, <1>6, <1>7 DEF FoundSoFar, Swapping
<1>9. Exact'
  BY <1>1, <1>5, <1>6, <1>7 DEF Exact, Swapping
<1> QED
  BY <1>1, <1>4, <1>8, <1>9, SwapInv DEF MakeArchive, Swapping

\* A move of a file to or from the newest folder of history changes nothing else in it.
LEMMA Replaced ==
  ASSUME NEW s \in Seq(FoldersOf), s # <<>>, NEW f \in Names, NEW r \in Nat \cup {None}
  PROVE  LET t == [s EXCEPT ![Len(s)][f] = r]
         IN  /\ t \in Seq(FoldersOf) /\ t # <<>> /\ Len(t) = Len(s)
             /\ \A g \in Names : t[Len(t)][g] = IF g = f THEN r ELSE s[Len(s)][g]
<1> DEFINE n == Len(s)
           e == [s[n] EXCEPT ![f] = r]
           t == [s EXCEPT ![n] = e]
<1>1. n \in 1..n /\ s[n] \in FoldersOf
  BY EmptySeq, LenProperties, ElementOfSeq
<1>2. e \in FoldersOf /\ \A g \in Names : e[g] = IF g = f THEN r ELSE s[n][g]
  BY <1>1 DEF FoldersOf
<1> HIDE DEF e
<1>3. t \in Seq(FoldersOf) /\ Len(t) = n /\ t[n] = e
  BY <1>1, <1>2, ExceptSeq
<1>4. t # <<>>
  BY <1>1, <1>3, EmptySeq
<1>5. [s EXCEPT ![Len(s)][f] = r] = t
  BY DEF e
<1> HIDE DEF t
<1> QED
  BY <1>2, <1>3, <1>4, <1>5

LEMMA ArchiveInv == ASSUME Inv, Archive PROVE Inv'
<1>1. /\ phase = "archive" /\ made /\ phase' \in {"archive", "unplace"}
      /\ run' = run /\ before' = before /\ staging' = staging /\ made' = made
      /\ placed' = placed /\ undone' = undone /\ told' = told
  BY DEF Archive
<1>2. /\ history # <<>> /\ history \in Seq(FoldersOf) /\ top \in FoldersOf
      /\ archived \in Seq(Names) /\ Once(archived)
  BY <1>1 DEF Inv, Typed, FoundSoFar, Swapping
<1>3. placed = <<>> /\ undone = {} /\ ToSet(placed) = {}
  BY <1>1, NothingListed DEF Inv, Exact
<1>4. \A f \in Names : staging[f] = run /\ top[f] = IF f \in ToSet(archived) THEN None ELSE before[f]
  BY <1>1, <1>3 DEF Inv, Exact, Swapping
<1>5. \A f \in ToSet(archived) : f \in Names /\ before[f] # None /\ history[Len(history)][f] = before[f]
  BY <1>1, <1>2, Listed DEF Inv, FoundSoFar, InArchive, Swapping
<1>6. PICK f \in First(ToArchive) :
        \/ /\ history' = [history EXCEPT ![Len(history)][f] = top[f]]
           /\ top' = [top EXCEPT ![f] = None]
           /\ archived' = Append(archived, f) /\ UNCHANGED <<phase, faults>>
        \/ Fault /\ phase' = "unplace" /\ UNCHANGED <<top, history, archived>>
  BY DEF Archive
<1>7. f \in Names /\ f \notin ToSet(archived) /\ before[f] # None /\ top[f] = before[f]
  BY <1>4, <1>6, FirstOf DEF ToArchive
<1>8. CASE /\ history' = [history EXCEPT ![Len(history)][f] = top[f]]
           /\ top' = [top EXCEPT ![f] = None]
           /\ archived' = Append(archived, f) /\ UNCHANGED <<phase, faults>>
  <2>1. top[f] \in Nat \cup {None}
    BY <1>2, <1>7 DEF FoldersOf
  <2>2. /\ history' \in Seq(FoldersOf) /\ history' # <<>>
        /\ \A g \in Names : history'[Len(history')][g] = IF g = f THEN before[f] ELSE history[Len(history)][g]
    BY <1>2, <1>7, <1>8, <2>1, Replaced
  <2>3. archived' \in Seq(Names) /\ Once(archived') /\ ToSet(archived') = ToSet(archived) \cup {f}
    BY <1>2, <1>7, <1>8, Appended
  <2>4. top' \in FoldersOf /\ \A g \in Names : top'[g] = IF g = f THEN None ELSE top[g]
    BY <1>2, <1>7, <1>8 DEF FoldersOf
  <2>5. Typed'
    BY <1>1, <2>2, <2>3, <2>4 DEF Archive, Inv, Typed, Once, Phases, Swapping
  <2>6. \A g \in ToSet(archived') : g \in Names /\ before[g] # None /\ history'[Len(history')][g] = before[g]
    BY <1>5, <1>7, <2>2, <2>3
  <2>7. \A g \in Names : staging'[g] = run /\ top'[g] = IF g \in ToSet(archived') THEN None ELSE before[g]
    BY <1>1, <1>4, <2>3, <2>4
  <2>8. FoundSoFar'
    BY <1>1, <1>3, <1>8, <2>2, <2>6, <2>7 DEF FoundSoFar, InArchive, Swapping
  <2>9. Exact'
    BY <1>1, <1>3, <1>8, <2>7 DEF Exact, Swapping
  <2> QED
    BY <1>1, <1>8, <2>5, <2>8, <2>9, SwapInv DEF Archive, Swapping
<1>9. CASE Fault /\ phase' = "unplace" /\ UNCHANGED <<top, history, archived>>
  <2>1. Typed'
    BY <1>1, <1>9 DEF Archive, Inv, Typed, Once, Phases, Swapping
  <2>2. FoundSoFar'
    BY <1>1, <1>2, <1>3, <1>4, <1>5, <1>9 DEF FoundSoFar, InArchive, Swapping
  <2>3. Exact'
    BY <1>1, <1>3, <1>4, <1>9 DEF Exact, Swapping
  <2> QED
    BY <1>1, <1>9, <2>1, <2>2, <2>3, SwapInv DEF Archive, Swapping
<1> QED
  BY <1>6, <1>8, <1>9

LEMMA ArchivedInv == ASSUME Inv, Archived PROVE Inv'
<1>1. /\ phase = "archive" /\ phase' = "place" /\ ToArchive = {}
      /\ UNCHANGED <<top, staging, history, run, draft, made, archived, placed, undone, before, told>>
  BY DEF Archived, folder, swap
<1>2. Typed'
  BY <1>1 DEF Inv, Typed, Once, Phases, Swapping
<1>3. placed = <<>> /\ undone = {} /\ ToSet(placed) = {}
  BY <1>1, NothingListed DEF Inv, Exact
<1>4. \A f \in Names : staging[f] = run /\ top[f] = IF f \in ToSet(archived) THEN None ELSE before[f]
  BY <1>1, <1>3 DEF Inv, Exact, Swapping
<1>5. AllArchived
  BY <1>1, <1>4 DEF ToArchive, AllArchived
<1>6. FoundSoFar'
  BY <1>1, <1>3, <1>4, <1>5 DEF Inv, FoundSoFar, AllArchived, InArchive, Swapping
<1>7. Exact'
  BY <1>1, <1>3, <1>4 DEF Exact, Swapping
<1> QED
  BY <1>1, <1>2, <1>6, <1>7, SwapInv DEF Swapping

LEMMA PlaceInv == ASSUME Inv, Place PROVE Inv'
<1>1. /\ phase = "place" /\ phase' \in {"place", "unplace"}
      /\ run' = run /\ before' = before /\ history' = history /\ made' = made
      /\ archived' = archived /\ undone' = undone /\ told' = told
  BY DEF Place
<1>2. run \in 1..MaxRuns
  BY <1>1, RunBegun
<1>3. /\ top \in FoldersOf /\ staging \in [Names -> {run, None}]
      /\ placed \in Seq(Names) /\ Once(placed) /\ run \in Nat
  BY <1>2 DEF Inv, Typed
<1>4. undone = {} /\ \A f \in ToSet(placed) : top[f] = run
  BY <1>1 DEF Inv, Exact, Swapping
<1>5. \A f \in Names \ ToSet(placed) :
        staging[f] = run /\ top[f] = IF f \in ToSet(archived) THEN None ELSE before[f]
  BY <1>1, <1>4 DEF Inv, Exact, Swapping
<1>6. /\ AllArchived /\ (made => history # <<>>)
      /\ \A f \in ToSet(archived) : before[f] # None /\ InArchive(f)
  BY <1>1 DEF Inv, FoundSoFar, Swapping
<1>7. /\ AllArchived' /\ (made' => history' # <<>>)
      /\ \A f \in ToSet(archived') : before'[f] # None /\ InArchive(f)'
  BY <1>1, <1>6 DEF AllArchived, InArchive
<1>8. \A f \in Names : before'[f] = None \/ f \in ToSet(archived')
  BY <1>7 DEF AllArchived
<1>9. FoundSoFar'
  BY <1>7, <1>8 DEF FoundSoFar
<1>10. PICK f \in First(ToPlace) :
        \/ /\ top' = [top EXCEPT ![f] = staging[f]]
           /\ staging' = [staging EXCEPT ![f] = None]
           /\ placed' = Append(placed, f) /\ UNCHANGED <<phase, faults>>
        \/ Fault /\ phase' = "unplace" /\ UNCHANGED <<top, staging, placed>>
  BY DEF Place
<1>11. f \in Names \ ToSet(placed)
  BY <1>10, FirstOf DEF ToPlace
<1>12. CASE /\ top' = [top EXCEPT ![f] = staging[f]]
            /\ staging' = [staging EXCEPT ![f] = None]
            /\ placed' = Append(placed, f) /\ UNCHANGED <<phase, faults>>
  <2>1. placed' \in Seq(Names) /\ Once(placed') /\ ToSet(placed') = ToSet(placed) \cup {f}
    BY <1>3, <1>11, <1>12, Appended
  <2>2. \A g \in Names : top'[g] = (IF g = f THEN run ELSE top[g]) /\ (g # f => staging'[g] = staging[g])
    BY <1>3, <1>5, <1>11, <1>12 DEF FoldersOf
  <2>3. top' \in FoldersOf /\ staging' \in [Names -> {run', None}]
    BY <1>1, <1>3, <1>5, <1>11, <1>12 DEF FoldersOf
  <2>4. Typed'
    BY <1>1, <2>1, <2>3 DEF Inv, Typed, Once, Phases, Swapping
  <2>5. ToSet(placed) \subseteq Names
    BY <1>3, Listed
  <2>6. \A g \in ToSet(placed') : top'[g] = run'
    BY <1>1, <1>4, <1>11, <2>1, <2>2, <2>5
  <2>7. \A g \in Names \ ToSet(placed') :
          staging'[g] = run' /\ top'[g] = IF g \in ToSet(archived') THEN None ELSE before'[g]
    BY <1>1, <1>5, <2>1, <2>2
  <2>8. Exact'
    BY <1>1, <1>4, <1>12, <2>6, <2>7 DEF Exact, Swapping
  <2> QED
    BY <1>1, <1>9, <1>12, <2>4, <2>8, SwapInv DEF Place, Swapping
<1>13. CASE Fault /\ phase' = "unplace" /\ UNCHANGED <<top, staging, placed>>
  <2>1. Typed'
    BY <1>1, <1>13 DEF Inv, Typed, Once, Phases, Swapping
  <2>2. Exact'
    BY <1>1, <1>4, <1>5, <1>13 DEF Exact, Swapping
  <2> QED
    BY <1>1, <1>9, <1>13, <2>1, <2>2, SwapInv DEF Place, Swapping
<1> QED
  BY <1>10, <1>12, <1>13

LEMMA UnplaceInv == ASSUME Inv, Unplace PROVE Inv'
<1>1. /\ phase = "unplace" /\ phase' \in {"unplace", "unarchive"}
      /\ run' = run /\ before' = before /\ history' = history /\ made' = made
      /\ archived' = archived /\ told' = told
  BY DEF Unplace
<1>2. run \in 1..MaxRuns
  BY <1>1, RunBegun
<1>3. /\ top \in FoldersOf /\ staging \in [Names -> {run, None}] /\ undone \subseteq Names
      /\ placed \in Seq(Names) /\ Once(placed) /\ run \in Nat
  BY <1>2 DEF Inv, Typed
<1>4. \A f \in ToSet(placed) : top[f] = run
  BY <1>1 DEF Inv, Exact, Swapping
<1>5. undone = {} =>
        \A f \in Names \ ToSet(placed) :
          staging[f] = run /\ top[f] = IF f \in ToSet(archived) THEN None ELSE before[f]
  BY <1>1 DEF Inv, Exact, Swapping
<1>6. /\ placed # <<>> => AllArchived
      /\ made => history # <<>>
      /\ \A f \in ToSet(archived) : before[f] # None /\ InArchive(f)
      /\ \A f \in Names : before[f] # None /\ f \notin ToSet(archived) => top[f] = before[f]
  BY <1>1 DEF Inv, FoundSoFar, Swapping
<1>7. CASE placed = <<>>
  <2>1. phase' = "unarchive" /\ UNCHANGED <<top, staging, placed, undone>>
    BY <1>7 DEF Unplace
  <2>2. Typed'
    BY <1>1, <2>1 DEF Inv, Typed, Once, Phases, Swapping
  <2>3. FoundSoFar'
    BY <1>1, <1>6, <1>7, <2>1 DEF FoundSoFar, InArchive, Swapping
  <2>4. Exact'
    BY <1>1, <1>4, <1>5, <1>7, <2>1 DEF Exact, Swapping
  <2> QED
    BY <1>1, <2>1, <2>2, <2>3, <2>4, SwapInv DEF Unplace, Swapping
<1>8. CASE placed # <<>>
  <2> DEFINE f == Last(placed)
  <2>1. /\ f \in ToSet(placed) /\ f \in Names /\ placed' \in Seq(Names) /\ Once(placed')
        /\ ToSet(placed') = ToSet(placed) \ {f}
    BY <1>3, <1>8, Shortened DEF Unplace
  <2>2. /\ phase' = "unplace"
        /\ \/ /\ staging' = [staging EXCEPT ![f] = top[f]]
              /\ top' = [top EXCEPT ![f] = None] /\ UNCHANGED <<undone, faults>>
           \/ Fault /\ undone' = undone \cup {f} /\ UNCHANGED <<top, staging>>
    BY <1>1, <1>8 DEF Unplace
  <2> HIDE DEF f
  <2>3. \A g \in Names : before[g] # None => g \in ToSet(archived)
    BY <1>6, <1>8 DEF AllArchived
  <2>4. FoundSoFar'
    BY <1>1, <1>6, <2>2, <2>3 DEF FoundSoFar, AllArchived, InArchive, Swapping
  <2>5. ToSet(placed) \subseteq Names
    BY <1>3, Listed
  <2>6. CASE /\ staging' = [staging EXCEPT ![f] = top[f]]
             /\ top' = [top EXCEPT ![f] = None] /\ UNCHANGED <<undone, faults>>
    <3>1. top[f] = run
      BY <1>4, <2>1
    <3>2. top' \in FoldersOf /\ staging' \in [Names -> {run', None}]
      BY <1>1, <1>3, <2>1, <2>6, <3>1 DEF FoldersOf
    <3>3. \A g \in Names : /\ top'[g] = (IF g = f THEN None ELSE top[g])
                           /\ staging'[g] = (IF g = f THEN run ELSE staging[g])
      BY <1>3, <2>1, <2>6, <3>1 DEF FoldersOf
    <3>4. Typed'
      BY <1>1, <2>1, <2>2, <2>6, <3>2 DEF Inv, Typed, Once, Phases, Swapping
    <3>5. \A g \in ToSet(placed') : top'[g] = run'
      BY <1>1, <1>4, <2>1, <2>5, <3>3
    <3>6. undone' = {} =>
            \A g \in Names \ ToSet(placed') :
              staging'[g] = run' /\ top'[g] = IF g \in ToSet(archived') THEN None ELSE before'[g]
      BY <1>1, <1>5, <2>1, <2>3, <2>6, <3>3
    <3>7. Exact'
      BY <2>2, <3>5, <3>6 DEF Exact
    <3> QED
      BY <1>1, <2>2, <2>4, <3>4, <3>7, SwapInv DEF Unplace, Swapping
  <2>7. CASE Fault /\ undone' = undone \cup {f} /\ UNCHANGED <<top, staging>>
    <3>1. undone' # {} /\ undone' \subseteq Names
      BY <1>3, <2>1, <2>7
    <3>2. Typed'
      BY <1>1, <2>1, <2>2, <2>7, <3>1 DEF Inv, Typed, Once, Phases, Swapping
    <3>3. \A g \in ToSet(placed') : top'[g] = run'
      BY <1>1, <1>4, <2>1, <2>7
    <3>4. Exact'
      BY <2>2, <3>1, <3>3 DEF Exact
    <3> QED
      BY <1>1, <2>2, <2>4, <3>2, <3>4, SwapInv DEF Unplace, Swapping
  <2> QED
    BY <2>2, <2>6, <2>7
<1> QED
  BY <1>7, <1>8

LEMMA UnarchiveInv == ASSUME Inv, Unarchive PROVE Inv'
<1>1. /\ phase = "unarchive" /\ phase' = "unarchive" /\ archived # <<>>
      /\ run' = run /\ before' = before /\ staging' = staging /\ made' = made
      /\ placed' = placed /\ told' = told /\ archived' = Front(archived)
  BY DEF Unarchive
<1>2. /\ top \in FoldersOf /\ before \in FoldersOf /\ undone \subseteq Names
      /\ archived \in Seq(Names) /\ Once(archived) /\ history \in Seq(FoldersOf)
  BY DEF Inv, Typed
<1>3. placed = <<>> /\ ToSet(placed) = {}
  BY <1>1, NothingListed DEF Inv, Exact
<1>4. undone = {} =>
        \A f \in Names : staging[f] = run /\ top[f] = IF f \in ToSet(archived) THEN None ELSE before[f]
  BY <1>1, <1>3 DEF Inv, Exact, Swapping
<1>5. /\ \A f \in ToSet(archived) : before[f] # None /\ InArchive(f)
      /\ \A f \in Names : before[f] # None /\ f \notin ToSet(archived) => top[f] = before[f] \/ InArchive(f)
      /\ made => history # <<>>
  BY <1>1 DEF Inv, FoundSoFar, Swapping
<1> DEFINE f == Last(archived)
<1>6. /\ f \in ToSet(archived) /\ f \in Names /\ archived' \in Seq(Names) /\ Once(archived')
      /\ ToSet(archived') = ToSet(archived) \ {f}
  BY <1>1, <1>2, Shortened
<1>7. \/ /\ top' = [top EXCEPT ![f] = history[Len(history)][f]]
         /\ history' = [history EXCEPT ![Len(history)][f] = None]
         /\ UNCHANGED <<undone, faults>>
      \/ Fault /\ undone' = undone \cup {f} /\ UNCHANGED <<top, history>>
  BY DEF Unarchive
<1> HIDE DEF f
<1>8. made /\ history # <<>> /\ before[f] # None /\ history[Len(history)][f] = before[f]
  BY <1>5, <1>6 DEF InArchive
<1>9. ToSet(archived) \subseteq Names
  BY <1>2, Listed
<1>10. CASE /\ top' = [top EXCEPT ![f] = history[Len(history)][f]]
            /\ history' = [history EXCEPT ![Len(history)][f] = None]
            /\ UNCHANGED <<undone, faults>>
  <2>1. before[f] \in Nat \cup {None}
    BY <1>2, <1>6 DEF FoldersOf
  <2>2. top' \in FoldersOf /\ \A g \in Names : top'[g] = IF g = f THEN before[f] ELSE top[g]
    BY <1>2, <1>6, <1>8, <1>10, <2>1 DEF FoldersOf
  <2>3. /\ history' \in Seq(FoldersOf) /\ history' # <<>>
        /\ \A g \in Names : g # f => history'[Len(history')][g] = history[Len(history)][g]
    <3>1. ASSUME NEW r \in Nat \cup {None}
          PROVE  LET t == [history EXCEPT ![Len(history)][f] = r]
                 IN  /\ t \in Seq(FoldersOf) /\ t # <<>>
                     /\ \A g \in Names : g # f => t[Len(t)][g] = history[Len(history)][g]
      <4>1. f \in Names /\ history \in Seq(FoldersOf) /\ history # <<>>
        BY <1>2, <1>6, <1>8
      <4> QED
        BY <4>1, Replaced
    <3>2. None \in Nat \cup {None}
      OBVIOUS
    <3> QED
      BY <1>10, <3>1, <3>2
  <2>4. Typed'
    BY <1>1, <1>6, <1>10, <2>2, <2>3 DEF Inv, Typed, Once, Phases, Swapping
  <2>5. \A g \in Names : g # f /\ InArchive(g) => InArchive(g)'
    BY <1>1, <2>3 DEF InArchive
  <2>6. \A g \in ToSet(archived') : before'[g] # None /\ InArchive(g)'
    BY <1>1, <1>5, <1>6, <1>9, <2>5
  <2>7. \A g \in Names : before'[g] # None /\ g \notin ToSet(archived') => top'[g] = before'[g] \/ InArchive(g)'
    BY <1>1, <1>5, <1>6, <2>2, <2>5
  <2>8. FoundSoFar'
    BY <1>1, <1>3, <2>3, <2>6, <2>7 DEF FoundSoFar
  <2>9. undone' = {} =>
          \A g \in Names : staging'[g] = run' /\ top'[g] = IF g \in ToSet(archived') THEN None ELSE before'[g]
    BY <1>1, <1>4, <1>6, <1>10, <2>2
  <2>10. Exact'
    BY <1>1, <1>3, <2>9 DEF Exact
  <2> QED
    BY <1>1, <2>4, <2>8, <2>10, SwapInv DEF Unarchive, Swapping
<1>11. CASE Fault /\ undone' = undone \cup {f} /\ UNCHANGED <<top, history>>
  <2>1. undone' # {} /\ undone' \subseteq Names
    BY <1>2, <1>6, <1>11
  <2>2. Typed'
    BY <1>1, <1>6, <1>11, <2>1 DEF Inv, Typed, Once, Phases, Swapping
  <2>3. \A g : InArchive(g) => InArchive(g)'
    BY <1>1, <1>11 DEF InArchive
  <2>4. \A g \in ToSet(archived') : before'[g] # None /\ InArchive(g)'
    BY <1>1, <1>5, <1>6, <2>3
  <2>5. \A g \in Names : before'[g] # None /\ g \notin ToSet(archived') => top'[g] = before'[g] \/ InArchive(g)'
    BY <1>1, <1>5, <1>6, <1>11, <2>3
  <2>6. FoundSoFar'
    BY <1>1, <1>3, <1>8, <1>11, <2>4, <2>5 DEF FoundSoFar
  <2>7. Exact'
    BY <1>1, <1>3, <2>1 DEF Exact
  <2> QED
    BY <1>1, <2>2, <2>6, <2>7, SwapInv DEF Unarchive, Swapping
<1> QED
  BY <1>7, <1>10, <1>11

-----------------------------------------------------------------------------
(* A swap ends *)

LEMMA PlacedInv == ASSUME Inv, Placed PROVE Inv'
<1>1. /\ phase = "place" /\ phase' = "done" /\ told' = FALSE /\ ToPlace = {}
      /\ UNCHANGED <<top, staging, history, run, draft, made, archived, placed, undone, before>>
  BY DEF Placed, folder, swap
<1>2. Typed'
  BY <1>1 DEF Inv, Typed, Once, Phases
<1>3. \A f \in Names : top[f] = run
  BY <1>1 DEF Inv, Exact, ToPlace, Swapping
<1>4. top' = [f \in Names |-> run'] /\ run' \in 1..MaxRuns
  BY <1>1, <1>3, RunBegun DEF Inv, Typed, FoldersOf
<1>5. TopIsWhole'
  BY <1>4 DEF TopIsWhole
<1>6. FoundSoFar'
  BY <1>1 DEF Inv, FoundSoFar, AllArchived, InArchive, Swapping
<1>7. Exact'
  BY <1>1, <1>4 DEF Exact, Swapping
<1>8. DraftsValid' /\ ReportThere' /\ BeganWhole' /\ FailureIsUndone' /\ Kept'
  BY <1>1 DEF Inv, DraftsValid, ReportThere, BeganWhole, FailureIsUndone, Kept, Swapping
<1> QED
  BY <1>2, <1>5, <1>6, <1>7, <1>8 DEF Inv

LEMMA ThrowInv == ASSUME Inv, Throw PROVE Inv'
<1>1. /\ phase = "unarchive" /\ phase' = "failed" /\ archived = <<>> /\ history' = TidiedArchive
      /\ told' = (told \/ undone # {})
      /\ UNCHANGED <<top, staging, run, draft, made, archived, placed, undone, before>>
  BY DEF Throw, swap
<1>2. run \in 1..MaxRuns
  BY <1>1, RunBegun
<1>3. /\ history \in Seq(FoldersOf) /\ staging \in [Names -> {run, None}] /\ top \in FoldersOf
      /\ before \in FoldersOf /\ told \in BOOLEAN
  BY DEF Inv, Typed
<1>4. placed = <<>> /\ ToSet(placed) = {} /\ ToSet(archived) = {}
  BY <1>1, NothingListed DEF Inv, Exact
<1>5. made => history # <<>>
  BY <1>1 DEF Inv, FoundSoFar, Swapping
<1>6. history' \in Seq(FoldersOf)
  <2>1. CASE made /\ Last(history) = Empty
    <3>1. Len(history) \in Nat \ {0} /\ \A i \in 1..Len(history) : history[i] \in FoldersOf
      BY <1>3, <1>5, <2>1, EmptySeq, ElementOfSeq
    <3>2. 1 \in Int /\ Len(history) - 1 \in Int /\ \A i \in 1..(Len(history) - 1) : history[i] \in FoldersOf
      BY <3>1
    <3>3. SubSeq(history, 1, Len(history) - 1) \in Seq(FoldersOf)
      BY <3>2, SubSeqProperties
    <3> QED
      BY <1>1, <2>1, <3>3 DEF TidiedArchive, Front
  <2>2. CASE ~(made /\ Last(history) = Empty)
    BY <1>1, <1>3, <2>2 DEF TidiedArchive
  <2> QED
    BY <2>1, <2>2
<1>7. Typed'
  BY <1>1, <1>3, <1>6 DEF Inv, Typed, Once, Phases
<1>8. undone = {} => top = before /\ staging["report"] = run
  <2>1. ASSUME undone = {} PROVE \A f \in Names : top[f] = before[f] /\ staging[f] = run
    BY <1>1, <1>4, <2>1 DEF Inv, Exact, Swapping
  <2> QED
    BY <1>3, <2>1 DEF FoldersOf, Names
<1>9. run # None
  BY <1>2, LimitsAssumption
<1>10. FailureIsUndone'
  BY <1>1, <1>8, <1>9 DEF FailureIsUndone
<1>11. TopIsWhole'
  BY <1>1, <1>8 DEF Inv, BeganWhole, Whole, TopIsWhole, Swapping
<1>12. \A f \in Names : before[f] # None => top[f] = before[f] \/ InArchive(f)
  BY <1>1, <1>4 DEF Inv, FoundSoFar, Swapping
<1>13. FoundIsKept'
  <2>1. CASE made /\ Last(history) = Empty
    <3>1. \A f \in Names : before[f] # None => ~InArchive(f)
      BY <2>1 DEF InArchive, Last, Empty
    <3> QED
      BY <1>1, <1>12, <3>1 DEF FoundIsKept
  <2>2. CASE ~(made /\ Last(history) = Empty)
    <3>1. history' = history
      BY <1>1, <2>2 DEF TidiedArchive
    <3>2. history # <<>> => Len(history) \in DOMAIN history
      BY <1>3, EmptySeq, LenProperties
    <3> QED
      BY <1>1, <1>12, <3>1, <3>2 DEF FoundIsKept, InArchive
  <2> QED
    BY <2>1, <2>2
<1>14. DraftsValid' /\ ReportThere' /\ FoundSoFar' /\ Exact' /\ BeganWhole' /\ Kept'
  BY <1>1, <1>13 DEF Inv, DraftsValid, ReportThere, FoundSoFar, Exact, BeganWhole, Kept, Swapping
<1> QED
  BY <1>7, <1>10, <1>11, <1>14 DEF Inv

LEMMA CleanInv == ASSUME Inv, Clean PROVE Inv'
<1>1. /\ phase = "done" /\ phase' = "idle" /\ staging' = Empty
      /\ UNCHANGED <<top, run, draft, made, archived, placed, undone, before, told>>
  BY DEF Clean, swap
<1> DEFINE n == Len(history)
           trimmed == SubSeq(history, n - HistoryLimit + 1, n)
<1>2. history \in Seq(FoldersOf) /\ n \in Nat /\ HistoryLimit \in Nat \ {0}
  BY LenProperties, LimitsAssumption DEF Inv, Typed
<1>3. history' = history \/ (n > HistoryLimit /\ history' = trimmed)
  BY <1>2 DEF Clean
<1>4. ASSUME n > HistoryLimit
      PROVE  trimmed \in Seq(FoldersOf) /\ HistoryLimit \in DOMAIN trimmed /\ trimmed[HistoryLimit] = history[n]
  <2> DEFINE m == n - HistoryLimit + 1
  <2>1. m \in Int /\ n \in Int /\ m <= n /\ (\A i \in m..n : i \in 1..n) /\ n - m + 1 = HistoryLimit
    BY <1>2, <1>4
  <2>2. \A i \in m..n : history[i] \in FoldersOf
    BY <1>2, <2>1, ElementOfSeq
  <2> HIDE DEF m
  <2>3. /\ SubSeq(history, m, n) \in Seq(FoldersOf)
        /\ Len(SubSeq(history, m, n)) = IF m <= n THEN n - m + 1 ELSE 0
        /\ \A i \in 1..(n - m + 1) : SubSeq(history, m, n)[i] = history[m + i - 1]
    BY <2>1, <2>2, SubSeqProperties
  <2>4. trimmed = SubSeq(history, m, n)
    BY DEF m
  <2>5. m + HistoryLimit - 1 = n
    BY <1>2 DEF m
  <2>6. HistoryLimit \in 1..(n - m + 1) /\ Len(SubSeq(history, m, n)) = HistoryLimit
    BY <1>2, <2>1, <2>3
  <2>7. SubSeq(history, m, n)[HistoryLimit] = history[n]
    BY <2>3, <2>5, <2>6
  <2>8. DOMAIN SubSeq(history, m, n) = 1..HistoryLimit
    BY <2>3, <2>6, LenProperties
  <2> HIDE DEF trimmed
  <2> QED
    BY <1>2, <2>3, <2>4, <2>7, <2>8
<1>5. history' \in Seq(FoldersOf)
  BY <1>2, <1>3, <1>4
<1>6. Typed'
  <2>1. staging' \in [Names -> {run', None}]
    BY <1>1 DEF Empty
  <2>2. phase' \in Phases
    BY <1>1 DEF Phases
  <2> QED
    BY <1>1, <1>5, <2>1, <2>2 DEF Inv, Typed, Once
<1>7. \A f \in Names : before[f] # None => InArchive(f)
  BY <1>1 DEF Inv, FoundSoFar, AllArchived
<1>8. FoundIsKept'
  <2> SUFFICES ASSUME NEW f \in Names, before[f] # None
               PROVE  \E k \in DOMAIN history' : history'[k][f] = before[f]
    BY <1>1 DEF FoundIsKept
  <2>1. history # <<>> /\ history[n][f] = before[f]
    BY <1>7 DEF InArchive
  <2>2. n \in DOMAIN history
    BY <1>2, <2>1, EmptySeq, LenProperties
  <2> HIDE DEF n, trimmed
  <2> QED
    BY <1>3, <1>4, <2>1, <2>2
<1>9. TopIsWhole'
  BY <1>1 DEF Inv, TopIsWhole, Swapping
<1>10. /\ DraftsValid' /\ ReportThere' /\ FoundSoFar' /\ Exact' /\ BeganWhole' /\ Kept'
       /\ FailureIsUndone'
  BY <1>1, <1>8 DEF Inv, DraftsValid, ReportThere, FoundSoFar, Exact, BeganWhole, Kept, FailureIsUndone, Swapping
<1> QED
  BY <1>6, <1>9, <1>10 DEF Inv

-----------------------------------------------------------------------------

LEMMA NextInv == ASSUME Inv, [Next]_vars PROVE Inv'
<1>1. CASE Next
  BY <1>1, BeginInv, WriteInv, RejectInv, AcceptInv, AgainInv, RenderInv, MakeArchiveInv, ArchiveInv,
     ArchivedInv, PlaceInv, PlacedInv, UnplaceInv, UnarchiveInv, ThrowInv, CleanInv, KillInv DEF Next
<1>2. CASE UNCHANGED vars
  <2>1. UNCHANGED <<top, staging, history, run, phase, draft, made, archived, placed, undone, before, told>>
    BY <1>2 DEF vars, folder, swap
  <2>2. Typed' /\ DraftsValid' /\ ReportThere'
    BY <2>1 DEF Inv, Typed, Once, DraftsValid, ReportThere
  <2>3. FoundSoFar' /\ Exact' /\ BeganWhole'
    BY <2>1 DEF Inv, FoundSoFar, AllArchived, InArchive, Exact, BeganWhole, Whole
  <2>4. TopIsWhole' /\ FailureIsUndone' /\ Kept'
    BY <2>1 DEF Inv, TopIsWhole, FailureIsUndone, Kept, FoundIsKept
  <2> QED
    BY <2>2, <2>3, <2>4 DEF Inv
<1> QED
  BY <1>1, <1>2

\* The inductive invariant of the folder edusafe-report/.
THEOREM Invariance == Spec => []Inv
BY InitInv, NextInv, PTL DEF Spec

\* main renders no report that hides a failed sub-check: its item has failed, is
\* counted once at the head of the report, and leaves no criterion it belongs to met.
THEOREM RenderedHonest == Spec => []RenderedIsHonest
<1>1. ASSUME Inv PROVE RenderedIsHonest
  <2>1. phase = "validated" /\ draft # None => Valid(draft)
    BY <1>1 DEF Inv, DraftsValid
  <2> QED
    BY <2>1, ValidIsHonest DEF RenderedIsHonest
<1> QED
  BY <1>1, Invariance, PTL

\* Between runs, and after an error of swapStaging that does not speak of files left
\* behind, the top of the folder holds the files of one run, or none.
THEOREM TopOfOneRun == Spec => []TopIsWhole
<1>1. Inv => TopIsWhole
  BY DEF Inv
<1> QED
  BY <1>1, Invariance, PTL

\* An error of swapStaging that does not speak of files left behind leaves the top as
\* the swap found it, and the staging folder ready to be rendered again.
THEOREM FailuresUndone == Spec => []FailureIsUndone
<1>1. Inv => FailureIsUndone
  BY DEF Inv
<1> QED
  BY <1>1, Invariance, PTL

\* Whatever fails, and wherever the process is killed, every file that swapStaging and
\* the trimming of history found at the top is still there or in history.
THEOREM NothingLost == Spec => []FoundIsKept
<1>1. Inv => FoundIsKept
  BY Found
<1> QED
  BY <1>1, Invariance, PTL

===============================================================================
