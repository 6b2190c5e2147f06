---------------------------- MODULE ReportContract ----------------------------
(***************************************************************************)
(* The contract a report of the skill must keep to be rendered             *)
(* (validateReport of skill/edusafe/scripts/render.mjs): what its verdicts *)
(* have to do with each other and with the sums at its head.               *)
(*                                                                         *)
(* Abstractions.  The rules that look at one field at a time (keys, types, *)
(* allowed values, lengths, levels, texts of the rubric and of the         *)
(* session, versions) are one flag of the report, tidy, but for the        *)
(* allowed severities.  Items are a set: that an item is listed twice is   *)
(* one of the untidy cases.  Of evidence and of reasons only whether there *)
(* is any is kept, and of the sum of what is left to a human its total.    *)
(***************************************************************************)
EXTENDS Naturals, FiniteSets

CONSTANTS
  Items,      \* items.json
  Subs,       \* Subs[i]: the sub-checks of i
  Criteria,   \* criteria of the ministry's checklist
  Mapped,     \* Mapped[c]: the items c is judged by
  None        \* null

Verdicts == {"fail", "needs_human", "pass", "na"}
Severities == {"high", "medium", "low"}

ASSUME RubricAssumption ==
  /\ None \notin Verdicts
  /\ IsFiniteSet(Items) /\ \A i \in Items : Subs[i] # {}
  /\ Mapped \in [Criteria -> SUBSET Items \ {{}}]

-----------------------------------------------------------------------------

\* Mutant: sub-checks that do not apply count as well.
RollupWithNa(verdicts) ==
  IF verdicts = {} THEN None
  ELSE CHOOSE v \in verdicts : v = "na" \/ "na" \notin verdicts

\* The worst verdict among sub-checks that apply.
RollupVerdict(verdicts) ==
  IF verdicts = {} THEN None
  ELSE IF "fail" \in verdicts THEN "fail"
  ELSE IF "needs_human" \in verdicts THEN "needs_human"
  ELSE IF "pass" \in verdicts THEN "pass" ELSE "na"

\* The status of a criterion, by the verdicts of its items that are listed.
MoeStatusFor(verdicts) ==
  IF verdicts = {} THEN "open"
  ELSE IF "fail" \in verdicts THEN "unmet"
  ELSE IF "needs_human" \in verdicts THEN "open"
  ELSE IF verdicts = {"na"} THEN "n/a" ELSE "met"

\* What the listed items add up to: failed ones by effective severity, and those
\* left to a human.
RecomputeSummary(verdict, severity) ==
  LET Failed(s) == Cardinality({i \in DOMAIN verdict : verdict[i] = "fail" /\ severity[i] = s})
  IN  [must_fix |-> Failed("high"), recommended |-> Failed("medium"), info |-> Failed("low"),
       needs_human |-> Cardinality({i \in DOMAIN verdict : verdict[i] = "needs_human"})]

\* A report: the listed items with their sub-checks, which of them have evidence (a
\* sub-check as the pair with its item) and which a reason, the sums and the checklist.
VerdictsOf(r, is) == {r.verdict[i] : i \in is \cap DOMAIN r.verdict}
Judged(r, verdicts) == {i \in DOMAIN r.verdict : r.verdict[i] \in verdicts}

\* Keys, types, allowed values, the kinds of evidence, levels, texts.
Tidy(r) == r.tidy /\ \A i \in DOMAIN r.verdict : r.severity[i] \in Severities

\* All items and all their sub-checks, each item as bad as the worst of these.
Complete(r) ==
  /\ DOMAIN r.verdict = Items
  /\ \A i \in Items :
       /\ DOMAIN r.sub[i] = Subs[i]
       /\ LET rolled == RollupVerdict({r.sub[i][s] : s \in Subs[i]})
          IN  rolled # None => r.verdict[i] = rolled

\* A verdict of an item or a sub-check has evidence, one that an item does not apply a
\* reason.
Grounded(r) ==
  /\ Judged(r, {"pass", "fail"}) \subseteq r.evidence /\ Judged(r, {"na"}) \subseteq r.reason
  /\ \A i \in DOMAIN r.verdict : \A s \in DOMAIN r.sub[i] :
       r.sub[i][s] \in {"pass", "fail"} => <<i, s>> \in r.subEvidence

SummedUp(r) == r.summary = RecomputeSummary(r.verdict, r.severity)

ChecklistHolds(r) == \A c \in Criteria : r.moe[c] = MoeStatusFor(VerdictsOf(r, Mapped[c]))

\* validateReport finds no error.
Valid(r) == Tidy(r) /\ Complete(r) /\ Grounded(r) /\ SummedUp(r) /\ ChecklistHolds(r)

=============================================================================
