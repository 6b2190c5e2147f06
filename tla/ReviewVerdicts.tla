---------------------------- MODULE ReviewVerdicts ----------------------------
(***************************************************************************)
(* Verdicts of a review: what becomes of the drafts of the AI              *)
(* (lib/reviewAi.js) and how drafts and the reviewer's own choices are     *)
(* summed up (lib/reviewSummary.js).                                       *)
(*                                                                         *)
(* Abstractions.  A quotation is verified or it is not; the reasons the AI *)
(* gives are left out, and of the reasons the reviewer gives only whether  *)
(* there is one is kept.                                                   *)
(***************************************************************************)
EXTENDS Naturals, FiniteSets

CONSTANTS
  Items,       \* items of the rubric
  Required,    \* those whose type is "required"
  Verifiable,  \* those the AI may judge
  Features,    \* flags of an application
  When,        \* When[i]: the flag without which i does not apply, or None
  Sensitive,   \* flags that ask for level L2
  Personal,    \* flags that ask for level L1
  None         \* "undefined"

Verdicts == {"ok", "fail", "needs_human", "na"}

\* Of the rubric's required items there is none the AI may not judge.
ASSUME ItemsAssumption ==
  /\ Required \subseteq Verifiable /\ Verifiable \subseteq Items
  /\ When \in [Items -> Features \cup {None}]
ASSUME FlagsAssumption == Sensitive \subseteq Features /\ Personal \subseteq Features
ASSUME NoneIsNothing == None \notin Features \cup Verdicts \cup Nat

-----------------------------------------------------------------------------
(* Drafts *)

\* What the AI says of an item: whether a quotation of it is verified.
Answers == [verdict : Verdicts, quoted : BOOLEAN]

\* What is kept of it.  grounded: the verdict rests on verified quotations.
Drafts == [verdict : Verdicts, grounded : BOOLEAN, demoted : BOOLEAN]

Kept(v, grounded) == [verdict |-> v, grounded |-> grounded, demoted |-> FALSE]
Demoted == [verdict |-> "needs_human", grounded |-> FALSE, demoted |-> TRUE]

\* Mutant: quotations are not looked for in the files.
Unverified(answer, i, hits) ==
  IF answer = None \/ answer.verdict = "needs_human" THEN Kept("needs_human", FALSE)
  ELSE IF \/ answer.verdict = "na" /\ i \in Required
          \/ answer.verdict = "ok" /\ i \in hits
       THEN Demoted
       ELSE Kept(answer.verdict, answer.quoted)

\* The draft of item i; hits are the items the rule scan has suspicions about.
\* An answer without a valid verdict is none: None.
Validated(answer, i, hits) ==
  IF answer = None \/ answer.verdict = "needs_human" THEN Kept("needs_human", FALSE)
  ELSE IF \/ answer.verdict = "na" /\ i \in Required
          \/ ~answer.quoted
          \/ answer.verdict = "ok" /\ i \in hits
       THEN Demoted
       ELSE Kept(answer.verdict, TRUE)

\* The drafts of one item by all chunks, as one.  A single one is kept as it is.
Merged(drafts, chunks) ==
  LET Of(v) == {drafts[c] : c \in {k \in chunks : drafts[k].verdict = v}}
      Rests(v) == Kept(v, \E d \in Of(v) : d.grounded)
  IN  IF Cardinality(chunks) = 1 THEN drafts[CHOOSE c \in chunks : TRUE]
      ELSE IF Of("fail") # {} THEN Rests("fail")
      ELSE IF Of("ok") # {} THEN Rests("ok")
      ELSE IF Of("needs_human") # {}
           THEN IF Demoted \in Of("needs_human") THEN Demoted ELSE Kept("needs_human", FALSE)
           ELSE Kept("na", FALSE)

-----------------------------------------------------------------------------
(* Summary *)

\* The reviewer's choice for an item; a choice that was taken back is None.
Choices == [verdict : Verdicts \cup {None}, reason : BOOLEAN]
NoChoice == [verdict |-> None, reason |-> FALSE]

NaNeedsReason(i, v, overrides, humanInputs) ==
  /\ v = "na" /\ i \in Required
  /\ ~overrides[i].reason /\ ~humanInputs[i].reason

\* The verdict of an item before a missing reason is looked at.
Chosen(i, drafts, overrides, humanInputs) ==
  LET own == IF i \in Verifiable
             THEN IF drafts[i] = None THEN None ELSE drafts[i].verdict
             ELSE humanInputs[i].verdict
      v   == IF overrides[i].verdict # None THEN overrides[i].verdict ELSE own
  IN  IF v = None THEN "needs_human" ELSE v

FinalVerdict(i, drafts, overrides, humanInputs) ==
  LET v == Chosen(i, drafts, overrides, humanInputs)
  IN  IF NaNeedsReason(i, v, overrides, humanInputs) THEN "needs_human" ELSE v

\* The items that are judged: an override brings back one that does not apply.
Applicable(features, overrides) ==
  {i \in Items : When[i] = None \/ When[i] \in features \/ overrides[i].verdict # None}

\* verdicts: the final verdicts of the applicable items.
Status(verdicts) ==
  LET Of(v) == {i \in DOMAIN verdicts : verdicts[i] = v}
  IN  IF Of("fail") \cap Required # {} THEN "fail_candidate"
      ELSE IF Of("needs_human") # {} THEN "hold" ELSE "pass_candidate"

ProtectionLevel(features) ==
  IF features \cap Sensitive # {} THEN "L2"
  ELSE IF features \cap Personal # {} THEN "L1" ELSE "L0"

=============================================================================
