---------------------------- MODULE MCReportFolder ----------------------------
(***************************************************************************)
(* ReportFolder for model checking: two items, the first with two          *)
(* sub-checks, and one criterion judged by both.                           *)
(***************************************************************************)
EXTENDS ReportFolder

FourFiles == <<"report", "scan", "html", "md">>
TwoItems == {"minimal", "delete"}
TheirSubs == [i \in TwoItems |-> IF i = "minimal" THEN {"fields", "nickname"} ELSE {"purge"}]
OneCriterion == [c \in {"1-1"} |-> TwoItems]
TheirSeverity == [i \in TwoItems |-> IF i = "minimal" THEN "high" ELSE "low"]

\* The report that says given of the items in is, sub of the sub-checks, with evidence
\* for the items in shown and for all sub-checks but those in bare.
ReportOf(tidy, is, given, sub, shown, bare, status) ==
  [tidy |-> tidy, verdict |-> [i \in is |-> given[i]], sub |-> sub, severity |-> TheirSeverity,
   evidence |-> shown, reason |-> is,
   subEvidence |-> UNION {{<<i, s>> : s \in TheirSubs[i] \ bare} : i \in TwoItems},
   summary |-> RecomputeSummary(given, TheirSeverity), moe |-> [c \in {"1-1"} |-> status]]

\* All verdicts of the first item and its sub-checks, two of the other one.
GivenVerdicts == {given \in [TwoItems -> Verdicts] : given["delete"] \in {"fail", "pass"}}
GivenSubs == [minimal : [{"fields", "nickname"} -> Verdicts], delete : [{"purge"} -> {"fail", "pass"}]]

\* Reports right or wrong in what is said of their items; and of one that is right in
\* this an untidy form, one without evidence, one with a sub-check without, and one that
\* leaves an item out.
Reports ==
  {ReportOf(TRUE, TwoItems, given, sub, TwoItems, {}, status) :
     given \in GivenVerdicts, sub \in GivenSubs, status \in {"met", "unmet", "open"}}
  \cup LET given == [i \in TwoItems |-> "pass"]
           sub == [i \in TwoItems |-> [s \in TheirSubs[i] |-> "pass"]]
       IN  {ReportOf(FALSE, TwoItems, given, sub, TwoItems, {}, "met"),
            ReportOf(TRUE, TwoItems, given, sub, {}, {}, "met"),
            ReportOf(TRUE, TwoItems, given, sub, TwoItems, {"nickname"}, "met"),
            ReportOf(TRUE, {"minimal"}, given, sub, TwoItems, {}, "met")}

=============================================================================
