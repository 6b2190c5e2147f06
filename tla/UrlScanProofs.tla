---------------------------- MODULE UrlScanProofs ----------------------------
(***************************************************************************)
(* Proofs about UrlScan, for every set of URLs and checks and all limits.  *)
(*                                                                         *)
(* The argument.  The server never touches what the page said of a scan:   *)
(* its URL, its key and the tick (Kept).  While the page waits, the URL in *)
(* the field is that of the request (Waits), since the field is locked.  A *)
(* ticked box was ticked for the URL in the field (Confirmed), and the key *)
(* in the page was not sent yet (KeyIsFresh).  A result is true to the     *)
(* body it was made from (Sound), since reading ends at the end of the     *)
(* body or says that it does not.                                          *)
(***************************************************************************)
EXTENDS UrlScan, TLAPS

Bodies == [length : Nat, signal : BOOLEAN]

SomeResults ==
  [target : Fields, active : SUBSET Checks, risk : {"high", "medium", "low", "minimal"},
   analyzed : BOOLEAN, cut : BOOLEAN, signal : BOOLEAN,
   ai : {"not_requested", "used", "failed", "busy"}]

Requests ==
  [phase : {"none", "sent", "dns", "probe", "body", "read", "summary"} \cup Over,
   target : Fields, key : Nat \cup {None}, ticked : Fields, client : BOOLEAN,
   body : Bodies \cup {None}, read : Nat, cut : BOOLEAN, result : SomeResults \cup {None}]

\* A result is true to the body it was made from.
TrueResult(result) ==
  sourceCoverageMessage(result) = "whole" => (result.signal <=> "source" \in result.active)

\* What holds of one scan.
Sound(s) ==
  /\ s \in Requests
  /\ s.phase # "body" => s.body = None
  /\ s.phase = "body" => s.body \in Bodies
  /\ s.phase = "summary" \/ s.result # None => s.result \in SomeResults /\ TrueResult(s.result)

\* The server leaves alone what the page said.
Kept(s, t) == t.target = s.target /\ t.key = s.key /\ t.ticked = s.ticked

Typed ==
  /\ field \in Fields /\ confirmed \in BOOLEAN /\ ticked \in Fields
  /\ moves \in Nat /\ key \in 1..moves \cup {None}
  /\ sent \in 0..MaxScans /\ scanning \in 1..sent \cup {None}

ScansSound == scan \in [Scans -> Requests] /\ \A n \in Scans : Sound(scan[n])

Waits == scanning # None => scan[scanning].target = field /\ shown = None

Confirmed == confirmed => ticked = field

KeyIsFresh ==
  /\ \A n \in 1..sent : scan[n].key \in 1..moves \cup {None}
  /\ key # None => \A n \in 1..sent : scan[n].key # key

Inv ==
  /\ Typed /\ ScansSound /\ Waits /\ Confirmed /\ KeyIsFresh
  /\ ShownIsOfField /\ SentAsMeant

-----------------------------------------------------------------------------
(* Results *)

LEMMA Risks == ASSUME NEW active PROVE riskLevel(active) \in {"high", "medium", "low", "minimal"}
BY DEF riskLevel

\* A result made when nothing of the body is left to read, or when it says so, is true.
LEMMA ResultIsTrue ==
  ASSUME NEW s \in Requests, NEW weak \in WeakHeaders,
         s.body # None /\ ~s.cut => s.read = s.body.length
  PROVE  ResultOf(s, weak) \in SomeResults /\ TrueResult(ResultOf(s, weak))
<1> DEFINE active == evaluate(s, weak)
<1>1. weak \subseteq HeaderChecks /\ "source" \notin HeaderChecks
  BY NamesAssumption DEF WeakHeaders
<1>2. active \in SUBSET Checks
  BY <1>1 DEF evaluate, sourceFindings, Checks
<1>3. /\ s.body \in Bodies \cup {None} /\ s.target \in Fields /\ s.cut \in BOOLEAN
      /\ s.read \in Nat
  BY DEF Requests
<1>4. riskLevel(active) \in {"high", "medium", "low", "minimal"}
  BY Risks
<1>5. (s.body # None /\ s.body.signal) \in BOOLEAN
  OBVIOUS
<1>6. s.body # None /\ ~s.cut => (s.body.signal <=> "source" \in active)
  <2> SUFFICES ASSUME s.body # None, ~s.cut PROVE s.body.signal <=> "source" \in active
    OBVIOUS
  <2>1. s.body \in Bodies /\ s.read = s.body.length
    BY <1>3
  <2>2. "source" \in active <=> "source" \in sourceFindings(s.body, s.read)
    BY <1>1 DEF evaluate
  <2> QED
    BY <2>1, <2>2 DEF sourceFindings, Bodies
<1>7. ResultOf(s, weak) =
        [target |-> s.target, active |-> active, risk |-> riskLevel(active),
         analyzed |-> s.body # None, cut |-> s.cut, ai |-> "not_requested",
         signal |-> s.body # None /\ s.body.signal]
  BY DEF ResultOf
<1> HIDE DEF active
<1>8. ResultOf(s, weak) \in SomeResults
  BY <1>2, <1>3, <1>4, <1>5, <1>7 DEF SomeResults
<1>9. TrueResult(ResultOf(s, weak))
  BY <1>3, <1>5, <1>6, <1>7 DEF TrueResult, sourceCoverageMessage
<1> QED
  BY <1>8, <1>9

-----------------------------------------------------------------------------
(* The server *)

\* A step that makes t of the n-th scan.
Makes(n, t) == Becomes(n, t) /\ Sound(t) /\ Kept(scan[n], t)

LEMMA MakesInv ==
  ASSUME Inv, NEW n \in Scans, NEW t, Makes(n, t)
  PROVE  Inv'
<1>1. /\ scan' = [scan EXCEPT ![n] = t] /\ Sound(t)
      /\ t.target = scan[n].target /\ t.key = scan[n].key /\ t.ticked = scan[n].ticked
  BY DEF Makes, Becomes, Kept
<1>2. UNCHANGED <<config, field, confirmed, key, scanning, shown, sent, moves, ticked>>
  BY DEF Makes, Becomes, page
<1>3. /\ Typed /\ ScansSound /\ Waits /\ Confirmed /\ KeyIsFresh
      /\ ShownIsOfField /\ SentAsMeant
  BY DEF Inv
<1>4. t \in Requests
  BY <1>1 DEF Sound
<1>5. \A k \in Scans : scan'[k] = IF k = n THEN t ELSE scan[k]
  BY <1>1, <1>3 DEF ScansSound
<1>6. \A k \in Scans : /\ scan'[k].target = scan[k].target /\ scan'[k].key = scan[k].key
                       /\ scan'[k].ticked = scan[k].ticked
  BY <1>1, <1>5
<1>7. 1..sent \subseteq Scans
  BY <1>3, LimitsAssumption DEF Typed, Scans
<1>8. Typed'
  BY <1>2, <1>3 DEF Typed
<1>9. ScansSound'
  <2>1. scan' \in [Scans -> Requests]
    BY <1>1, <1>3, <1>4 DEF ScansSound
  <2>2. \A k \in Scans : Sound(scan'[k])
    BY <1>1, <1>3, <1>5 DEF ScansSound
  <2> QED
    BY <2>1, <2>2 DEF ScansSound
<1>10. Waits'
  BY <1>2, <1>3, <1>6, <1>7 DEF Waits, Typed
<1>11. Confirmed'
  BY <1>2, <1>3 DEF Confirmed
<1>12. KeyIsFresh'
  BY <1>2, <1>3, <1>6, <1>7 DEF KeyIsFresh
<1>13. ShownIsOfField'
  BY <1>2, <1>3 DEF ShownIsOfField
<1>14. SentAsMeant'
  BY <1>2, <1>3, <1>6, <1>7 DEF SentAsMeant
<1> QED
  BY <1>8, <1>9, <1>10, <1>11, <1>12, <1>13, <1>14 DEF Inv

\* The end of the probing, with s as it is then.
LEMMA FinishMakes ==
  ASSUME NEW n \in Scans, NEW s \in Requests, NEW weak \in WeakHeaders,
         Kept(scan[n], s), s.body # None /\ ~s.cut => s.read = s.body.length,
         Finish(n, s, weak)
  PROVE  \E t : Makes(n, t)
<1> DEFINE result == ResultOf(s, weak)
           wanted == s.key # None /\ s.client
           busy == Cardinality(InSummary) >= AiLimit
           phase == IF wanted /\ ~busy THEN "summary" ELSE "done"
           given == IF wanted /\ busy THEN [result EXCEPT !.ai = "busy"] ELSE result
           After(p, g) == [s EXCEPT !.body = None, !.read = 0, !.cut = FALSE, !.phase = p, !.result = g]
<1>1. Becomes(n, After(phase, given))
  BY DEF Finish, WithoutBody
<1>2. result \in SomeResults /\ TrueResult(result)
  BY ResultIsTrue
<1> HIDE DEF result
<1>3. /\ [result EXCEPT !.ai = "busy"] \in SomeResults
      /\ TrueResult([result EXCEPT !.ai = "busy"])
  BY <1>2 DEF SomeResults, TrueResult, sourceCoverageMessage
<1>4. phase \in {"summary", "done"} /\ given \in SomeResults /\ TrueResult(given)
  BY <1>2, <1>3
<1> HIDE DEF phase, given
<1>5. PICK p \in {"summary", "done"}, g \in SomeResults :
        TrueResult(g) /\ Becomes(n, After(p, g))
  <2> HIDE DEF After
  <2> QED
    BY <1>1, <1>4
<1>6. /\ After(p, g) \in Requests
      /\ After(p, g).phase = p /\ After(p, g).body = None /\ After(p, g).result = g
      /\ After(p, g).target = s.target /\ After(p, g).key = s.key /\ After(p, g).ticked = s.ticked
  BY DEF Requests, Over
<1> HIDE DEF After
<1>7. Sound(After(p, g))
  BY <1>5, <1>6 DEF Sound
<1> QED
  BY <1>5, <1>6, <1>7 DEF Makes, Kept

LEMMA CollectKeeps ==
  ASSUME NEW s \in Requests, s.phase = "body", s.body \in Bodies, NEW chunk \in Nat
  PROVE  LET t == Collect(s, chunk)
         IN  /\ t \in Requests /\ t.body = s.body /\ t.result = s.result
             /\ t.phase \in {"body", "read"} /\ (t.phase = "read" => t.cut)
             /\ t.target = s.target /\ t.key = s.key /\ t.ticked = s.ticked
<1>1. s.read + chunk \in Nat /\ BodyLimit \in Nat /\ s.cut \in BOOLEAN
  BY LimitsAssumption DEF Requests
<1>2. CASE s.read + chunk > BodyLimit
  BY <1>1, <1>2 DEF Collect, Requests
<1>3. CASE ~(s.read + chunk > BodyLimit) /\ s.read + chunk = BodyLimit /\ s.cut
  BY <1>1, <1>3 DEF Collect, Requests
<1>4. CASE ~(s.read + chunk > BodyLimit) /\ ~(s.read + chunk = BodyLimit /\ s.cut)
  BY <1>1, <1>4 DEF Collect, Requests
<1> QED
  BY <1>2, <1>3, <1>4

\* A scan that only goes to another phase.
LEMMA PhaseMakes ==
  ASSUME NEW n \in Scans, Sound(scan[n]), scan[n].phase # "body",
         NEW p \in {"dns", "probe", "refused"}, Becomes(n, [scan[n] EXCEPT !.phase = p])
  PROVE  \E t : Makes(n, t)
<1> DEFINE t == [scan[n] EXCEPT !.phase = p]
<1>1. /\ t \in Requests /\ t.phase = p /\ t.body = scan[n].body /\ t.result = scan[n].result
      /\ Kept(scan[n], t)
  BY DEF Sound, Requests, Over, Kept
<1> HIDE DEF t
<1>2. Sound(t)
  BY <1>1 DEF Sound
<1>3. Becomes(n, t)
  BY DEF t
<1> QED
  BY <1>1, <1>2, <1>3 DEF Makes

LEMMA FailMakes ==
  ASSUME NEW n \in Scans, Sound(scan[n]), Fail(n) \/ ProbeLate(n)
  PROVE  \E t : Makes(n, t)
<1> DEFINE t == [WithoutBody(scan[n]) EXCEPT !.phase = "refused"]
<1>1. /\ t \in Requests /\ t.phase = "refused" /\ t.body = None /\ t.result = scan[n].result
      /\ Kept(scan[n], t)
  BY DEF Sound, Requests, Over, Kept, WithoutBody
<1>2. Becomes(n, t)
  BY DEF Fail, ProbeLate, Abandon
<1> HIDE DEF t
<1>3. Sound(t)
  BY <1>1 DEF Sound
<1> QED
  BY <1>1, <1>2, <1>3 DEF Makes

LEMMA ProbePageMakes ==
  ASSUME NEW n \in Scans, Sound(scan[n]), ProbePage(n)
  PROVE  \E t : Makes(n, t)
<1>1. PICK length \in 0..MaxBody, says \in BOOLEAN, signal \in BOOLEAN :
        Becomes(n, [scan[n] EXCEPT !.phase = "body", !.body = [length |-> length, signal |-> signal],
                      !.cut = says /\ length > BodyLimit])
  <2>1. PICK length \in 0..MaxBody, says \in BOOLEAN : \E signal \in {FALSE, length > 0} :
          Becomes(n, [scan[n] EXCEPT !.phase = "body", !.body = [length |-> length, signal |-> signal],
                        !.cut = says /\ length > BodyLimit])
    BY DEF ProbePage
  <2>2. {FALSE, length > 0} \subseteq BOOLEAN
    OBVIOUS
  <2> QED
    BY <2>1, <2>2
<1> DEFINE body == [length |-> length, signal |-> signal]
           cut == says /\ length > BodyLimit
           t == [scan[n] EXCEPT !.phase = "body", !.body = body, !.cut = cut]
<1>2. body \in Bodies /\ cut \in BOOLEAN
  BY LimitsAssumption DEF Bodies
<1> HIDE DEF body, cut
<1>3. /\ t \in Requests /\ t.phase = "body" /\ t.body = body /\ t.result = scan[n].result
      /\ Kept(scan[n], t)
  BY <1>2 DEF Sound, Requests, Kept
<1>4. Becomes(n, t)
  BY <1>1 DEF body, cut
<1> HIDE DEF t
<1>5. Sound(t)
  BY <1>2, <1>3 DEF Sound
<1> QED
  BY <1>3, <1>4, <1>5 DEF Makes

LEMMA ReadMakes ==
  ASSUME NEW n \in Scans, Sound(scan[n]), Read(n)
  PROVE  \E t : Makes(n, t)
<1>1. /\ scan[n] \in Requests /\ scan[n].phase = "body" /\ scan[n].body \in Bodies
      /\ scan[n].body.length \in Nat /\ scan[n].read \in Nat
  BY DEF Sound, Read, Bodies, Requests
<1> DEFINE left == scan[n].body.length - scan[n].read
<1>2. CASE \E chunk \in 1..left :
             LET t == Collect(scan[n], chunk)
             IN  IF t.phase = "body" THEN Becomes(n, t)
                 ELSE \E weak \in WeakHeaders : Finish(n, t, weak)
  <2>1. PICK chunk \in 1..left :
             LET t == Collect(scan[n], chunk)
             IN  IF t.phase = "body" THEN Becomes(n, t)
                 ELSE \E weak \in WeakHeaders : Finish(n, t, weak)
    BY <1>2
  <2> DEFINE t == Collect(scan[n], chunk)
  <2>2. /\ t \in Requests /\ t.body = scan[n].body /\ t.result = scan[n].result
        /\ t.phase \in {"body", "read"} /\ (t.phase = "read" => t.cut)
        /\ t.target = scan[n].target /\ t.key = scan[n].key /\ t.ticked = scan[n].ticked
    BY <1>1, CollectKeeps
  <2>3. CASE t.phase = "body"
    <3>1. Becomes(n, t)
      BY <2>1, <2>3
    <3> HIDE DEF t
    <3>2. Sound(t) /\ Kept(scan[n], t)
      BY <1>1, <2>2, <2>3 DEF Sound, Kept
    <3> QED
      BY <3>1, <3>2 DEF Makes
  <2>4. CASE t.phase = "read"
    <3>1. PICK weak \in WeakHeaders : Finish(n, t, weak)
      BY <2>1, <2>4
    <3> HIDE DEF t
    <3>2. Kept(scan[n], t) /\ t.cut
      BY <2>2, <2>4 DEF Kept
    <3> QED
      BY <2>2, <3>1, <3>2, FinishMakes
  <2> QED
    BY <2>2, <2>3, <2>4
<1>3. CASE left = 0 /\ \E weak \in WeakHeaders : Finish(n, scan[n], weak)
  <2>1. scan[n].read = scan[n].body.length
    BY <1>1, <1>3
  <2>2. Kept(scan[n], scan[n])
    BY DEF Kept
  <2> QED
    BY <1>1, <1>3, <2>1, <2>2, FinishMakes
<1> QED
  BY <1>2, <1>3 DEF Read

LEMMA SummarizeMakes ==
  ASSUME NEW n \in Scans, Sound(scan[n]), Summarize(n) \/ SummaryLate(n)
  PROVE  \E t : Makes(n, t)
<1>1. PICK taken \in BOOLEAN :
        Becomes(n, [scan[n] EXCEPT !.phase = "done",
                      !.result = applySecurityScanSummary(scan[n].result, taken)])
  BY DEF Summarize, SummaryLate, Sound, Requests
<1> DEFINE given == applySecurityScanSummary(scan[n].result, taken)
           t == [scan[n] EXCEPT !.phase = "done", !.result = given]
<1>2. scan[n].result \in SomeResults /\ TrueResult(scan[n].result)
  BY DEF Summarize, SummaryLate, Sound
<1>3. given \in SomeResults /\ TrueResult(given)
  <2>1. given \in SomeResults
    BY <1>2 DEF SomeResults, applySecurityScanSummary
  <2>2. /\ given.analyzed = scan[n].result.analyzed /\ given.cut = scan[n].result.cut
        /\ given.signal = scan[n].result.signal /\ given.active = scan[n].result.active
    BY <1>2 DEF SomeResults, applySecurityScanSummary
  <2> HIDE DEF given
  <2> QED
    BY <1>2, <2>1, <2>2 DEF TrueResult, sourceCoverageMessage
<1>4. Becomes(n, t)
  BY <1>1
<1> HIDE DEF given
<1>5. /\ t \in Requests /\ t.phase = "done" /\ t.body = scan[n].body /\ t.result = given
      /\ Kept(scan[n], t)
  BY <1>3 DEF Sound, Requests, Kept, Over
<1> HIDE DEF t
<1>6. Sound(t)
  BY <1>3, <1>5 DEF Sound, Summarize, SummaryLate
<1> QED
  BY <1>4, <1>5, <1>6 DEF Makes

LEMMA ServeMakes ==
  ASSUME Inv, NEW n \in Scans, Serve(n)
  PROVE  \E t : Makes(n, t)
<1>1. Sound(scan[n])
  BY DEF Inv, ScansSound
<1>2. CASE Disallow(n) \/ Refuse(n) \/ Admit(n) \/ Resolve(n) \/ NotPublic(n) \/ LookupLate(n)
  <2>1. /\ scan[n].phase # "body"
        /\ \E p \in {"dns", "probe", "refused"} : Becomes(n, [scan[n] EXCEPT !.phase = p])
    BY <1>2 DEF Disallow, Refuse, Admit, Resolve, NotPublic, LookupLate
  <2> QED
    BY <1>1, <2>1, PhaseMakes
<1>3. CASE Fail(n) \/ ProbeLate(n)
  BY <1>1, <1>3, FailMakes
<1>4. CASE ProbeWithoutSource(n)
  <2>1. scan[n] \in Requests /\ scan[n].body = None
    BY <1>1, <1>4 DEF ProbeWithoutSource, Sound
  <2>2. PICK weak \in WeakHeaders : Finish(n, scan[n], weak)
    BY <1>4 DEF ProbeWithoutSource
  <2>3. Kept(scan[n], scan[n])
    BY DEF Kept
  <2> QED
    BY <2>1, <2>2, <2>3, FinishMakes
<1>5. CASE ProbePage(n)
  BY <1>1, <1>5, ProbePageMakes
<1>6. CASE Read(n)
  BY <1>1, <1>6, ReadMakes
<1>7. CASE Summarize(n) \/ SummaryLate(n)
  BY <1>1, <1>7, SummarizeMakes
<1> QED
  BY <1>2, <1>3, <1>4, <1>5, <1>6, <1>7 DEF Serve, Due, Heard

-----------------------------------------------------------------------------
(* The page *)

LEMMA InitInv == Init => Inv
<1> SUFFICES ASSUME Init PROVE Inv
  OBVIOUS
<1>1. NoScan \in Requests /\ NoScan.phase = "none" /\ NoScan.body = None /\ NoScan.result = None
  BY DEF NoScan, Requests, Fields
<1>2. Sound(NoScan)
  BY <1>1 DEF Sound
<1>3. ScansSound
  BY <1>1, <1>2 DEF Init, ScansSound
<1>4. Typed
  <2>1. 0 \in Nat /\ 0 \in 0..MaxScans
    BY LimitsAssumption
  <2> QED
    BY <2>1 DEF Init, Typed, Fields
<1>5. Waits /\ Confirmed
  BY DEF Init, Waits, Confirmed
<1>6. KeyIsFresh /\ ShownIsOfField /\ SentAsMeant
  BY DEF Init, KeyIsFresh, ShownIsOfField, SentAsMeant
<1> QED
  BY <1>3, <1>4, <1>5, <1>6 DEF Inv

\* What the user does in the form, while no request is on.
LEMMA FormKeeps ==
  ASSUME Inv, ConfigArrives \/ ConfigAgain \/ onTargetUrlChange
              \/ onAnthropicApiKeyChange \/ onAuthorizationChange
  PROVE  Inv'
<1>1. /\ Typed /\ ScansSound /\ Waits /\ Confirmed /\ KeyIsFresh
      /\ ShownIsOfField /\ SentAsMeant
  BY DEF Inv
<1>2. UNCHANGED <<scan, sent, scanning>>
  BY DEF ConfigArrives, ConfigAgain, onTargetUrlChange, onAnthropicApiKeyChange,
         onAuthorizationChange
<1>3. ScansSound' /\ SentAsMeant'
  BY <1>1, <1>2 DEF ScansSound, SentAsMeant
<1>4. CASE ConfigArrives \/ ConfigAgain
  <2>1. UNCHANGED <<field, confirmed, key, shown, ticked>> /\ (moves' = moves \/ moves' = moves + 1)
    BY <1>4 DEF ConfigArrives, ConfigAgain, Move
  <2>2. 1..moves \subseteq 1..moves' /\ moves' \in Nat
    BY <1>1, <2>1 DEF Typed
  <2>3. Typed' /\ KeyIsFresh'
    BY <1>1, <1>2, <2>1, <2>2 DEF Typed, KeyIsFresh
  <2> QED
    BY <1>1, <1>2, <1>3, <2>1, <2>3 DEF Inv, Waits, Confirmed, ShownIsOfField
<1>5. CASE onTargetUrlChange
  <2>1. /\ field' \in Fields /\ confirmed' = FALSE /\ shown' = None /\ ticked' = None
        /\ key' = key /\ moves' = moves + 1 /\ scanning = None
    BY <1>5 DEF onTargetUrlChange, Move
  <2>2. 1..moves \subseteq 1..moves' /\ moves' \in Nat
    BY <1>1, <2>1 DEF Typed
  <2>3. Typed' /\ KeyIsFresh'
    BY <1>1, <1>2, <2>1, <2>2 DEF Typed, KeyIsFresh, Fields
  <2> QED
    BY <1>1, <1>2, <1>3, <2>1, <2>3 DEF Inv, Waits, Confirmed, ShownIsOfField
<1>6. CASE onAnthropicApiKeyChange
  <2>1. /\ UNCHANGED <<field, confirmed, shown, ticked>>
        /\ key' = moves' /\ moves' = moves + 1 /\ scanning = None
    BY <1>6 DEF onAnthropicApiKeyChange, Move
  <2>2. /\ 1..moves \subseteq 1..moves' /\ moves' \in Nat /\ moves' \in 1..moves'
        /\ moves' \notin 1..moves
    BY <1>1, <2>1 DEF Typed
  <2>3. Typed'
    BY <1>1, <1>2, <2>1, <2>2 DEF Typed
  <2>4. KeyIsFresh'
    <3>1. \A n \in 1..sent : scan[n].key \in 1..moves \cup {None} /\ scan[n].key # moves'
      BY <1>1, <2>2, NamesAssumption DEF KeyIsFresh
    <3> QED
      BY <1>2, <2>1, <2>2, <3>1 DEF KeyIsFresh
  <2> QED
    BY <1>1, <1>2, <1>3, <2>1, <2>3, <2>4 DEF Inv, Waits, Confirmed, ShownIsOfField
<1>7. CASE onAuthorizationChange
  <2>1. /\ UNCHANGED <<field, key, shown>> /\ confirmed' = ~confirmed /\ moves' = moves + 1
        /\ ticked' = IF confirmed' THEN field ELSE None
    BY <1>7 DEF onAuthorizationChange, Move
  <2>2. 1..moves \subseteq 1..moves' /\ moves' \in Nat
    BY <1>1, <2>1 DEF Typed
  <2>3. Typed'
    BY <1>1, <1>2, <2>1, <2>2 DEF Typed, Fields
  <2>4. KeyIsFresh'
    BY <1>1, <1>2, <2>1, <2>2 DEF KeyIsFresh
  <2> QED
    BY <1>1, <1>2, <1>3, <2>1, <2>3, <2>4 DEF Inv, Waits, Confirmed, ShownIsOfField
<1> QED
  BY <1>4, <1>5, <1>6, <1>7

LEMMA RunScanKeeps == ASSUME Inv, runScan PROVE Inv'
<1>1. /\ Typed /\ ScansSound /\ Waits /\ Confirmed /\ KeyIsFresh
      /\ ShownIsOfField /\ SentAsMeant
  BY DEF Inv
<1> DEFINE r == [NoScan EXCEPT !.phase = "sent", !.target = field, !.key = key,
                               !.ticked = ticked, !.client = TRUE]
<1>2. /\ confirmed /\ scanning = None /\ sent < MaxScans /\ sent' = sent + 1
      /\ scan' = [scan EXCEPT ![sent'] = r]
      /\ key' = None /\ scanning' = sent' /\ shown' = None
      /\ UNCHANGED <<field, confirmed, moves, ticked>>
  BY DEF runScan, canSubmit, requestSecurityScan
<1>3. /\ sent \in Nat /\ sent' \in Nat /\ sent' \in 1..sent' /\ sent' \notin 1..sent
      /\ sent' \in Scans /\ sent' \in 0..MaxScans /\ 1..sent' = 1..sent \cup {sent'}
      /\ 1..sent \subseteq Scans
  BY <1>1, <1>2, LimitsAssumption DEF Typed, Scans
<1>4. /\ r \in Requests /\ r.phase = "sent" /\ r.body = None /\ r.result = None
      /\ r.target = field /\ r.key = key /\ r.ticked = ticked
  <2>1. /\ NoScan \in Requests /\ NoScan.body = None /\ NoScan.result = None
    BY DEF NoScan, Requests, Fields
  <2>2. field \in Fields /\ key \in Nat \cup {None} /\ ticked \in Fields
    BY <1>1 DEF Typed
  <2> QED
    BY <2>1, <2>2 DEF Requests
<1> HIDE DEF r
<1>5. Sound(r)
  BY <1>4 DEF Sound
<1>6. \A k \in Scans : scan'[k] = IF k = sent' THEN r ELSE scan[k]
  BY <1>1, <1>2 DEF ScansSound
<1>7. scan'[sent'] = r /\ \A k \in 1..sent : scan'[k] = scan[k]
  BY <1>3, <1>6
<1>8. Typed'
  BY <1>1, <1>2, <1>3 DEF Typed
<1>9. ScansSound'
  <2>1. scan' \in [Scans -> Requests]
    BY <1>1, <1>2, <1>4 DEF ScansSound
  <2>2. \A k \in Scans : Sound(scan'[k])
    BY <1>1, <1>5, <1>6 DEF ScansSound
  <2> QED
    BY <2>1, <2>2 DEF ScansSound
<1>10. Waits' /\ Confirmed' /\ ShownIsOfField'
  BY <1>1, <1>2, <1>4, <1>7 DEF Waits, Confirmed, ShownIsOfField
<1>11. KeyIsFresh'
  BY <1>1, <1>2, <1>3, <1>4, <1>7 DEF KeyIsFresh, Typed
<1>12. SentAsMeant'
  <2>1. scan'[sent'].target = scan'[sent'].ticked
    BY <1>1, <1>2, <1>4, <1>7 DEF Confirmed
  <2>2. \A k \in 1..sent : r.key = scan'[k].key => r.key = None
    BY <1>1, <1>4, <1>7 DEF KeyIsFresh
  <2>3. \A n \in 1..sent, m \in 1..sent :
          n # m /\ scan[n].key = scan[m].key => scan[n].key = None
    BY <1>1 DEF SentAsMeant
  <2>4. ASSUME NEW n \in 1..sent', NEW m \in 1..sent', n # m, scan'[n].key = scan'[m].key
        PROVE  scan'[n].key = None
    <3>1. CASE n \in 1..sent /\ m \in 1..sent
      BY <1>7, <2>3, <2>4, <3>1
    <3>2. CASE n = sent' /\ m \in 1..sent
      BY <1>7, <2>2, <2>4, <3>2
    <3>3. CASE m = sent' /\ n \in 1..sent
      BY <1>7, <2>2, <2>4, <3>3
    <3> QED
      BY <1>3, <2>4, <3>1, <3>2, <3>3
  <2>5. \A n \in 1..sent' : scan'[n].target = scan'[n].ticked
    BY <1>1, <1>3, <1>7, <2>1 DEF SentAsMeant
  <2> QED
    BY <2>4, <2>5 DEF SentAsMeant
<1> QED
  BY <1>8, <1>9, <1>10, <1>11, <1>12 DEF Inv

\* A request whose client is gone is otherwise what it was.
LEMMA ClientGone ==
  ASSUME NEW s, Sound(s)
  PROVE  Sound([s EXCEPT !.client = FALSE]) /\ Kept(s, [s EXCEPT !.client = FALSE])
<1> DEFINE t == [s EXCEPT !.client = FALSE]
<1>1. /\ t \in Requests /\ t.phase = s.phase /\ t.body = s.body /\ t.result = s.result
      /\ Kept(s, t)
  BY DEF Sound, Requests, Kept
<1> HIDE DEF t
<1>2. Sound(t)
  BY <1>1 DEF Sound
<1> QED
  BY <1>1, <1>2 DEF t

\* When the page stops waiting, it keeps what was asked for, and shows nothing or what is
\* of the field.
LEMMA StopsWaiting ==
  ASSUME Inv,
         scan' \in [Scans -> Requests], \A k \in Scans : Sound(scan'[k]) /\ Kept(scan[k], scan'[k]),
         scanning' = None, sent' = sent, moves' = moves \/ moves' = moves + 1,
         \/ UNCHANGED <<field, confirmed, key, ticked>>
         \/ field' = None /\ confirmed' = FALSE /\ key' = None /\ ticked' = None,
         shown' = None \/ shown'.target = field'
  PROVE  Inv'
<1>1. /\ Typed /\ ScansSound /\ Waits /\ Confirmed /\ KeyIsFresh
      /\ ShownIsOfField /\ SentAsMeant
  BY DEF Inv
<1>2. 1..sent \subseteq Scans /\ 1..moves \subseteq 1..moves' /\ moves' \in Nat
  BY <1>1, LimitsAssumption DEF Typed, Scans
<1>3. \A k \in Scans : /\ scan'[k].target = scan[k].target /\ scan'[k].key = scan[k].key
                       /\ scan'[k].ticked = scan[k].ticked
  BY DEF Kept
<1>4. Typed'
  BY <1>1, <1>2 DEF Typed, Fields
<1>5. ScansSound'
  BY DEF ScansSound
<1>6. Waits' /\ Confirmed' /\ ShownIsOfField'
  BY <1>1 DEF Waits, Confirmed, ShownIsOfField
<1>7. KeyIsFresh'
  <2>1. \A k \in 1..sent' : scan'[k].key = scan[k].key
    BY <1>2, <1>3
  <2> QED
    BY <1>1, <1>2, <2>1 DEF KeyIsFresh
<1>8. SentAsMeant'
  BY <1>1, <1>2, <1>3 DEF SentAsMeant
<1> QED
  BY <1>4, <1>5, <1>6, <1>7, <1>8 DEF Inv

LEMMA AnsweredKeeps == ASSUME Inv, Answered PROVE Inv'
<1>1. Typed /\ ScansSound /\ Waits /\ scanning \in Scans /\ scan[scanning].target = field
  BY LimitsAssumption DEF Inv, Answered, Typed, Waits, Scans
<1>2. /\ scanning' = None /\ sent' = sent /\ moves' = moves /\ scan' = scan
      /\ UNCHANGED <<field, confirmed, key, ticked>>
      /\ shown' = IF scan[scanning].phase = "done" /\ scan[scanning].result.target = scan[scanning].target
                  THEN scan[scanning].result ELSE None
  BY DEF Answered
<1>3. scan' \in [Scans -> Requests] /\ \A k \in Scans : Sound(scan'[k]) /\ Kept(scan[k], scan'[k])
  BY <1>1, <1>2 DEF ScansSound, Kept
<1>4. shown' = None \/ shown'.target = field'
  BY <1>1, <1>2
<1> QED
  BY <1>2, <1>3, <1>4, StopsWaiting

LEMMA UnreachableKeeps == ASSUME Inv, Unreachable PROVE Inv'
<1>1. ScansSound /\ scanning \in Scans
  BY LimitsAssumption DEF Inv, Unreachable, Typed, Scans
<1>2. /\ scanning' = None /\ sent' = sent /\ moves' = moves /\ shown' = None
      /\ UNCHANGED <<field, confirmed, key, ticked>>
      /\ scan' = [scan EXCEPT ![scanning].client = FALSE]
  BY DEF Unreachable
<1>3. ASSUME NEW k \in Scans
      PROVE  scan'[k] = IF k = scanning THEN [scan[k] EXCEPT !.client = FALSE] ELSE scan[k]
  BY <1>1, <1>2 DEF ScansSound
<1>4. \A k \in Scans : Sound(scan'[k]) /\ Kept(scan[k], scan'[k])
  BY <1>1, <1>3, ClientGone DEF ScansSound, Kept
<1>5. scan' \in [Scans -> Requests]
  <2>1. [scan[scanning] EXCEPT !.client = FALSE] \in Requests
    BY <1>1 DEF ScansSound, Requests
  <2> QED
    BY <1>1, <1>2, <2>1 DEF ScansSound
<1> QED
  BY <1>2, <1>4, <1>5, StopsWaiting

LEMMA LeaveKeeps == ASSUME Inv, Leave PROVE Inv'
<1>1. ScansSound
  BY DEF Inv
<1>2. /\ scanning' = None /\ sent' = sent /\ moves' = moves + 1 /\ shown' = None
      /\ field' = None /\ confirmed' = FALSE /\ key' = None /\ ticked' = None
  BY DEF Leave, Move
<1>3. scan' \in [Scans -> Requests] /\ \A k \in Scans : Sound(scan'[k]) /\ Kept(scan[k], scan'[k])
  <2>1. CASE UNCHANGED scan
    BY <1>1, <2>1 DEF ScansSound, Kept
  <2>2. CASE scan' = [n \in Scans |-> [scan[n] EXCEPT !.client = FALSE]]
    <3>1. \A k \in Scans : scan'[k] = [scan[k] EXCEPT !.client = FALSE]
      BY <2>2
    <3>2. \A k \in Scans : Sound(scan'[k]) /\ Kept(scan[k], scan'[k])
      BY <1>1, <3>1, ClientGone DEF ScansSound
    <3>3. \A k \in Scans : [scan[k] EXCEPT !.client = FALSE] \in Requests
      BY <3>1, <3>2 DEF Sound
    <3> QED
      BY <2>2, <3>2, <3>3
  <2> QED
    BY <2>1, <2>2 DEF Leave
<1> QED
  BY <1>2, <1>3, StopsWaiting

-----------------------------------------------------------------------------

LEMMA NextKeeps == ASSUME Inv, [Next]_vars PROVE Inv'
<1>1. CASE UNCHANGED vars
  BY <1>1 DEF vars, page, Inv, Typed, ScansSound, Waits, Confirmed, KeyIsFresh,
              ShownIsOfField, SentAsMeant
<1>2. ASSUME NEW n \in Scans, Serve(n) PROVE Inv'
  BY <1>2, ServeMakes, MakesInv
<1> QED
  BY <1>1, <1>2, FormKeeps, RunScanKeeps, AnsweredKeeps, UnreachableKeeps, LeaveKeeps DEF Next

\* The page, the requests and the results keep the invariant above in every run.
THEOREM Invariance == Spec => []Inv
<1>1. Init => Inv
  BY InitInv
<1>2. Inv /\ [Next]_vars => Inv'
  BY NextKeeps
<1> QED
  BY <1>1, <1>2, PTL DEF Spec

\* Whatever the user does and whenever answers arrive, the result on the screen is of the
\* URL in the field (setScanResult in SecurityAuditPage.jsx).
THEOREM ShownBelongsToField == Spec => []ShownIsOfField
<1>1. Inv => ShownIsOfField
  BY DEF Inv
<1> QED
  BY <1>1, Invariance, PTL

\* Every scan the server is asked for was confirmed for its very URL, and no key goes out
\* twice (runScan in SecurityAuditPage.jsx).
THEOREM RequestsAreMeant == Spec => []SentAsMeant
<1>1. Inv => SentAsMeant
  BY DEF Inv
<1> QED
  BY <1>1, Invariance, PTL

\* A result that says that the whole source was checked is true of the whole source, for
\* every limit and length of a body (collectBoundedUtf8Body and the coverage message).
THEOREM CoverageIsHonest == Spec => []CoverageIsTrue
<1>1. Inv => CoverageIsTrue
  BY DEF Inv, ScansSound, Sound, TrueResult, CoverageIsTrue
<1> QED
  BY <1>1, Invariance, PTL

=============================================================================
