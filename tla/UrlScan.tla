-------------------------------- MODULE UrlScan --------------------------------
(***************************************************************************)
(* The URL check: the page that asks for it                                *)
(* (components/SecurityAuditPage.jsx), the route that admits it (app.ts),  *)
(* the scanner (security-scan/service.ts) and the AI summary               *)
(* (security-scan/anthropic-summary.ts).                                   *)
(*                                                                         *)
(* A scan is an HTTP request of the page.  Every await of the code lies    *)
(* between two actions; what others do there is any answer they may give,  *)
(* a broken connection included.  The deadlines of the lookup, the probe   *)
(* and the summary are actions of their own: they come even if nobody      *)
(* answers.  The request of the page has none.                             *)
(*                                                                         *)
(* Abstractions.  A body is its length, in units of which BodyLimit is a   *)
(* multiple, and whether there is a signal at its end, where it is missed  *)
(* first.  The checks of the source are one.  Of the AI's summary its      *)
(* status is kept.                                                         *)
(***************************************************************************)
EXTENDS Naturals, FiniteSets

CONSTANTS
  Targets,    \* URLs that may be checked
  Bad,        \* a field that holds no such URL
  None,       \* null
  HeaderChecks, \* checks of the response's headers
  BodyLimit,  \* MAX_SECURITY_SCAN_HTML_BYTES, in units
  MaxBody,    \* bound of the length of a body
  ScanLimit,  \* securityScanMaxConcurrent
  AiLimit,    \* securityScanAiMaxConcurrent
  MaxScans,   \* bound of the scans asked for
  MaxMoves    \* bound of what the user does besides

ASSUME LimitsAssumption ==
  /\ BodyLimit \in Nat \ {0} /\ MaxBody \in Nat
  /\ ScanLimit \in Nat \ {0} /\ AiLimit \in Nat \ {0}
  /\ MaxScans \in Nat /\ MaxMoves \in Nat
ASSUME NamesAssumption ==
  /\ Bad \notin Targets /\ None \notin Targets \cup {Bad} /\ None \notin Nat
  /\ "source" \notin HeaderChecks

Scans == 1..MaxScans

VARIABLES
  config,     \* loading, error, or whether checks are on
  field,      \* targetUrl
  confirmed,  \* authorizationConfirmed
  key,        \* anthropicApiKey: the move that typed it, or None
  scanning,   \* the scan the page waits for, or None
  shown,      \* scan: the result on the screen, or None
  scan,       \* scan[n]: the n-th request
  sent,       \* requests sent
  moves,      \* moves of the user
  ticked      \* history: the field when the box was ticked, while it is

page == <<config, field, confirmed, key, scanning, shown>>
vars == <<page, scan, sent, moves, ticked>>

-----------------------------------------------------------------------------
(* Findings *)

Checks == HeaderChecks \cup {"source"}

\* severity of a finding that is not passed.
Severity(c) == CASE c = "tls" -> "high" [] c = "policy" -> "medium" [] OTHER -> "low"

\* The risk of a set of active findings.
riskLevel(active) ==
  LET levels == {Severity(c) : c \in active}
  IN  IF "high" \in levels THEN "high"
      ELSE IF "medium" \in levels THEN "medium"
      ELSE IF active # {} THEN "low" ELSE "minimal"

\* What the headers of a response may fail, each by itself.
WeakHeaders == SUBSET HeaderChecks

\* What the source shows in the part that was read.
sourceFindings(body, read) == IF body.signal /\ read = body.length THEN {"source"} ELSE {}

\* The active findings: weak ones among the headers, and those of the source, where
\* there is one.
evaluate(s, weak) == weak \cup IF s.body = None THEN {} ELSE sourceFindings(s.body, s.read)

\* The result of a scan without AI; history: there was a signal.
ResultOf(s, weak) ==
  LET active == evaluate(s, weak)
  IN  [target |-> s.target, active |-> active, risk |-> riskLevel(active),
       analyzed |-> s.body # None, cut |-> s.cut, ai |-> "not_requested",
       signal |-> s.body # None /\ s.body.signal]

\* What the page says of the part of the source that was read.
sourceCoverageMessage(result) ==
  IF ~result.analyzed THEN "none" ELSE IF result.cut THEN "beginning" ELSE "whole"

\* What the AI says is taken if it has the form that was asked for and its actions are
\* remediations of active findings.
applySecurityScanSummary(result, taken) == [result EXCEPT !.ai = IF taken THEN "used" ELSE "failed"]

-----------------------------------------------------------------------------
(* The page *)

\* What the page sends of a scan, what the server holds while it reads, and its result.
NoScan == [phase |-> "none", target |-> None, key |-> None, ticked |-> None, client |-> FALSE,
           body |-> None, read |-> 0, cut |-> FALSE, result |-> None]

Fields == Targets \cup {Bad, None}
scanEnabled == config = "on"
Move == moves < MaxMoves /\ moves' = moves + 1

\* The effect of the page: the configuration is asked for, and may be asked for again.
ConfigArrives ==
  /\ config = "loading" /\ config' \in {"on", "off", "error"}
  /\ UNCHANGED <<field, confirmed, key, scanning, shown, scan, sent, moves, ticked>>

ConfigAgain ==
  /\ config = "error" /\ Move /\ config' = "loading"
  /\ UNCHANGED <<field, confirmed, key, scanning, shown, scan, sent, ticked>>

\* Mutant: what was confirmed and shown of the URL before stays.
onTargetUrlChangeOnly ==
  /\ scanEnabled /\ scanning = None /\ Move
  /\ field' \in Fields \ {field}
  /\ UNCHANGED <<config, confirmed, key, scanning, shown, scan, sent, ticked>>

\* Another URL has to be confirmed anew, and takes the result from the screen.
onTargetUrlChange ==
  /\ scanEnabled /\ scanning = None /\ Move
  /\ field' \in Fields \ {field}
  /\ confirmed' = FALSE /\ shown' = None /\ ticked' = None
  /\ UNCHANGED <<config, key, scanning, scan, sent>>

onAnthropicApiKeyChange ==
  /\ scanEnabled /\ scanning = None /\ Move /\ key' = moves'
  /\ UNCHANGED <<config, field, confirmed, scanning, shown, scan, sent, ticked>>

onAuthorizationChange ==
  /\ scanEnabled /\ scanning = None /\ Move
  /\ confirmed' = ~confirmed
  /\ ticked' = IF confirmed' THEN field ELSE None
  /\ UNCHANGED <<config, field, key, scanning, shown, scan, sent>>

\* validateTargetUrl
validateTargetUrl(url) == url \in Targets

\* The button of the form.
canSubmit == scanEnabled /\ field # None /\ confirmed /\ scanning = None

\* The request is sent with the key, which the page forgets.
requestSecurityScan ==
  /\ sent < MaxScans /\ sent' = sent + 1
  /\ scan' = [scan EXCEPT ![sent'] = [NoScan EXCEPT !.phase = "sent", !.target = field,
                                        !.key = key, !.ticked = ticked, !.client = TRUE]]

\* Mutant: the key stays in the page.
runScanKeepsKey ==
  /\ canSubmit /\ validateTargetUrl(field)
  /\ requestSecurityScan
  /\ scanning' = sent' /\ shown' = None
  /\ UNCHANGED <<config, field, confirmed, key, moves, ticked>>

runScan ==
  /\ canSubmit /\ validateTargetUrl(field)
  /\ requestSecurityScan
  /\ key' = None /\ scanning' = sent' /\ shown' = None
  /\ UNCHANGED <<config, field, confirmed, moves, ticked>>

Over == {"refused", "done"}

\* The server's answer arrives.  A result is taken if it is of the URL that was asked
\* about; otherwise the page shows an error.
Answered ==
  /\ scanning # None /\ scan[scanning].phase \in Over
  /\ LET s == scan[scanning]
     IN  shown' = IF s.phase = "done" /\ s.result.target = s.target THEN s.result ELSE None
  /\ scanning' = None
  /\ UNCHANGED <<config, field, confirmed, key, scan, sent, moves, ticked>>

\* The connection breaks, whatever the server is doing, and the page shows an error.  The
\* page has no deadline: nothing makes this happen.
Unreachable ==
  /\ scanning # None /\ scanning' = None
  /\ shown' = None /\ scan' = [scan EXCEPT ![scanning].client = FALSE]
  /\ UNCHANGED <<config, field, confirmed, key, sent, moves, ticked>>

\* Another tab of the application is opened and this one comes back empty; its request
\* goes on.  If the window is closed, the server sees the connection close.
Leave ==
  /\ config # "loading" /\ Move
  /\ config' = "loading" /\ field' = None /\ confirmed' = FALSE /\ key' = None
  /\ scanning' = None /\ shown' = None /\ ticked' = None
  /\ \/ UNCHANGED scan
     \/ scan' = [n \in Scans |-> [scan[n] EXCEPT !.client = FALSE]]
  /\ UNCHANGED sent

-----------------------------------------------------------------------------
(* The server *)

InScan == {n \in Scans : scan[n].phase \in {"dns", "probe", "body"}}
InSummary == {n \in Scans : scan[n].phase = "summary"}

\* Every other variable than scan is left alone by the server.
Becomes(n, s) == scan' = [scan EXCEPT ![n] = s] /\ UNCHANGED <<page, sent, moves, ticked>>

\* normalizeSecurityScanTarget: the server may refuse a URL the page takes.
Disallow(n) == scan[n].phase = "sent" /\ Becomes(n, [scan[n] EXCEPT !.phase = "refused"])

\* runSecurityScan refuses a scan: checks are off, the origin is not approved, too many
\* of them, or another is on.
Refuse(n) == scan[n].phase = "sent" /\ Becomes(n, [scan[n] EXCEPT !.phase = "refused"])

\* It takes a place at the gate.
Admit(n) ==
  /\ scan[n].phase = "sent" /\ Cardinality(InScan) < ScanLimit
  /\ Becomes(n, [scan[n] EXCEPT !.phase = "dns"])

\* The name has public addresses only.
Resolve(n) == scan[n].phase = "dns" /\ Becomes(n, [scan[n] EXCEPT !.phase = "probe"])

\* It has an address that is not public.
NotPublic(n) == scan[n].phase = "dns" /\ Becomes(n, [scan[n] EXCEPT !.phase = "refused"])

\* The deadline of the lookup is over.
LookupLate(n) == scan[n].phase = "dns" /\ Becomes(n, [scan[n] EXCEPT !.phase = "refused"])

\* What was read is let go.
WithoutBody(s) == [s EXCEPT !.body = None, !.read = 0, !.cut = FALSE]

Abandon(n) == Becomes(n, [WithoutBody(scan[n]) EXCEPT !.phase = "refused"])

\* The connection to the target fails or breaks.
Fail(n) == scan[n].phase \in {"probe", "body"} /\ Abandon(n)

\* Mutant: the deadline of the probe ends when the response begins.
ProbeLateForHeaders(n) == scan[n].phase = "probe" /\ Abandon(n)

\* The deadline of the probe is over, which covers the reading of the body.
ProbeLate(n) == scan[n].phase \in {"probe", "body"} /\ Abandon(n)

\* The result goes to the client or, with a key, to the AI first, if the client is
\* there and the AI's gate has a place.
Finish(n, s, weak) ==
  LET result == ResultOf(s, weak)
      wanted == s.key # None /\ s.client
      busy == Cardinality(InSummary) >= AiLimit
  IN  Becomes(n, [WithoutBody(s) EXCEPT
        !.phase = IF wanted /\ ~busy THEN "summary" ELSE "done",
        !.result = IF wanted /\ busy THEN [result EXCEPT !.ai = "busy"] ELSE result])

\* The response is not an HTML page as such: a redirection, another type, compressed.
ProbeWithoutSource(n) ==
  scan[n].phase = "probe" /\ \E weak \in WeakHeaders : Finish(n, scan[n], weak)

\* It is one, and may say its length.
ProbePage(n) ==
  /\ scan[n].phase = "probe"
  /\ \E length \in 0..MaxBody, says \in BOOLEAN : \E signal \in {FALSE, length > 0} :
       Becomes(n, [scan[n] EXCEPT !.phase = "body", !.body = [length |-> length, signal |-> signal],
                     !.cut = says /\ length > BodyLimit])

\* Mutant: a body is taken to end where the limit is reached.
CollectToTheLimit(s, chunk) ==
  LET read == IF s.read + chunk > BodyLimit THEN BodyLimit ELSE s.read + chunk
  IN  [s EXCEPT !.read = read, !.phase = IF read = BodyLimit THEN "read" ELSE "body"]

\* collectBoundedUtf8Body takes a chunk: more than there is room for ends the reading.
Collect(s, chunk) ==
  IF s.read + chunk > BodyLimit
  THEN [s EXCEPT !.read = BodyLimit, !.cut = TRUE, !.phase = "read"]
  ELSE [s EXCEPT !.read = @ + chunk,
                 !.phase = IF s.read + chunk = BodyLimit /\ s.cut THEN "read" ELSE "body"]

\* The next chunk, or the end of the body.
Read(n) ==
  /\ scan[n].phase = "body"
  /\ LET s == scan[n]
         left == s.body.length - s.read
     IN  \/ \E chunk \in 1..left :
              LET t == Collect(s, chunk)
              IN  IF t.phase = "body" THEN Becomes(n, t)
                  ELSE \E weak \in WeakHeaders : Finish(n, t, weak)
         \/ left = 0 /\ \E weak \in WeakHeaders : Finish(n, s, weak)

\* The AI answers, or fails; a client that goes away stops it.
Summarize(n) ==
  /\ scan[n].phase = "summary"
  /\ \E taken \in {FALSE, scan[n].client} :
       Becomes(n, [scan[n] EXCEPT !.phase = "done", !.result = applySecurityScanSummary(@, taken)])

\* The timeout of the call is over.
SummaryLate(n) ==
  /\ scan[n].phase = "summary"
  /\ Becomes(n, [scan[n] EXCEPT !.phase = "done", !.result = applySecurityScanSummary(@, FALSE)])

-----------------------------------------------------------------------------

Init ==
  /\ config = "loading" /\ field = None /\ confirmed = FALSE /\ key = None
  /\ scanning = None /\ shown = None
  /\ scan = [n \in Scans |-> NoScan] /\ sent = 0 /\ moves = 0 /\ ticked = None

\* What comes without anybody's answer: the handler of a request that arrived, which waits
\* for no gate, and the deadlines.
Due(n) ==
  \/ Disallow(n) \/ Refuse(n) \/ Admit(n)
  \/ LookupLate(n) \/ ProbeLate(n) \/ SummaryLate(n)

\* What name servers, the target and the AI do, who may never answer.
Heard(n) ==
  \/ Resolve(n) \/ NotPublic(n) \/ Fail(n)
  \/ ProbeWithoutSource(n) \/ ProbePage(n) \/ Read(n) \/ Summarize(n)

Serve(n) == Due(n) \/ Heard(n)

Next ==
  \/ ConfigArrives \/ ConfigAgain
  \/ onTargetUrlChange \/ onAnthropicApiKeyChange \/ onAuthorizationChange
  \/ runScan \/ Answered \/ Unreachable \/ Leave
  \/ \E n \in Scans : Serve(n)

Spec == Init /\ [][Next]_vars

\* A request reaches the server and is handled, its timers fire, and an answer that the
\* server gave reaches the page.  Nobody else is obliged to answer or to fail.
Fairness == (\A n \in Scans : WF_vars(Due(n))) /\ WF_vars(Answered)

FairSpec == Spec /\ Fairness

-----------------------------------------------------------------------------
(* Properties *)

Results == [target : Targets, active : SUBSET Checks, risk : {"high", "medium", "low", "minimal"},
            analyzed : BOOLEAN, cut : BOOLEAN,
            signal : BOOLEAN, ai : {"not_requested", "used", "failed", "busy"}]

TypeOK ==
  /\ config \in {"loading", "on", "off", "error"} /\ field \in Fields
  /\ confirmed \in BOOLEAN /\ key \in 1..MaxMoves \cup {None}
  /\ scanning \in Scans \cup {None} /\ shown \in Results \cup {None}
  /\ sent \in 0..MaxScans /\ moves \in 0..MaxMoves /\ ticked \in Fields
  /\ \A n \in Scans :
       /\ scan[n].phase \in {"none", "sent", "dns", "probe", "body", "summary"} \cup Over
       /\ scan[n].read \in 0..BodyLimit /\ scan[n].result \in Results \cup {None}

\* The result on the screen is of the URL in the field, whatever was asked for before
\* and whenever its answer arrives.
ShownIsOfField == shown # None => shown.target = field /\ scanning = None

\* A scan is asked for only after the very URL it is of was confirmed, and a key that
\* was typed once goes out with one request only.
SentAsMeant ==
  \A n \in 1..sent :
    /\ scan[n].target = scan[n].ticked
    /\ \A m \in 1..sent \ {n} : scan[n].key = scan[m].key => scan[n].key = None

\* If the screen says that the whole source was checked, there is no signal in it but
\* the one that is listed.
CoverageIsTrue ==
  \A n \in Scans :
    LET result == scan[n].result
    IN  result # None /\ sourceCoverageMessage(result) = "whole" =>
          (result.signal <=> "source" \in result.active)

\* The page, which has no deadline of its own, does not wait for ever even if the name
\* servers, the target or the AI never answer: the server ends every wait for them.
ScanEnds == scanning # None ~> scanning = None

=============================================================================
