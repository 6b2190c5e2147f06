------------------------------ MODULE Admission ------------------------------
(***************************************************************************)
(* The three HTTP handlers that work long enough to be limited: issuing a  *)
(* badge, an administrator's login and a security scan (src/app.ts).  Each *)
(* asks a rate limiter and then a ConcurrencyGate, in one synchronous      *)
(* step, and gives its place at the gate back in a finally block.          *)
(*                                                                         *)
(* A scan gives its place back twice: once when the probing is done, so    *)
(* that the next scan can start while an AI summary is written, and again  *)
(* when the handler ends.  The closure that tryAcquire returned lets only  *)
(* the first of the two count.                                             *)
(***************************************************************************)
EXTENDS FixedWindow, FiniteSets

CONSTANTS
  IssueCalls, LoginCalls, ScanCalls,  \* requests, by handler
  Clients, Accounts,                  \* keys of the limiters
  GateLimit,     \* GateLimit[g]: the limit of gate g
  IssueOptions, LoginIpOptions, LoginAccountOptions, ScanOptions,
  MaxTime        \* bound: when the clock stops

Gates == {"issue", "login", "scan", "ai"}
Calls == IssueCalls \cup LoginCalls \cup ScanCalls

ASSUME GateLimitAssumption == GateLimit \in [Gates -> Nat \ {0}]
ASSUME AccountOptionsAssumption ==
  LoginAccountOptions \in [limit : Nat \ {0}, window : Nat \ {0}, maxKeys : Nat \ {0}]

VARIABLES
  now,           \* the clock
  issueEntries, ipEntries, accountEntries, scanEntries,  \* the limiters
  active,        \* active[g]: the counter #active of gate g
  closures,      \* closures[c]: the gates whose release() call c holds and
                 \* has not called yet (released = false)
  phase,         \* phase[c]: the await call c is suspended at
  client,        \* client[c]: the IP it comes from
  account,       \* account[c]: the account a login is for
  gone,          \* the scans whose client closed the connection
  answer,        \* answer[c]: what c was answered
  attempts       \* history: attempts[a]: <<call, time>> of the password checks
                 \* of account a since it last logged in

limiters == <<issueEntries, ipEntries, accountEntries, scanEntries>>
gateVars == <<active, closures>>
vars == <<now, issueEntries, ipEntries, accountEntries, scanEntries, active,
          closures, phase, client, account, gone, answer, attempts>>

-----------------------------------------------------------------------------
(* ConcurrencyGate *)

Free(g) == active[g] < GateLimit[g]

\* tryAcquire.
Acquire(c, g) ==
  /\ active' = [active EXCEPT ![g] = @ + 1]
  /\ closures' = [closures EXCEPT ![c] = @ \cup {g}]

\* Mutant: release() counts every time it is called.
ReleaseAgain(c, gs) ==
  /\ active' = [g \in Gates |-> IF g \in gs THEN active[g] - 1 ELSE active[g]]
  /\ closures' = [closures EXCEPT ![c] = @ \ gs]

\* c calls the release() of the gates gs; one that was called does nothing.
Release(c, gs) ==
  /\ active' = [g \in Gates |-> IF g \in gs \cap closures[c] THEN active[g] - 1
                                                            ELSE active[g]]
  /\ closures' = [closures EXCEPT ![c] = @ \ gs]

Goto(c, p) == phase' = [phase EXCEPT ![c] = p]

End(c, result) ==
  /\ Goto(c, "done")
  /\ answer' = [answer EXCEPT ![c] = result]

\* rateLimited: 429, before anything is acquired.
TooMany(c) ==
  /\ End(c, "429")
  /\ UNCHANGED gateVars

-----------------------------------------------------------------------------
(* POST /api/badges/issue *)

Issue(c, ip) ==
  LET admission == Consume(issueEntries, ip, now, IssueOptions)
  IN /\ phase[c] = "idle"
     /\ issueEntries' = admission.entries
     /\ client' = [client EXCEPT ![c] = ip]
     /\ IF admission.allowed /\ Free("issue")
        THEN Acquire(c, "issue") /\ Goto(c, "issuing") /\ UNCHANGED answer
        ELSE TooMany(c)
     /\ UNCHANGED <<now, ipEntries, accountEntries, scanEntries, account, gone,
                  attempts>>

\* issue() answers with a badge, which is verified next.
Issued(c) ==
  /\ phase[c] = "issuing"
  /\ Goto(c, "verifying")
  /\ UNCHANGED <<now, limiters, gateVars, client, account, gone, answer, attempts>>

\* issue() answers NOT_ISSUED or throws, or the badge is verified: finally.
IssueEnds(c) ==
  /\ phase[c] \in {"issuing", "verifying"}
  /\ \E result \in {"200", "error"} : End(c, result)
  /\ Release(c, {"issue"})
  /\ UNCHANGED <<now, limiters, client, account, gone, attempts>>

-----------------------------------------------------------------------------
(* POST /api/admin/session *)

\* Mutant: only the limiter of the client is asked.
LoginByIp(c, ip, name) ==
  LET byIp == Consume(ipEntries, ip, now, LoginIpOptions)
  IN /\ phase[c] = "idle"
     /\ ipEntries' = byIp.entries
     /\ client' = [client EXCEPT ![c] = ip]
     /\ account' = [account EXCEPT ![c] = name]
     /\ IF byIp.allowed /\ Free("login")
        THEN /\ Acquire(c, "login")
             /\ Goto(c, "authenticating")
             /\ attempts' = [attempts EXCEPT ![name] = @ \cup {<<c, now>>}]
             /\ UNCHANGED answer
        ELSE TooMany(c) /\ UNCHANGED attempts
     /\ UNCHANGED <<now, issueEntries, accountEntries, scanEntries, gone>>

\* Both limiters are asked, also when the first refuses.
Login(c, ip, name) ==
  LET byIp == Consume(ipEntries, ip, now, LoginIpOptions)
      byAccount == Consume(accountEntries, name, now, LoginAccountOptions)
  IN /\ phase[c] = "idle"
     /\ ipEntries' = byIp.entries
     /\ accountEntries' = byAccount.entries
     /\ client' = [client EXCEPT ![c] = ip]
     /\ account' = [account EXCEPT ![c] = name]
     /\ IF byIp.allowed /\ byAccount.allowed /\ Free("login")
        THEN /\ Acquire(c, "login")
             /\ Goto(c, "authenticating")
             /\ attempts' = [attempts EXCEPT ![name] = @ \cup {<<c, now>>}]
             /\ UNCHANGED answer
        ELSE TooMany(c) /\ UNCHANGED attempts
     /\ UNCHANGED <<now, issueEntries, scanEntries, gone>>

\* The password is right: the client and the account start afresh.
Authenticated(c) ==
  /\ phase[c] = "authenticating"
  /\ Release(c, {"login"})
  /\ ipEntries' = Reset(ipEntries, client[c])
  /\ accountEntries' = Reset(accountEntries, account[c])
  /\ attempts' = [attempts EXCEPT ![account[c]] = {}]
  /\ End(c, "200")
  /\ UNCHANGED <<now, issueEntries, scanEntries, client, account, gone>>

\* The password is wrong, or scrypt throws.
NotAuthenticated(c) ==
  /\ phase[c] = "authenticating"
  /\ Release(c, {"login"})
  /\ End(c, "error")
  /\ UNCHANGED <<now, limiters, client, account, gone, attempts>>

-----------------------------------------------------------------------------
(* POST /api/security-scan *)

Scan(c, ip) ==
  LET admission == Consume(scanEntries, ip, now, ScanOptions)
  IN /\ phase[c] = "idle"
     /\ scanEntries' = admission.entries
     /\ client' = [client EXCEPT ![c] = ip]
     /\ IF admission.allowed /\ Free("scan")
        THEN Acquire(c, "scan") /\ Goto(c, "scanning") /\ UNCHANGED answer
        ELSE TooMany(c)
     /\ UNCHANGED <<now, issueEntries, ipEntries, accountEntries, account, gone,
                  attempts>>

\* The client closes the connection; the handler only notes it.
ClientGone(c) ==
  /\ phase[c] \in {"scanning", "summarizing"}
  /\ gone' = gone \cup {c}
  /\ UNCHANGED <<now, limiters, gateVars, phase, client, account, answer, attempts>>

\* The probing is done and its place given back; the request has an API key,
\* its client is still there, and there is a place for an AI summary.
Summarize(c) ==
  /\ phase[c] = "scanning"
  /\ c \notin gone
  /\ Free("ai")
  /\ active' = [active EXCEPT !["scan"] = @ - 1, !["ai"] = @ + 1]
  /\ closures' = [closures EXCEPT ![c] = {"ai"}]
  /\ Goto(c, "summarizing")
  /\ UNCHANGED <<now, limiters, client, account, gone, answer, attempts>>

\* The scan ends without a summary: it failed, no key, the client is gone, or
\* another summary is being written.  release() is called twice.
ScanEnds(c) ==
  /\ phase[c] = "scanning"
  /\ Release(c, {"scan"})
  /\ \E result \in {"200", "error"} :
       End(c, IF c \in gone THEN "none" ELSE result)
  /\ UNCHANGED <<now, limiters, client, account, gone, attempts>>

\* The summary is written, or fails, or the client's leaving aborts it.  The
\* two finally blocks call both release()s, that of the scan a second time.
SummaryEnds(c) ==
  /\ phase[c] = "summarizing"
  /\ Release(c, {"ai", "scan"})
  /\ End(c, IF c \in gone THEN "none" ELSE "200")
  /\ UNCHANGED <<now, limiters, client, account, gone, attempts>>

-----------------------------------------------------------------------------
Tick ==
  /\ now < MaxTime
  /\ now' = now + 1
  /\ UNCHANGED <<limiters, gateVars, phase, client, account, gone, answer, attempts>>

Init ==
  /\ now = 0
  /\ issueEntries = <<>> /\ ipEntries = <<>>
  /\ accountEntries = <<>> /\ scanEntries = <<>>
  /\ active = [g \in Gates |-> 0]
  /\ closures = [c \in Calls |-> {}]
  /\ phase = [c \in Calls |-> "idle"]
  /\ client = [c \in Calls |-> "nobody"]
  /\ account = [c \in Calls |-> "nobody"]
  /\ gone = {}
  /\ answer = [c \in Calls |-> "none"]
  /\ attempts = [a \in Accounts |-> {}]

Next ==
  \/ Tick
  \/ \E c \in IssueCalls :
       \/ \E ip \in Clients : Issue(c, ip)
       \/ Issued(c) \/ IssueEnds(c)
  \/ \E c \in LoginCalls :
       \/ \E ip \in Clients, name \in Accounts : Login(c, ip, name)
       \/ Authenticated(c) \/ NotAuthenticated(c)
  \/ \E c \in ScanCalls :
       \/ \E ip \in Clients : Scan(c, ip)
       \/ ClientGone(c) \/ Summarize(c) \/ ScanEnds(c) \/ SummaryEnds(c)

Spec == Init /\ [][Next]_vars

-----------------------------------------------------------------------------
(* Correctness *)

\* The phases in which a call does the work that gate g limits.
Inside(g) == CASE g = "issue" -> {"issuing", "verifying"}
               [] g = "login" -> {"authenticating"}
               [] g = "scan" -> {"scanning"}
               [] g = "ai" -> {"summarizing"}
Working(g) == {c \in Calls : phase[c] \in Inside(g)}

TypeOK ==
  /\ now \in Nat
  /\ active \in [Gates -> Nat]
  /\ closures \in [Calls -> SUBSET Gates]
  /\ phase \in [Calls -> {"idle", "done"} \cup UNION {Inside(g) : g \in Gates}]
  /\ client \in [Calls -> Clients \cup {"nobody"}]
  /\ account \in [Calls -> Accounts \cup {"nobody"}]
  /\ gone \subseteq ScanCalls
  /\ answer \in [Calls -> {"none", "200", "429", "error"}]

\* A gate counts the calls that do its work and nothing else: no place is lost
\* when a call ends, however it ends, and the second release() of a scan does
\* not give away the place of the scan that runs meanwhile.
GateIsExact ==
  \A g \in Gates :
    /\ active[g] = Cardinality(Working(g))
    /\ active[g] <= GateLimit[g]

\* From whichever clients they come, and however many run at a time, an account
\* that does not log in has less than twice its limit of passwords checked in
\* any span as long as a window, while no more accounts are named than the
\* limiter can remember.
ChecksBounded ==
  IsFiniteSet(Accounts) /\ Cardinality(Accounts) <= LoginAccountOptions.maxKeys =>
    \A a \in Accounts :
      Cardinality({t \in attempts[a] : t[2] + LoginAccountOptions.window > now})
        <= 2 * LoginAccountOptions.limit - 1

=============================================================================
