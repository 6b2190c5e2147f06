----------------------------- MODULE BadgeIssue -----------------------------
(***************************************************************************)
(* Badge issuance: BadgeIssueService.issue running in several server       *)
(* processes against one PostgreSQL database.                              *)
(*                                                                         *)
(* A call reads the active policy, pins it, and either joins the flight    *)
(* already running in its process for the same key or starts one.  A       *)
(* flight resolves the repository, looks for a badge of the subject,       *)
(* analyses the commit, and then saves a rejected analysis or signs a      *)
(* badge and saves it.  Every await of the code ends one action and starts *)
(* another, so everything may happen in between: other calls in the same   *)
(* process, calls in other processes, a new policy, a renamed repository,  *)
(* a crash.                                                                *)
(*                                                                         *)
(* Abstractions.  A subject is a revision (repository and commit) under a  *)
(* policy: policyHash covers the policy id and the ruleset version.  A     *)
(* signature has a fresh random salt, so the uid of a badge is named by    *)
(* the call that signed it.  A target stands for a normalised repository   *)
(* URL and a commit; GitHub decides which revision it names, and may       *)
(* change its mind.                                                        *)
(***************************************************************************)
EXTENDS Naturals, FiniteSets

CONSTANTS
  Requests,   \* calls of issue(); a client that retries makes another call
  Instances,  \* server processes sharing the database
  Targets,    \* normalised repository URL and commit, as the caller gives it
  Revisions,  \* repositoryId and commit, as GitHub answers
  Policies,   \* policies, by policyHash
  None,       \* "absent"
  MaxMoves,   \* bound: how often GitHub renames a repository
  MaxCrashes  \* bound: how often a server process dies

ASSUME NoneIsFresh ==
  None \notin Requests \cup Instances \cup Targets \cup Revisions \cup Policies

VARIABLES
  active, published,   \* the policies, as PolicyLifecycle maintains them
  names,      \* names[t]: the revision GitHub resolves target t to
  everNamed,  \* history: every revision t was resolved to so far
  crashes,    \* how often a process died
  phase,      \* phase[r]: the await call r is suspended at
  at,         \* at[r]: the process that runs r
  target,     \* target[r]: what r asks a badge for
  pinned,     \* pinned[r]: the policy r pinned
  flight,     \* flight[r]: the call whose promise r returns, r if it leads
  inFlight,   \* inFlight[i]: the map #inFlight of process i
  revision,   \* revision[r]: what GitHub last resolved r's target to
  tx,         \* tx[r]: r's saveIssuedBadge transaction, in the database
  analyses,   \* committed rows of certification_analyses
  badges,     \* committed rows of certification_badges
  reply       \* reply[r]: what r's caller was told

environment == <<active, published, names, everNamed, crashes>>
call == <<at, target>>
database == <<analyses, badges>>
vars == <<active, published, names, everNamed, crashes, phase, at, target,
          pinned, flight, inFlight, revision, tx, analyses, badges, reply>>

Policy == INSTANCE ActivePolicy

-----------------------------------------------------------------------------
(* Types *)

Subjects == Revisions \X Policies
Keys == Targets \X Policies
Badge == [uid : Requests, subject : Subjects]
NoBadge == [uid |-> None, subject |-> None]
Analysis == [by : Requests, subject : Subjects, decision : {"PASS", "FAIL"}]

EarlyPhases == {"policy", "criteria"}
FlightPhases == {"resolve", "lookup", "analyze", "reject", "rejected", "sign",
                 "insert", "commit", "conflict", "reload"}
Phases == {"idle", "joined", "done"} \cup EarlyPhases \cup FlightPhases

Reply == [outcome : {"none", "issued", "notIssued", "failed", "lost"},
          existing : BOOLEAN,
          badge : Badge \cup {NoBadge}]

Ended(outcome) == [outcome |-> outcome, existing |-> FALSE, badge |-> NoBadge]
NoReply == Ended("none")
NotIssued == Ended("notIssued")
Failed == Ended("failed")
Lost == Ended("lost")
IssuedReply(b, existing) ==
  [outcome |-> "issued", existing |-> existing, badge |-> b]

TypeOK ==
  /\ active \in Policies \cup {None}
  /\ published \subseteq Policies
  /\ names \in [Targets -> Revisions]
  /\ everNamed \in [Targets -> SUBSET Revisions]
  /\ crashes \in Nat
  /\ phase \in [Requests -> Phases]
  /\ at \in [Requests -> Instances \cup {None}]
  /\ target \in [Requests -> Targets \cup {None}]
  /\ pinned \in [Requests -> Policies \cup {None}]
  /\ flight \in [Requests -> Requests \cup {None}]
  /\ inFlight \in [Instances -> [Keys -> Requests \cup {None}]]
  /\ revision \in [Requests -> Revisions \cup {None}]
  /\ tx \in [Requests -> {"none", "open", "committed", "aborted"}]
  /\ analyses \subseteq Analysis
  /\ badges \subseteq Badge
  /\ reply \in [Requests -> Reply]

-----------------------------------------------------------------------------
(* Operators of the service and of the repository *)

\* Mutant: the key leaves the pinned policy out.
KeyWithoutPolicy(r) == <<target[r], CHOOSE p \in Policies : TRUE>>

\* The key of #inFlight: normalised URL, commit and pinned policyHash.
Key(r) == <<target[r], pinned[r]>>

\* The subject of r's lookup and, once analysed, of r's report.
Subject(r) == <<revision[r], pinned[r]>>
SignedBadge(r) == [uid |-> r, subject |-> Subject(r)]

\* getBadgeBySubject: the committed badge of r's subject.
Stored(r) == {b \in badges : b.subject = Subject(r)}

\* The unique index makes an INSERT wait for a transaction that has inserted
\* the same subject and has neither committed nor rolled back.
MustWait(r) == \E q \in Requests : tx[q] = "open" /\ Subject(q) = Subject(r)

\* Mutant: there is no unique constraint on the subject.
NeverViolates(r) == FALSE

\* certification_badges_issuance_uq: the INSERT fails with 23505.
Violates(r) == Stored(r) # {}

\* Mutant: the promise is not shared with the calls that joined.
OnlyLeader(r) == {r}

\* The calls waiting for the promise of r's flight, r among them.
Waiting(r) == {q \in Requests : flight[q] = r /\ phase[q] # "done"}

\* Mutant: the key is never deleted.
KeyKept(r) == inFlight

\* promise.finally: the flight's key leaves #inFlight.
KeyDeleted(r) == [inFlight EXCEPT ![at[r]] = [@ EXCEPT ![Key(r)] = None]]

\* The promise of r's flight settles: its finally runs and every call that
\* returned the promise answers its caller with the same result.
Settle(r, result) ==
  /\ reply' = [q \in Requests |-> IF q \in Waiting(r) THEN result ELSE reply[q]]
  /\ phase' = [q \in Requests |-> IF q \in Waiting(r) THEN "done" ELSE phase[q]]
  /\ inFlight' = KeyDeleted(r)

Goto(r, p) == phase' = [phase EXCEPT ![r] = p]

-----------------------------------------------------------------------------
(* The environment *)

\* An administrator publishes a policy.
Publish(p) ==
  /\ Policy!Publish(p)
  /\ UNCHANGED <<names, everNamed, crashes, phase, at, target, pinned, flight,
                 inFlight, revision, tx, database, reply>>

\* GitHub renames or replaces a repository: t names another revision.
Rename(t, v) ==
  /\ v \notin everNamed[t]
  /\ Cardinality({n \in Targets \X Revisions : n[2] \in everNamed[n[1]]})
       < Cardinality(Targets) + MaxMoves
  /\ names' = [names EXCEPT ![t] = v]
  /\ everNamed' = [everNamed EXCEPT ![t] = @ \cup {v}]
  /\ UNCHANGED <<active, published, crashes, phase, at, target, pinned, flight,
                 inFlight, revision, tx, database, reply>>

\* A process dies: its calls are cut off and its map is gone.  A transaction
\* whose COMMIT was on its way stays open in the database.
Crash(i) ==
  LET cut == {r \in Requests : at[r] = i /\ phase[r] # "done"}
  IN /\ crashes < MaxCrashes
     /\ cut # {}
     /\ crashes' = crashes + 1
     /\ phase' = [r \in Requests |-> IF r \in cut THEN "done" ELSE phase[r]]
     /\ reply' = [r \in Requests |-> IF r \in cut THEN Lost ELSE reply[r]]
     /\ inFlight' = [inFlight EXCEPT ![i] = [k \in Keys |-> None]]
     /\ UNCHANGED <<active, published, names, everNamed, at, target, pinned,
                    flight, revision, tx, database>>

\* The database carries out the COMMIT of r, whether or not the process that
\* sent it still waits for the answer.
CommitApplied(r) ==
  /\ tx[r] = "open"
  /\ tx' = [tx EXCEPT ![r] = "committed"]
  /\ badges' = badges \cup {SignedBadge(r)}
  /\ analyses' = analyses \cup
       {[by |-> r, subject |-> Subject(r), decision |-> "PASS"]}
  /\ UNCHANGED <<environment, phase, call, pinned, flight, inFlight, revision,
                 reply>>

\* The database ends the transaction of r without committing it: the
\* connection broke, or the database restarted, before the COMMIT arrived.
CommitDropped(r) ==
  /\ tx[r] = "open"
  /\ tx' = [tx EXCEPT ![r] = "aborted"]
  /\ UNCHANGED <<environment, phase, call, pinned, flight, inFlight, revision,
                 database, reply>>

-----------------------------------------------------------------------------
(* issue(): before there is a flight *)

\* POST /api/badges/issue reaches process i and calls issue().
Call(r, i, t) ==
  /\ phase[r] = "idle"
  /\ Goto(r, "policy")
  /\ at' = [at EXCEPT ![r] = i]
  /\ target' = [target EXCEPT ![r] = t]
  /\ UNCHANGED <<environment, pinned, flight, inFlight, revision, tx, database,
                 reply>>

\* getActivePolicy answers with a policy, which r pins.
PinPolicy(r) ==
  /\ phase[r] = "policy"
  /\ active # None
  /\ pinned' = [pinned EXCEPT ![r] = active]
  /\ Goto(r, "criteria")
  /\ UNCHANGED <<environment, call, flight, inFlight, revision, tx, database,
                 reply>>

\* getActivePolicy answers null: issue() throws NoActivePolicyError.
NoActivePolicy(r) ==
  /\ phase[r] = "policy"
  /\ active = None
  /\ Goto(r, "done")
  /\ reply' = [reply EXCEPT ![r] = Failed]
  /\ UNCHANGED <<environment, call, pinned, flight, inFlight, revision, tx,
                 database>>

\* The criteria of the database no longer fit the policy, or one of the two
\* queries fails: issue() throws.
FailEarly(r) ==
  /\ phase[r] \in EarlyPhases
  /\ Goto(r, "done")
  /\ reply' = [reply EXCEPT ![r] = Failed]
  /\ UNCHANGED <<environment, call, pinned, flight, inFlight, revision, tx,
                 database>>

\* The criteria fit and #inFlight has the key: r returns that promise.
Join(r) ==
  /\ phase[r] = "criteria"
  /\ inFlight[at[r]][Key(r)] # None
  /\ flight' = [flight EXCEPT ![r] = inFlight[at[r]][Key(r)]]
  /\ Goto(r, "joined")
  /\ UNCHANGED <<environment, call, pinned, inFlight, revision, tx, database,
                 reply>>

\* The criteria fit and #inFlight does not have the key: r starts a flight.
Lead(r) ==
  /\ phase[r] = "criteria"
  /\ inFlight[at[r]][Key(r)] = None
  /\ flight' = [flight EXCEPT ![r] = r]
  /\ inFlight' = [inFlight EXCEPT ![at[r]] = [@ EXCEPT ![Key(r)] = r]]
  /\ Goto(r, "resolve")
  /\ UNCHANGED <<environment, call, pinned, revision, tx, database, reply>>

-----------------------------------------------------------------------------
(* #issueWithPinnedPolicy: the flight *)

\* resolveRepository answers.
Resolve(r) ==
  /\ phase[r] = "resolve"
  /\ revision' = [revision EXCEPT ![r] = names[target[r]]]
  /\ Goto(r, "lookup")
  /\ UNCHANGED <<environment, call, pinned, flight, inFlight, tx, database,
                 reply>>

\* getBadgeBySubject finds a badge: the flight answers with it.
FindExisting(r) ==
  /\ phase[r] = "lookup"
  /\ \E b \in Stored(r) : Settle(r, IssuedReply(b, TRUE))
  /\ UNCHANGED <<environment, call, pinned, flight, revision, tx, database>>

\* getBadgeBySubject finds none: the commit is analysed.
FindNone(r) ==
  /\ phase[r] = "lookup"
  /\ Stored(r) = {}
  /\ Goto(r, "analyze")
  /\ UNCHANGED <<environment, call, pinned, flight, inFlight, revision, tx,
                 database, reply>>

\* analyze answers.  collect resolves the repository again, and its answer is
\* the revision the report, the payload and the badge name.
Analyze(r) ==
  /\ phase[r] = "analyze"
  /\ revision' = [revision EXCEPT ![r] = names[target[r]]]
  /\ \E next \in {"reject", "sign"} : Goto(r, next)
  /\ UNCHANGED <<environment, call, pinned, flight, inFlight, tx, database,
                 reply>>

\* saveRejectedAnalysis commits the FAIL analysis ...
RecordRejection(r) ==
  /\ phase[r] = "reject"
  /\ analyses' = analyses \cup
       {[by |-> r, subject |-> Subject(r), decision |-> "FAIL"]}
  /\ Goto(r, "rejected")
  /\ UNCHANGED <<environment, call, pinned, flight, inFlight, revision, tx,
                 badges, reply>>

\* ... and the flight answers NOT_ISSUED.
AnswerNotIssued(r) ==
  /\ phase[r] = "rejected"
  /\ Settle(r, NotIssued)
  /\ UNCHANGED <<environment, call, pinned, flight, revision, tx, database>>

\* The signer answers: the badge exists, under a fresh uid, but only here.
Sign(r) ==
  /\ phase[r] = "sign"
  /\ Goto(r, "insert")
  /\ UNCHANGED <<environment, call, pinned, flight, inFlight, revision, tx,
                 database, reply>>

\* Mutant: the analysis is inserted outside the badge's transaction.
InsertAnalysisFirst(r) ==
  /\ phase[r] = "insert"
  /\ ~MustWait(r)
  /\ ~Violates(r)
  /\ tx' = [tx EXCEPT ![r] = "open"]
  /\ analyses' = analyses \cup
       {[by |-> r, subject |-> Subject(r), decision |-> "PASS"]}
  /\ Goto(r, "commit")
  /\ UNCHANGED <<environment, call, pinned, flight, inFlight, revision,
                 badges, reply>>

\* saveIssuedBadge: the INSERTs of the analysis and the badge succeed in r's
\* transaction, and its COMMIT is sent.
Insert(r) ==
  /\ phase[r] = "insert"
  /\ ~MustWait(r)
  /\ ~Violates(r)
  /\ tx' = [tx EXCEPT ![r] = "open"]
  /\ Goto(r, "commit")
  /\ UNCHANGED <<environment, call, pinned, flight, inFlight, revision,
                 database, reply>>

\* saveIssuedBadge: the INSERT of the badge fails with 23505, and the
\* transaction, its analysis included, is rolled back.
InsertConflicts(r) ==
  /\ phase[r] = "insert"
  /\ ~MustWait(r)
  /\ Violates(r)
  /\ tx' = [tx EXCEPT ![r] = "aborted"]
  /\ Goto(r, "conflict")
  /\ UNCHANGED <<environment, call, pinned, flight, inFlight, revision,
                 database, reply>>

\* Mutant: the loser answers with the badge it signed.
AnswerOwnBadge(r) ==
  /\ phase[r] = "conflict"
  /\ Settle(r, IssuedReply(SignedBadge(r), TRUE))
  /\ UNCHANGED <<environment, call, pinned, flight, revision, tx, database>>

\* Mutant: the loser reports the winner's badge as its own.
AnswerCreated(r) ==
  /\ phase[r] = "conflict"
  /\ \E b \in Stored(r) : Settle(r, IssuedReply(b, FALSE))
  /\ UNCHANGED <<environment, call, pinned, flight, revision, tx, database>>

\* After the 23505, getBadgeBySubject loads the badge that was first.
AnswerWinner(r) ==
  /\ phase[r] = "conflict"
  /\ \E b \in Stored(r) : Settle(r, IssuedReply(b, TRUE))
  /\ UNCHANGED <<environment, call, pinned, flight, revision, tx, database>>

\* The COMMIT is acknowledged.
CommitAcknowledged(r) ==
  /\ phase[r] = "commit"
  /\ tx[r] = "committed"
  /\ Goto(r, "reload")
  /\ UNCHANGED <<environment, call, pinned, flight, inFlight, revision, tx,
                 database, reply>>

\* getBadge loads the badge that was just stored.
AnswerIssued(r) ==
  /\ phase[r] = "reload"
  /\ \E b \in badges : b.uid = r /\ Settle(r, IssuedReply(b, FALSE))
  /\ UNCHANGED <<environment, call, pinned, flight, revision, tx, database>>

\* The transaction ended without the COMMIT taking effect: withTransaction
\* rethrows, and the flight's promise rejects for every call that shares it.
CommitRefused(r) ==
  /\ phase[r] = "commit"
  /\ tx[r] = "aborted"
  /\ Settle(r, Failed)
  /\ UNCHANGED <<environment, call, pinned, flight, revision, tx, database>>

\* An await of the flight throws: GitHub, the analysis, the signer, a query,
\* or the connection while the COMMIT is on its way, whatever became of it.
FlightFails(r) ==
  /\ phase[r] \in FlightPhases
  /\ Settle(r, Failed)
  /\ UNCHANGED <<environment, call, pinned, flight, revision, tx, database>>

-----------------------------------------------------------------------------
Init ==
  /\ Policy!Init
  /\ names \in [Targets -> Revisions]
  /\ everNamed = [t \in Targets |-> {names[t]}]
  /\ crashes = 0
  /\ phase = [r \in Requests |-> "idle"]
  /\ at = [r \in Requests |-> None]
  /\ target = [r \in Requests |-> None]
  /\ pinned = [r \in Requests |-> None]
  /\ flight = [r \in Requests |-> None]
  /\ inFlight = [i \in Instances |-> [k \in Keys |-> None]]
  /\ revision = [r \in Requests |-> None]
  /\ tx = [r \in Requests |-> "none"]
  /\ analyses = {}
  /\ badges = {}
  /\ reply = [r \in Requests |-> NoReply]

\* What r does next when nothing goes wrong on the way.
Progress(r) ==
  \/ PinPolicy(r) \/ NoActivePolicy(r) \/ Join(r) \/ Lead(r)
  \/ Resolve(r) \/ FindExisting(r) \/ FindNone(r) \/ Analyze(r)
  \/ RecordRejection(r) \/ AnswerNotIssued(r)
  \/ Sign(r) \/ Insert(r) \/ InsertConflicts(r) \/ AnswerWinner(r)
  \/ CommitAcknowledged(r) \/ CommitRefused(r) \/ AnswerIssued(r)

Next ==
  \/ \E p \in Policies : Publish(p)
  \/ \E t \in Targets, v \in Revisions : Rename(t, v)
  \/ \E i \in Instances : Crash(i)
  \/ \E r \in Requests :
       \/ CommitApplied(r)
       \/ CommitDropped(r)
       \/ \E i \in Instances, t \in Targets : Call(r, i, t)
       \/ FailEarly(r)
       \/ FlightFails(r)
       \/ Progress(r)

Spec == Init /\ [][Next]_vars

\* Every await of a call ends, and PostgreSQL ends every transaction: GitHub
\* requests time out, the other awaits are local or queries.  No administrator
\* has to publish, no client has to call, nothing has to fail.
Fairness ==
  \A r \in Requests :
    /\ WF_vars(Progress(r))
    /\ WF_vars(CommitApplied(r) \/ CommitDropped(r))

FairSpec == Spec /\ Fairness

-----------------------------------------------------------------------------
(* Correctness *)

\* A subject has one badge, whatever the calls, the processes, the URLs that
\* name the repository and the failures (issuance_uq and the 23505 branch of
\* saveIssuedBadge).
OneBadgePerSubject ==
  \A b, c \in badges : b.subject = c.subject => b = c

\* A caller is only ever told a badge that is committed: no answer is given
\* from a badge that was signed but lost, rolled back or not yet stored.
IssuedIsStored ==
  \A r \in Requests : reply[r].outcome = "issued" => reply[r].badge \in badges

\* Two callers that are told a badge of the same subject are told the same
\* uid, also when one of them retried after an error or a crash.
SameSubjectSameUid ==
  \A q, r \in Requests :
    /\ reply[q].outcome = "issued"
    /\ reply[r].outcome = "issued"
    /\ reply[q].badge.subject = reply[r].badge.subject
    => reply[q].badge.uid = reply[r].badge.uid

\* "existing: false", the 201 of the API, is told by one flight per subject at
\* most: the calls that get it share one promise.
OneFlightCreates ==
  \A q, r \in Requests :
    /\ reply[q].outcome = "issued" /\ ~reply[q].existing
    /\ reply[r].outcome = "issued" /\ ~reply[r].existing
    /\ reply[q].badge.subject = reply[r].badge.subject
    => flight[q] = flight[r]

\* A caller gets a badge for what it asked: under the policy that was active
\* when its call read it, whatever was published since, and for a revision
\* its URL has named.  A joined flight was started for another caller.
IssuedAsAsked ==
  \A r \in Requests :
    reply[r].outcome = "issued" =>
      LET subject == reply[r].badge.subject
      IN subject[1] \in everNamed[target[r]] /\ subject[2] = pinned[r]

\* A PASS analysis is stored if and only if it has a badge: losing the race
\* for a subject, or failing, leaves no PASS analysis behind.
PassAnalysisHasBadge ==
  {a.by : a \in {x \in analyses : x.decision = "PASS"}} = {b.uid : b \in badges}

\* After a 23505 there is a badge to answer with, so the rethrow of
\* saveIssuedBadge for a missing winner is never reached.
ConflictHasWinner ==
  \A r \in Requests : phase[r] = "conflict" => Stored(r) # {}

\* #inFlight holds exactly the running flights of the process under their
\* keys: no key outlives its flight, and no two flights of a process have the
\* same key.
InFlightIsRunning ==
  \A i \in Instances, k \in Keys, r \in Requests :
    inFlight[i][k] = r <=> /\ at[r] = i
                           /\ phase[r] \in FlightPhases
                           /\ Key(r) = k

\* Every call is answered: no call waits for ever for a flight, for a lock of
\* the unique index or for an answer of the database.
EveryCallAnswered ==
  \A r \in Requests : phase[r] = "policy" ~> phase[r] = "done"

-----------------------------------------------------------------------------
(* The abstract registry *)

Told(r) ==
  CASE reply[r].outcome = "none" -> <<"nothing">>
    [] reply[r].outcome = "issued" ->
         <<"issued", reply[r].badge.subject, reply[r].badge.uid>>
    [] OTHER -> <<"other">>

BadgeOf(s) ==
  IF \E b \in badges : b.subject = s
  THEN (CHOOSE b \in badges : b.subject = s).uid
  ELSE None

Registry == INSTANCE BadgeRegistry WITH
  Callers <- Requests, Uids <- Requests,
  badgeOf <- [s \in Subjects |-> BadgeOf(s)],
  told <- [r \in Requests |-> Told(r)]

\* Issuance with its processes, transactions, joined flights and crashes does
\* what the one-badge registry does.
ImplementsRegistry == Registry!Spec

=============================================================================
