-------------------------- MODULE BadgeVerification --------------------------
(***************************************************************************)
(* Revoking badges and answering for them: BadgeVerificationService, the   *)
(* revokeBadge transaction, the handlers that call them and the two        *)
(* requests by which GitHubClient finds the head of a default branch.      *)
(*                                                                         *)
(* A verification reads the badge with its revocation once, compares the   *)
(* clock once and then awaits GitHub twice; a revocation may be committed, *)
(* the badge may expire, branches may be pushed to, the default branch may *)
(* change and the repository may give up its name at each of these awaits. *)
(*                                                                         *)
(* Abstractions.  All badges are of one repository, Ours.  The row of a    *)
(* revocation is the call that inserted it, for its administrator, time    *)
(* and reason.  Whether the stored proof still matches the stored snapshot *)
(* never changes, since both are guarded by triggers: Intact.              *)
(***************************************************************************)
EXTENDS Naturals

CONSTANTS
  Calls,      \* requests; each is made once
  Badges,     \* uids
  Stored,     \* those that certification_badges holds
  Intact,     \* those whose proof matches their snapshot
  Commits,
  Branches,
  Repos,      \* repositories that may answer to the name the badges hold
  Ours,       \* the one the badges are of
  Commit,     \* Commit[b]: the commit b certifies
  ExpiresAt,  \* ExpiresAt[b]: when b expires, None for never
  None,       \* "absent"
  MaxTime     \* bound of the clock

ASSUME StoredAssumption == Stored \subseteq Badges
ASSUME OursAssumption == Ours \in Repos
ASSUME CommitAssumption == Commit \in [Badges -> Commits]
ASSUME ExpiresAtAssumption == ExpiresAt \in [Badges -> Nat \cup {None}]
ASSUME NoneAssumption ==
  None \notin Calls \cup Badges \cup Commits \cup Branches \cup Repos \cup Nat
ASSUME MaxTimeAssumption == MaxTime \in Nat

VARIABLES
  revokedBy,  \* revokedBy[b]: the row of certification_badge_revocations
  audits,     \* audits[b]: rows BADGE_REVOKED of certification_audit_logs
  inserting,  \* inserting[b]: whose open transaction has inserted the row of b
  now,
  holder,     \* the repository that answers to the name, or None
  default,    \* default[r]: default_branch
  tip,        \* tip[r][br]: the commit at the head of a branch
  phase,      \* phase[c]: the await the request is suspended at
  wanted,     \* wanted[c]: the badges it is about
  row,        \* row[c][b]: the revocation it read with the badge
  result,     \* result[c][b]: the status of the badge, as far as it got
  asks,       \* asks[c][b]: the branch whose commit it asks GitHub for
  outcome,    \* outcome[c]: whether its INSERT made the row of the revocation
  known,      \* history: known[c] were revoked when it was made
  began,      \* history: began[c] is when it was made
  heard       \* history: heard[c] is what the name stood for since then

database == <<revokedBy, audits, inserting>>
github == <<holder, default, tip>>
work == <<row, result, asks>>
vars == <<revokedBy, audits, inserting, now, holder, default, tip, phase,
          wanted, row, result, asks, outcome, known, began, heard>>

-----------------------------------------------------------------------------
(* Types *)

Statuses == {"INVALID", "REVOKED", "EXPIRED", "UNVERIFIED", "STALE", "VALID"}
RevokePhases == {"find", "insert", "commit", "reload"}
Outcomes == {"created", "already"}
Phases == RevokePhases \cup
          {"new", "read", "judge", "ask", "answered", "notFound", "failed"}

ASSUME NoneIsNoStatus == None \notin Statuses \cup Outcomes \cup {"asking"}

Sights == [repos : SUBSET Repos, tips : SUBSET Commits]

TypeOK ==
  /\ revokedBy \in [Badges -> Calls \cup {None}]
  /\ audits \in [Badges -> 0..1]
  /\ inserting \in [Badges -> Calls \cup {None}]
  /\ now \in Nat
  /\ holder \in Repos \cup {None}
  /\ default \in [Repos -> Branches]
  /\ tip \in [Repos -> [Branches -> Commits]]
  /\ phase \in [Calls -> Phases]
  /\ wanted \in [Calls -> SUBSET Badges]
  /\ row \in [Calls -> [Badges -> Calls \cup {None}]]
  /\ result \in [Calls -> [Badges -> Statuses \cup {"asking", None}]]
  /\ asks \in [Calls -> [Badges -> Branches \cup {None}]]
  /\ outcome \in [Calls -> Outcomes \cup {None}]
  /\ known \in [Calls -> SUBSET Badges]
  /\ began \in [Calls -> Nat]
  /\ heard \in [Calls -> Sights]

-----------------------------------------------------------------------------
(* Operators of the service, the repository and the client *)

Goto(c, p) == phase' = [phase EXCEPT ![c] = p]

\* What the name stands for: its repository and the heads of its branches.
Sight(repo, tips) ==
  [repos |-> {repo} \ {None},
   tips  |-> IF repo = None THEN {} ELSE {tips[repo][br] : br \in Branches}]

Both(s, t) == [repos |-> s.repos \cup t.repos, tips |-> s.tips \cup t.tips]

\* Every request under way hears of what the name stands for next.
Hear ==
  heard' = [c \in Calls |->
              IF phase[c] = "new" THEN heard[c]
              ELSE Both(heard[c], Sight(holder', tip'))]

Expired(b) == ExpiresAt[b] # None /\ now >= ExpiresAt[b]

\* verify up to its first await: the integrity of the snapshot, then the
\* revocation that was read with the badge, then the clock.
Judgement(b, revocation) ==
  IF b \notin Intact THEN "INVALID"
  ELSE IF revocation # None THEN "REVOKED"
  ELSE IF Expired(b) THEN "EXPIRED"
  ELSE "asking"

\* Mutant: whoever answers to the name will do.
AnyRepository == holder # None

\* The repository id in the answer of GitHub is the one of the badge.
SameRepository == holder = Ours

\* Mutant: an INSERT takes the place of a revocation (ON CONFLICT DO UPDATE).
NeverTaken(b) == FALSE

\* The primary key of certification_badge_revocations is taken.
Taken(b) == revokedBy[b] # None

\* Mutant: the audit row is written whether or not a row was inserted.
AuditAlways(b, inserted) == [audits EXCEPT ![b] = @ + 1]

\* insertAudit, only if the INSERT returned a row.
Audited(b, inserted) == IF inserted THEN [audits EXCEPT ![b] = @ + 1] ELSE audits

\* Mutant: a connection that fails keeps its transaction open.
KeepTransaction(c) == UNCHANGED inserting

\* ROLLBACK: what the transaction inserted is gone, who waits for it may go on.
Rollback(c) ==
  inserting' = [b \in Badges |-> IF inserting[b] = c THEN None ELSE inserting[b]]

-----------------------------------------------------------------------------
(* Requests *)

\* A request for the badges bs arrives.
Arrive(c, bs, p) ==
  /\ phase[c] = "new"
  /\ Goto(c, p)
  /\ wanted' = [wanted EXCEPT ![c] = bs]
  /\ known' = [known EXCEPT ![c] = {b \in Badges : revokedBy[b] # None}]
  /\ began' = [began EXCEPT ![c] = now]
  /\ heard' = [heard EXCEPT ![c] = Sight(holder, tip)]
  /\ UNCHANGED <<database, github, now, work, outcome>>

\* GET /api/badges/:uid and :uid.svg, and the answer to an issue request.
Verify(c) == \E b \in Badges : Arrive(c, {b}, "read")

\* GET /api/admin/certification/badges.
List(c) == Arrive(c, Stored, "read")

\* POST /api/admin/certification/badges/:uid/revoke.
Revoke(c) == \E b \in Badges : Arrive(c, {b}, "find")

request == <<wanted, known, began, heard>>

\* getBadge finds no row: 404.
NotFound(c) ==
  /\ phase[c] \in {"find", "read"}
  /\ ~ wanted[c] \subseteq Stored
  /\ Goto(c, "notFound")
  /\ UNCHANGED <<database, github, now, work, outcome, request>>

\* revokeBadge finds the badge and opens its transaction.
Find(c) ==
  /\ phase[c] = "find"
  /\ wanted[c] \subseteq Stored
  /\ Goto(c, "insert")
  /\ UNCHANGED <<database, github, now, work, outcome, request>>

\* INSERT ... ON CONFLICT (uid) DO NOTHING waits for an open transaction that
\* has inserted the same uid.
Insert(c) ==
  \E b \in wanted[c] :
    /\ phase[c] = "insert"
    /\ inserting[b] = None
    /\ inserting' = [inserting EXCEPT ![b] = IF Taken(b) THEN None ELSE c]
    /\ Goto(c, "commit")
    /\ UNCHANGED <<revokedBy, audits, github, now, work, outcome, request>>

\* What COMMIT does: the row of the revocation and its audit row are there.
Committed(c, b) ==
  /\ revokedBy' = IF inserting[b] = c THEN [revokedBy EXCEPT ![b] = c]
                  ELSE revokedBy
  /\ audits' = Audited(b, inserting[b] = c)
  /\ inserting' = [inserting EXCEPT ![b] = IF @ = c THEN None ELSE @]

\* COMMIT is acknowledged: withTransaction returns whether the INSERT made the
\* row.
CommitRevocation(c) ==
  \E b \in wanted[c] :
    /\ phase[c] = "commit"
    /\ Committed(c, b)
    /\ outcome' = [outcome EXCEPT ![c] =
                     IF inserting[b] = c THEN "created" ELSE "already"]
    /\ Goto(c, "reload")
    /\ UNCHANGED <<github, now, work, request>>

\* The connection breaks after PostgreSQL has applied the COMMIT.
CommitUnanswered(c) ==
  \E b \in wanted[c] :
    /\ phase[c] = "commit"
    /\ Committed(c, b)
    /\ Goto(c, "failed")
    /\ UNCHANGED <<github, now, work, outcome, request>>

\* A query fails: the transaction, if one is open, is rolled back, and the
\* error handler answers (503, to the public with the status UNVERIFIED).
Fail(c) ==
  /\ phase[c] \in RevokePhases \cup {"read"}
  /\ Rollback(c)
  /\ Goto(c, "failed")
  /\ UNCHANGED <<revokedBy, audits, github, now, work, outcome, request>>

\* Mutant: revokeBadge returns the badge that it found before the transaction.
FoundBefore(c, b) == IF phase[c] = "reload" THEN None ELSE revokedBy[b]

\* BADGE_SELECT: the badge joined with its revocation, as of the query.
Joined(c, b) == revokedBy[b]

\* getBadge or listBadges.
Read(c) ==
  /\ phase[c] \in {"read", "reload"}
  /\ wanted[c] \subseteq Stored
  /\ row' = [row EXCEPT ![c] =
               [b \in Badges |-> IF b \in wanted[c] THEN Joined(c, b) ELSE None]]
  /\ Goto(c, "judge")
  /\ UNCHANGED <<database, github, now, result, asks, outcome, request>>

\* The rows arrive: verify is called for each and runs up to its first await.
Judge(c) ==
  /\ phase[c] = "judge"
  /\ result' = [result EXCEPT ![c] =
       [b \in Badges |-> IF b \in wanted[c] THEN Judgement(b, row[c][b]) ELSE None]]
  /\ Goto(c, "ask")
  /\ UNCHANGED <<database, github, now, row, asks, outcome, request>>

\* getDefaultBranchHead, GET /repos/:owner/:name: the repository must be the
\* one of the badge; its default branch is asked for next.
AskMetadata(c) ==
  \E b \in wanted[c] :
    /\ result[c][b] = "asking"
    /\ asks[c][b] = None
    /\ SameRepository
    /\ asks' = [asks EXCEPT ![c][b] = default[holder]]
    /\ UNCHANGED <<database, github, now, phase, row, result, outcome, request>>

Found(c, b, s) ==
  /\ result' = [result EXCEPT ![c][b] = s]
  /\ asks' = [asks EXCEPT ![c][b] = None]
  /\ UNCHANGED <<database, github, now, phase, row, outcome, request>>

\* GET /repos/:owner/:name/commits/:branch, to whom the name belongs by now.
AskCommit(c) ==
  \E b \in wanted[c] :
    /\ asks[c][b] # None
    /\ holder # None
    /\ Found(c, b, IF tip[holder][asks[c][b]] = Commit[b] THEN "VALID"
                   ELSE "STALE")

\* Either request fails, times out or is about another repository: null.
HeadUnknown(c) ==
  \E b \in wanted[c] : result[c][b] = "asking" /\ Found(c, b, "UNVERIFIED")

\* Every verification of the request is done: it is answered.
Answer(c) ==
  /\ phase[c] = "ask"
  /\ \A b \in wanted[c] : result[c][b] \in Statuses
  /\ Goto(c, "answered")
  /\ UNCHANGED <<database, github, now, work, outcome, request>>

-----------------------------------------------------------------------------
(* The environment *)

calls == <<phase, wanted, work, outcome, known, began>>

Tick ==
  /\ now < MaxTime
  /\ now' = now + 1
  /\ UNCHANGED <<database, github, calls, heard>>

\* A push to a branch, of this or of another repository.
Push ==
  /\ \E r \in Repos, br \in Branches, k \in Commits :
       tip' = [tip EXCEPT ![r][br] = k]
  /\ UNCHANGED <<holder, default>>
  /\ Hear
  /\ UNCHANGED <<database, now, calls>>

\* An owner makes another branch the default one.
SwitchDefault ==
  /\ \E r \in Repos, br \in Branches : default' = [default EXCEPT ![r] = br]
  /\ UNCHANGED <<holder, tip, database, now, calls, heard>>

\* The repository is renamed, made private or deleted; another takes the name.
Rename ==
  /\ holder' \in Repos \cup {None}
  /\ UNCHANGED <<default, tip>>
  /\ Hear
  /\ UNCHANGED <<database, now, calls>>

-----------------------------------------------------------------------------
(* The system *)

Init ==
  /\ revokedBy = [b \in Badges |-> None]
  /\ audits = [b \in Badges |-> 0]
  /\ inserting = [b \in Badges |-> None]
  /\ now = 0
  /\ holder = Ours
  /\ default \in [Repos -> Branches]
  /\ tip \in [Repos -> [Branches -> Commits]]
  /\ phase = [c \in Calls |-> "new"]
  /\ wanted = [c \in Calls |-> {}]
  /\ row = [c \in Calls |-> [b \in Badges |-> None]]
  /\ result = [c \in Calls |-> [b \in Badges |-> None]]
  /\ asks = [c \in Calls |-> [b \in Badges |-> None]]
  /\ outcome = [c \in Calls |-> None]
  /\ known = [c \in Calls |-> {}]
  /\ began = [c \in Calls |-> 0]
  /\ heard = [c \in Calls |-> [repos |-> {}, tips |-> {}]]

\* What the request does of itself once it was made.
Progress(c) ==
  \/ NotFound(c)
  \/ Find(c)
  \/ Insert(c)
  \/ CommitRevocation(c)
  \/ Read(c)
  \/ Judge(c)
  \/ AskMetadata(c)
  \/ AskCommit(c)
  \/ HeadUnknown(c)
  \/ Answer(c)

\* What may become of its queries instead.
Failure(c) == Fail(c) \/ CommitUnanswered(c)

Environment == Tick \/ Push \/ SwitchDefault \/ Rename

Next ==
  \/ \E c \in Calls : Verify(c) \/ List(c) \/ Revoke(c) \/ Progress(c) \/ Failure(c)
  \/ Environment

Spec == Init /\ [][Next]_vars

\* The event loop resumes a request whose query or fetch was answered, and they
\* are: PostgreSQL serves queries and lock waits in turn, a request to GitHub
\* that is not answered is aborted by its timeout (HeadUnknown).  A query need
\* not ever fail: no statement timeout is set.
FairSpec == Spec /\ \A c \in Calls : WF_vars(Progress(c))

-----------------------------------------------------------------------------
(* Properties *)

\* A badge that was revoked has one revocation and one audit row of it, a
\* badge that was not has none, and the only request that may say that it
\* made the revocation (alreadyRevoked: false) is the one whose administrator,
\* reason and time are stored; one that says it did not has lost to another.
\* Concurrent revocations race for the row.
OneRevocation ==
  \A b \in Badges :
    /\ audits[b] = IF revokedBy[b] = None THEN 0 ELSE 1
    /\ \A c \in Calls :
         b \in wanted[c] /\ outcome[c] # None =>
           /\ revokedBy[b] # None
           /\ outcome[c] = "created" <=> revokedBy[b] = c

\* Whoever revokes a badge, wins or loses the race, is answered with a revoked
\* badge: not with the badge that was read before the transaction, and with no
\* status that says less than REVOKED.
RevokeAnswerIsFinal ==
  \A c \in Calls, b \in Badges :
    b \in wanted[c] /\ outcome[c] # None /\ phase[c] \in {"ask", "answered"} =>
      /\ row[c][b] = revokedBy[b]
      /\ result[c][b] \in {"INVALID", "REVOKED"}

\* Nothing takes a revocation back and no later one takes its place.
RevocationStands ==
  [][\A b \in Badges : revokedBy[b] # None => revokedBy'[b] = revokedBy[b]]_vars

\* VALID and STALE are about this badge's repository as it was while the
\* request was under way: the repository held its name at a moment of the
\* request, and VALID needs a branch under that name to have been at the
\* certified commit at a moment of the request.
HeadIsOfThisRequest ==
  \A c \in Calls, b \in Badges :
    /\ result[c][b] \in {"VALID", "STALE"} => Ours \in heard[c].repos
    /\ result[c][b] = "VALID" => Commit[b] \in heard[c].tips

\* Every request that was made ends, also those that wait for the row that
\* another transaction is inserting.
EveryRequestEnds ==
  \A c \in Calls :
    phase[c] # "new" ~> phase[c] \in {"answered", "notFound", "failed"}

=============================================================================
