--------------------------- MODULE PolicyLifecycle ---------------------------
(***************************************************************************)
(* The life of a certification policy: PolicyService and the transactions  *)
(* of PostgresCertificationRepository it calls.                            *)
(*                                                                         *)
(* A call of an administrator first reads, without a lock, the policy it   *)
(* is about and the criteria of the database, and checks them.  Only then  *)
(* does it open a transaction, lock rows and check again.  Between any two *)
(* of these steps other administrators may do anything.                    *)
(*                                                                         *)
(* Abstractions.  A snapshot keeps what the properties tell apart: who     *)
(* named it last, and the state of the criteria table it was made from.  A *)
(* transaction's writes take effect at its COMMIT, since no other          *)
(* transaction reads them before (READ COMMITTED) and the rows are locked. *)
(* The partial unique index on ACTIVE and the immutability trigger are not *)
(* guards of the model: OneActive and PublishedIsFrozen show that the      *)
(* transactions never run into them.                                       *)
(***************************************************************************)
EXTENDS Naturals, FiniteSets

CONSTANTS
  Admins,     \* administrators, each with one call at a time
  Policies,   \* policy ids
  Catalogs,   \* states of the criteria table
  Usable,     \* those with every required criterion active and available
  None,       \* "absent"
  MaxVersion  \* bound: how often the version sequence is drawn from

ASSUME CatalogsAssumption == Usable \subseteq Catalogs
ASSUME NoneIsFresh == None \notin Admins \cup Policies \cup Catalogs
ASSUME MaxVersionAssumption == MaxVersion \in Nat

VARIABLES
  catalog,    \* the criteria table
  status,     \* status[p], "absent" before the policy is created
  snapshot,   \* snapshot[p]: snapshot_json
  version,    \* version[p]: policy_version
  sequence,   \* certification_policy_version_seq
  audits,     \* certification_audit_logs, as far as policies are concerned
  advisory,   \* who holds pg_advisory_xact_lock(42581128)
  rowLock,    \* rowLock[p]: who holds the row of p (FOR UPDATE)
  phase,      \* phase[a]: the await the call of a is suspended at
  policy,     \* policy[a]: the policy that call is about
  local,      \* local[a]: the snapshot that call read or is about to write
  number,     \* number[a]: the version a createDraft call drew
  replaced,   \* replaced[a]: the ACTIVE policy a publish call locked
  acks        \* history: acks[p] publish calls of p were answered with 200

rows == <<status, snapshot, version, audits>>
locks == <<advisory, rowLock>>
locals == <<policy, local, number, replaced>>
vars == <<catalog, status, snapshot, version, sequence, audits, advisory,
          rowLock, phase, policy, local, number, replaced, acks>>

-----------------------------------------------------------------------------
(* Types *)

Snapshot == [name : Admins, catalog : Catalogs]
NoSnapshot == [name |-> None, catalog |-> None]

CreatePhases == {"create", "version", "insert", "created"}
UpdatePhases == {"readForUpdate", "update", "lockDraft", "write", "updated"}
PublishPhases == {"readForPublish", "publish", "advisory", "target", "check",
                  "lockActive", "activate", "published"}
Phases == {"idle"} \cup CreatePhases \cup UpdatePhases \cup PublishPhases

Actions == {"POLICY_CREATED", "POLICY_UPDATED", "POLICY_PUBLISHED",
            "POLICY_ARCHIVED"}
Audit == [action : Actions, policy : Policies,
          replacement : Policies \cup {None}]

TypeOK ==
  /\ catalog \in Catalogs
  /\ status \in [Policies -> {"absent", "DRAFT", "ACTIVE", "ARCHIVED"}]
  /\ snapshot \in [Policies -> Snapshot \cup {NoSnapshot}]
  /\ version \in [Policies -> Nat]
  /\ sequence \in Nat
  /\ audits \subseteq Audit
  /\ advisory \in Admins \cup {None}
  /\ rowLock \in [Policies -> Admins \cup {None}]
  /\ phase \in [Admins -> Phases]
  /\ policy \in [Admins -> Policies \cup {None}]
  /\ local \in [Admins -> Snapshot \cup {NoSnapshot}]
  /\ number \in [Admins -> Nat]
  /\ replaced \in [Admins -> Policies \cup {None}]
  /\ acks \in [Policies -> Nat]

-----------------------------------------------------------------------------
(* Operators of the service and of the repository *)

Created == {p \in Policies : status[p] # "absent"}
Active == {p \in Policies : status[p] = "ACTIVE"}
Published == {p \in Policies : status[p] \in {"ACTIVE", "ARCHIVED"}}

Goto(a, p) == phase' = [phase EXCEPT ![a] = p]

\* The call of a is over: its locals are gone.
Forget(a) ==
  /\ Goto(a, "idle")
  /\ policy' = [policy EXCEPT ![a] = None]
  /\ local' = [local EXCEPT ![a] = NoSnapshot]
  /\ number' = [number EXCEPT ![a] = 0]
  /\ replaced' = [replaced EXCEPT ![a] = None]

\* Mutant: the row locks survive the end of the transaction.
ReleaseAdvisoryOnly(a) ==
  /\ advisory' = IF advisory = a THEN None ELSE advisory
  /\ UNCHANGED rowLock

\* COMMIT and ROLLBACK release every lock of the transaction.
Release(a) ==
  /\ advisory' = IF advisory = a THEN None ELSE advisory
  /\ rowLock' = [p \in Policies |-> IF rowLock[p] = a THEN None ELSE rowLock[p]]

\* A row of certification_audit_logs.
AuditRow(action, p, replacement) ==
  [action |-> action, policy |-> p, replacement |-> replacement]

\* assertRequiredPolicySnapshot: the snapshot that was read is the one the
\* criteria of now give.
Matches(a) == local[a].catalog = catalog

\* Mutant: the transaction trusts the check that was made before it.
NoRecheck(a) == TRUE

\* The locked row of the transaction of a is still a draft.
StillDraft(a) == status[policy[a]] = "DRAFT"

\* nextval of the sequence: never the same number twice, also if the
\* transaction that uses it never commits.
NextPolicyVersion == sequence + 1

\* randomUUID: an id that no policy and no other createDraft call uses.
FreshId(p) ==
  /\ status[p] = "absent"
  /\ \A a \in Admins : phase[a] = "insert" => policy[a] # p

-----------------------------------------------------------------------------
(* The environment *)

\* A migration or an operator changes the criteria table.
ChangeCatalog(k) ==
  /\ k # catalog
  /\ catalog' = k
  /\ UNCHANGED <<rows, sequence, locks, phase, locals, acks>>

-----------------------------------------------------------------------------
(* createDraft *)

CreateDraft(a) ==
  /\ phase[a] = "idle"
  /\ sequence + Cardinality({b \in Admins : phase[b] \in {"create", "version"}})
       < MaxVersion
  /\ Goto(a, "create")
  /\ UNCHANGED <<catalog, rows, sequence, locks, locals, acks>>

\* resolveRequiredCriteria finds every criterion.
ResolveForCreate(a) ==
  /\ phase[a] = "create"
  /\ catalog \in Usable
  /\ local' = [local EXCEPT ![a] = [name |-> a, catalog |-> catalog]]
  /\ Goto(a, "version")
  /\ UNCHANGED <<catalog, rows, sequence, locks, policy, number, replaced, acks>>

\* nextPolicyVersion answers; the policy gets its id.
DrawVersion(a, p) ==
  /\ phase[a] = "version"
  /\ FreshId(p)
  /\ sequence' = sequence + 1
  /\ number' = [number EXCEPT ![a] = NextPolicyVersion]
  /\ policy' = [policy EXCEPT ![a] = p]
  /\ Goto(a, "insert")
  /\ UNCHANGED <<catalog, rows, locks, local, replaced, acks>>

\* createDraftPolicy commits the policy, its children and the audit row.
InsertDraft(a) ==
  /\ phase[a] = "insert"
  /\ status' = [status EXCEPT ![policy[a]] = "DRAFT"]
  /\ snapshot' = [snapshot EXCEPT ![policy[a]] = local[a]]
  /\ version' = [version EXCEPT ![policy[a]] = number[a]]
  /\ audits' = audits \cup {AuditRow("POLICY_CREATED", policy[a], None)}
  /\ Goto(a, "created")
  /\ UNCHANGED <<catalog, sequence, locks, locals, acks>>

-----------------------------------------------------------------------------
(* updateDraft *)

UpdateDraft(a, p) ==
  /\ phase[a] = "idle"
  /\ policy' = [policy EXCEPT ![a] = p]
  /\ Goto(a, "readForUpdate")
  /\ UNCHANGED <<catalog, rows, sequence, locks, local, number, replaced, acks>>

\* getPolicy answers with a draft.
FindForUpdate(a) ==
  /\ phase[a] = "readForUpdate"
  /\ status[policy[a]] = "DRAFT"
  /\ Goto(a, "update")
  /\ UNCHANGED <<catalog, rows, sequence, locks, locals, acks>>

\* resolveRequiredCriteria answers, and the new snapshot is made.
ResolveForUpdate(a) ==
  /\ phase[a] = "update"
  /\ catalog \in Usable
  /\ local' = [local EXCEPT ![a] = [name |-> a, catalog |-> catalog]]
  /\ Goto(a, "lockDraft")
  /\ UNCHANGED <<catalog, rows, sequence, locks, policy, number, replaced, acks>>

\* updateDraftPolicy: SELECT ... FOR UPDATE.
LockDraft(a) ==
  /\ phase[a] = "lockDraft"
  /\ rowLock[policy[a]] = None
  /\ rowLock' = [rowLock EXCEPT ![policy[a]] = a]
  /\ Goto(a, "write")
  /\ UNCHANGED <<catalog, rows, sequence, advisory, locals, acks>>

\* The row is still a draft: it and its children are replaced, and COMMIT.
WriteDraft(a) ==
  /\ phase[a] = "write"
  /\ StillDraft(a)
  /\ snapshot' = [snapshot EXCEPT ![policy[a]] = local[a]]
  /\ audits' = audits \cup {AuditRow("POLICY_UPDATED", policy[a], None)}
  /\ Release(a)
  /\ Goto(a, "updated")
  /\ UNCHANGED <<catalog, status, version, sequence, locals, acks>>

-----------------------------------------------------------------------------
(* publish *)

PublishDraft(a, p) ==
  /\ phase[a] = "idle"
  /\ policy' = [policy EXCEPT ![a] = p]
  /\ Goto(a, "readForPublish")
  /\ UNCHANGED <<catalog, rows, sequence, locks, local, number, replaced, acks>>

\* getPolicy answers with a draft.
FindForPublish(a) ==
  /\ phase[a] = "readForPublish"
  /\ status[policy[a]] = "DRAFT"
  /\ local' = [local EXCEPT ![a] = snapshot[policy[a]]]
  /\ Goto(a, "publish")
  /\ UNCHANGED <<catalog, rows, sequence, locks, policy, number, replaced, acks>>

\* resolveRequiredCriteria answers, and the snapshot matches its answer.
ResolveForPublish(a) ==
  /\ phase[a] = "publish"
  /\ catalog \in Usable
  /\ Matches(a)
  /\ Goto(a, "advisory")
  /\ UNCHANGED <<catalog, rows, sequence, locks, locals, acks>>

\* Mutant: publications are not serialised.
SkipAdvisory(a) ==
  /\ phase[a] = "advisory"
  /\ Goto(a, "target")
  /\ UNCHANGED <<catalog, rows, sequence, locks, locals, acks>>

\* publishPolicy: pg_advisory_xact_lock.
LockAdvisory(a) ==
  /\ phase[a] = "advisory"
  /\ advisory = None
  /\ advisory' = a
  /\ Goto(a, "target")
  /\ UNCHANGED <<catalog, rows, sequence, rowLock, locals, acks>>

\* SELECT ... FOR UPDATE of the policy to publish.
LockTarget(a) ==
  /\ phase[a] = "target"
  /\ rowLock[policy[a]] = None
  /\ rowLock' = [rowLock EXCEPT ![policy[a]] = a]
  /\ Goto(a, "check")
  /\ UNCHANGED <<catalog, rows, sequence, advisory, locals, acks>>

\* The row is still a draft, and every criterion of it is usable.
CheckTarget(a) ==
  /\ phase[a] = "check"
  /\ StillDraft(a)
  /\ catalog \in Usable
  /\ Goto(a, "lockActive")
  /\ UNCHANGED <<catalog, rows, sequence, locks, locals, acks>>

\* SELECT ... WHERE status = 'ACTIVE' FOR UPDATE finds no row ...
FindNoActive(a) ==
  /\ phase[a] = "lockActive"
  /\ Active = {}
  /\ Goto(a, "activate")
  /\ UNCHANGED <<catalog, rows, sequence, locks, locals, acks>>

\* ... or the one to replace, once nobody else has locked it.
LockActive(a, q) ==
  /\ phase[a] = "lockActive"
  /\ q \in Active
  /\ rowLock[q] = None
  /\ rowLock' = [rowLock EXCEPT ![q] = a]
  /\ replaced' = [replaced EXCEPT ![a] = q]
  /\ Goto(a, "activate")
  /\ UNCHANGED <<catalog, rows, sequence, advisory, policy, local, number, acks>>

\* Mutant: the old policy is archived, and committed, first.
ArchiveFirst(a) ==
  /\ phase[a] = "activate"
  /\ IF replaced[a] # None /\ status[replaced[a]] = "ACTIVE"
     THEN /\ status' = [status EXCEPT ![replaced[a]] = "ARCHIVED"]
          /\ UNCHANGED <<phase, advisory, rowLock>>
     ELSE /\ status' = [status EXCEPT ![policy[a]] = "ACTIVE"]
          /\ Release(a)
          /\ Goto(a, "published")
  /\ UNCHANGED <<catalog, snapshot, version, sequence, audits, locals, acks>>

\* The policy that was ACTIVE becomes ARCHIVED, the draft ACTIVE, and COMMIT.
Activate(a) ==
  /\ phase[a] = "activate"
  /\ status' = [p \in Policies |-> CASE p = policy[a] -> "ACTIVE"
                                     [] p = replaced[a] -> "ARCHIVED"
                                     [] OTHER -> status[p]]
  /\ audits' = audits
       \cup {AuditRow("POLICY_PUBLISHED", policy[a], None)}
       \cup {AuditRow("POLICY_ARCHIVED", q, policy[a]) :
               q \in {replaced[a]} \ {None}}
  /\ Release(a)
  /\ Goto(a, "published")
  /\ UNCHANGED <<catalog, snapshot, version, sequence, locals, acks>>

-----------------------------------------------------------------------------
(* How a call ends *)

\* The COMMIT is acknowledged and the administrator gets an answer.
Answer(a) ==
  /\ phase[a] \in {"created", "updated", "published"}
  /\ acks' = IF phase[a] = "published"
             THEN [acks EXCEPT ![policy[a]] = @ + 1]
             ELSE acks
  /\ Forget(a)
  /\ UNCHANGED <<catalog, rows, sequence, locks>>

\* The service or the transaction throws: there is no such policy, it is no
\* draft (any more), the criteria are not usable or no longer match.
Refuses(a) ==
  CASE phase[a] \in {"readForUpdate", "readForPublish"} ->
         status[policy[a]] # "DRAFT"
    [] phase[a] \in {"create", "update"} -> catalog \notin Usable
    [] phase[a] = "publish" -> catalog \notin Usable \/ ~Matches(a)
    [] phase[a] = "write" -> ~StillDraft(a)
    [] phase[a] = "check" -> ~StillDraft(a) \/ catalog \notin Usable
    [] OTHER -> FALSE

Refuse(a) ==
  /\ Refuses(a)
  /\ Release(a)
  /\ Forget(a)
  /\ UNCHANGED <<catalog, rows, sequence, acks>>

\* A query fails or the connection breaks: the transaction is rolled back, or
\* was committed and the answer is lost.
Fail(a) ==
  /\ phase[a] # "idle"
  /\ Release(a)
  /\ Forget(a)
  /\ UNCHANGED <<catalog, rows, sequence, acks>>

-----------------------------------------------------------------------------
Init ==
  /\ catalog \in Usable
  /\ status = [p \in Policies |-> "absent"]
  /\ snapshot = [p \in Policies |-> NoSnapshot]
  /\ version = [p \in Policies |-> 0]
  /\ sequence = 0
  /\ audits = {}
  /\ advisory = None
  /\ rowLock = [p \in Policies |-> None]
  /\ phase = [a \in Admins |-> "idle"]
  /\ policy = [a \in Admins |-> None]
  /\ local = [a \in Admins |-> NoSnapshot]
  /\ number = [a \in Admins |-> 0]
  /\ replaced = [a \in Admins |-> None]
  /\ acks = [p \in Policies |-> 0]

Lock(a) ==
  \/ LockDraft(a)
  \/ LockAdvisory(a)
  \/ LockTarget(a)
  \/ \E q \in Policies : LockActive(a, q)

\* What the call of a does next when nothing goes wrong on the way.
Progress(a) ==
  \/ ResolveForCreate(a) \/ InsertDraft(a)
  \/ \E p \in Policies : DrawVersion(a, p)
  \/ FindForUpdate(a) \/ ResolveForUpdate(a) \/ WriteDraft(a)
  \/ FindForPublish(a) \/ ResolveForPublish(a) \/ CheckTarget(a)
  \/ FindNoActive(a) \/ Activate(a)
  \/ Answer(a) \/ Refuse(a)

Next ==
  \/ \E k \in Catalogs : ChangeCatalog(k)
  \/ \E a \in Admins :
       \/ CreateDraft(a)
       \/ \E p \in Policies : UpdateDraft(a, p) \/ PublishDraft(a, p)
       \/ Lock(a)
       \/ Progress(a)
       \/ Fail(a)

Spec == Init /\ [][Next]_vars

\* Queries end, and PostgreSQL hands a lock to those that wait for it in turn.
Fairness == \A a \in Admins : WF_vars(Progress(a)) /\ SF_vars(Lock(a))

FairSpec == Spec /\ Fairness

-----------------------------------------------------------------------------
(* Correctness *)

\* At most one policy is ACTIVE, and the transactions see to it themselves:
\* certification_policies_one_active_idx never has to refuse a publication.
OneActive == \A p, q \in Active : p = q

\* A publication replaces the policy that is ACTIVE when it commits, not the
\* one that was when it looked.
ReplacesActive ==
  \A a \in Admins : phase[a] = "activate" => Active = {replaced[a]} \ {None}

\* No two policies have the same version, whatever drafts were given up.
VersionsDistinct ==
  \A p, q \in Created : version[p] = version[q] => p = q

\* The audit log tells how the ACTIVE policy changed: every published policy
\* but the ACTIVE one has one replacement, and no policy replaces two.
Replacements == {r \in audits : r.action = "POLICY_ARCHIVED"}
SuccessionIsALine ==
  /\ {r.policy : r \in Replacements} = Published \ Active
  /\ \A r, s \in Replacements :
       r.policy = s.policy \/ r.replacement = s.replacement => r = s

\* A policy is published once: of two calls that publish the same draft, one
\* at most is told that it did, and then the policy is published.
PublishedOnce ==
  \A p \in Policies :
    /\ acks[p] <= 1
    /\ acks[p] = 1 => p \in Published

\* What was published is never changed again, by an update that was under way
\* when it was published either, and an archived policy stays archived
\* (README: a database trigger forbids it; it never has to).
PublishedIsFrozen ==
  [][\A p \in Published :
       /\ snapshot'[p] = snapshot[p] /\ version'[p] = version[p]
       /\ status'[p] # status[p] => status[p] = "ACTIVE" /\ status'[p] = "ARCHIVED"
    ]_vars

\* Every call ends: no administrator waits for ever for a row or for the
\* advisory lock, and no two wait for each other.
EveryCallEnds == \A a \in Admins : phase[a] # "idle" ~> phase[a] = "idle"

\* Publication with its locks and transactions does what the abstract policy
\* register does.
Register == INSTANCE ActivePolicy WITH
  active <- IF Active = {} THEN None ELSE CHOOSE p \in Active : TRUE,
  published <- Published
ImplementsActivePolicy == Register!Spec

=============================================================================
