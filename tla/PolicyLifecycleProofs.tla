----------------------- MODULE PolicyLifecycleProofs -----------------------
(***************************************************************************)
(* Proofs about PolicyLifecycle, for every set of administrators, policies *)
(* and states of the criteria table.                                       *)
(*                                                                         *)
(* The argument: only the holder of the advisory lock makes a policy       *)
(* ACTIVE or ARCHIVED, so what it read about the ACTIVE policy stays true  *)
(* until it commits; and a draft whose row is locked stays a draft.        *)
(***************************************************************************)
EXTENDS PolicyLifecycle, TLAPS

\* The phases of a publication in which it holds the advisory lock.
Serial == {"target", "check", "lockActive", "activate"}

\* A call that is about a policy has one, and it replaces none before it has
\* looked for the ACTIVE one.
LocalsFit ==
  \A a \in Admins :
    /\ phase[a] \notin {"idle", "create", "version"} => policy[a] \in Policies
    /\ phase[a] \notin {"activate", "published"} => replaced[a] = None

\* The advisory lock is held exactly during those phases, by one call.
AdvisoryHeld == \A a \in Admins : advisory = a <=> phase[a] \in Serial

\* Once a publication has checked its draft under the lock, it is a draft
\* until the publication commits.
DraftStays ==
  \A a \in Admins : phase[a] \in {"lockActive", "activate"} => StillDraft(a)

\* The id of a policy that is being created is nobody else's.
IdIsFresh ==
  \A a \in Admins : phase[a] = "insert" =>
    /\ status[policy[a]] = "absent"
    /\ \A b \in Admins : phase[b] = "insert" /\ policy[b] = policy[a] => a = b

\* So is its version.
NumberIsFresh ==
  /\ \A p \in Policies : status[p] # "absent" => version[p] <= sequence
  /\ \A a \in Admins : phase[a] = "insert" =>
       /\ number[a] <= sequence
       /\ \A p \in Policies : status[p] # "absent" => version[p] # number[a]
       /\ \A b \in Admins : phase[b] = "insert" /\ number[b] = number[a] => a = b

\* The inductive invariant.
Inv ==
  /\ TypeOK
  /\ LocalsFit
  /\ AdvisoryHeld
  /\ DraftStays
  /\ IdIsFresh
  /\ NumberIsFresh
  /\ ReplacesActive
  /\ OneActive
  /\ VersionsDistinct

-----------------------------------------------------------------------------
(* Steps that do not change the status or the version of a policy.         *)

LEMMA QuietInv ==
  ASSUME Inv, TypeOK', LocalsFit', AdvisoryHeld',
         UNCHANGED <<status, version, sequence>>,
         \A a \in Admins : phase'[a] \in {"lockActive", "activate"} =>
           /\ phase[a] \in {"lockActive", "activate"} \/ StillDraft(a)
           /\ policy'[a] = policy[a],
         \A a \in Admins : phase'[a] = "insert" =>
           phase[a] = "insert" /\ UNCHANGED <<policy[a], number[a]>>,
         \A a \in Admins : phase'[a] = "activate" =>
           \/ phase[a] = "activate" /\ UNCHANGED replaced[a]
           \/ Active = {replaced'[a]} \ {None}
  PROVE  Inv'
<1>1. Active' = Active
  BY DEF Active
<1>2. DraftStays'
  BY DEF Inv, DraftStays, StillDraft
<1>3. IdIsFresh' /\ NumberIsFresh'
  BY DEF Inv, IdIsFresh, NumberIsFresh
<1>4. ReplacesActive' /\ OneActive'
  BY <1>1 DEF Inv, ReplacesActive, OneActive
<1>5. VersionsDistinct'
  BY DEF Inv, VersionsDistinct, Created
<1>6. QED
  BY <1>2, <1>3, <1>4, <1>5 DEF Inv

LEMMA InitInv == Init => Inv
<1> SUFFICES ASSUME Init PROVE Inv
  OBVIOUS
<1>1. TypeOK
  BY CatalogsAssumption DEF Init, TypeOK, Phases
<1>2. LocalsFit /\ AdvisoryHeld
  BY NoneIsFresh DEF Init, LocalsFit, AdvisoryHeld, Serial
<1>3. DraftStays /\ IdIsFresh /\ NumberIsFresh /\ ReplacesActive
  BY DEF Init, DraftStays, IdIsFresh, NumberIsFresh, ReplacesActive
<1>4. OneActive /\ VersionsDistinct
  BY DEF Init, OneActive, Active, VersionsDistinct, Created
<1>5. QED
  BY <1>1, <1>2, <1>3, <1>4 DEF Inv

LEMMA CatalogInv ==
  ASSUME Inv, NEW k \in Catalogs, ChangeCatalog(k)
  PROVE  Inv'
<1>1. TypeOK'
  BY DEF Inv, TypeOK, ChangeCatalog, rows, locks, locals
<1>2. LocalsFit' /\ AdvisoryHeld'
  BY DEF Inv, LocalsFit, AdvisoryHeld, ChangeCatalog, locks, locals
<1>3. QED
  BY <1>1, <1>2, QuietInv DEF ChangeCatalog, rows, locals, Inv, ReplacesActive

\* A call starts, or goes from one check to the next.
LEMMA StepInv ==
  ASSUME Inv, NEW a \in Admins,
         \/ CreateDraft(a) \/ ResolveForCreate(a)
         \/ \E p \in Policies : UpdateDraft(a, p) \/ PublishDraft(a, p)
         \/ FindForUpdate(a) \/ ResolveForUpdate(a)
         \/ FindForPublish(a) \/ ResolveForPublish(a)
  PROVE  Inv'
<1> USE DEF CreateDraft, ResolveForCreate, UpdateDraft, PublishDraft,
            FindForUpdate, ResolveForUpdate, FindForPublish, ResolveForPublish,
            Goto, rows, locks, locals
<1>1. /\ UNCHANGED <<status, version, sequence, snapshot, audits, locks,
                     number, replaced, acks, catalog>>
      /\ \E s \in {"create", "version", "readForUpdate", "readForPublish",
                   "update", "lockDraft", "publish", "advisory"} :
           phase' = [phase EXCEPT ![a] = s]
      /\ phase[a] \in {"idle", "create", "readForUpdate", "update",
                       "readForPublish", "publish"}
      /\ policy' = policy \/ \E p \in Policies : policy' = [policy EXCEPT ![a] = p]
  OBVIOUS
<1>2. local' \in [Admins -> Snapshot \cup {NoSnapshot}]
  BY DEF Inv, TypeOK, Snapshot, LocalsFit
<1>3. TypeOK'
  <2>1. phase' \in [Admins -> Phases]
    BY <1>1 DEF Inv, TypeOK, Phases, CreatePhases, UpdatePhases, PublishPhases
  <2>2. policy' \in [Admins -> Policies \cup {None}]
    BY <1>1 DEF Inv, TypeOK
  <2>3. QED
    BY <1>1, <1>2, <2>1, <2>2 DEF Inv, TypeOK
<1>4. LocalsFit'
  BY DEF Inv, TypeOK, LocalsFit
<1>5. AdvisoryHeld'
  BY <1>1 DEF Inv, TypeOK, AdvisoryHeld, Serial
<1>6. QED
  BY <1>1, <1>3, <1>4, <1>5, QuietInv DEF Inv, TypeOK, ReplacesActive

LEMMA DrawVersionInv ==
  ASSUME Inv, NEW a \in Admins, NEW p \in Policies, DrawVersion(a, p)
  PROVE  Inv'
<1> USE DEF DrawVersion, Goto, rows, locks, NextPolicyVersion
<1>1. TypeOK'
  BY DEF Inv, TypeOK, Phases, CreatePhases
<1>2. LocalsFit' /\ AdvisoryHeld' /\ DraftStays'
  BY DEF Inv, TypeOK, LocalsFit, AdvisoryHeld, Serial, DraftStays, StillDraft
<1>3. IdIsFresh'
  BY DEF Inv, TypeOK, IdIsFresh, FreshId
<1>4. NumberIsFresh'
  <2>1. \A q \in Policies : status[q] # "absent" =>
          version[q] <= sequence' /\ version[q] # sequence'
    BY DEF Inv, TypeOK, NumberIsFresh
  <2>2. \A b \in Admins : phase[b] = "insert" =>
          number[b] <= sequence' /\ number[b] # sequence'
    BY DEF Inv, TypeOK, NumberIsFresh
  <2>3. number'[a] = sequence' /\ sequence' <= sequence'
    BY DEF Inv, TypeOK
  <2>4. \A b \in Admins \ {a} : number'[b] = number[b] /\ phase'[b] = phase[b]
    BY DEF Inv, TypeOK
  <2>5. QED
    BY <2>1, <2>2, <2>3, <2>4 DEF Inv, NumberIsFresh
<1>5. ReplacesActive' /\ OneActive' /\ VersionsDistinct'
  BY DEF Inv, TypeOK, ReplacesActive, OneActive, Active, VersionsDistinct, Created
<1>6. QED
  BY <1>1, <1>2, <1>3, <1>4, <1>5 DEF Inv

LEMMA InsertDraftInv ==
  ASSUME Inv, NEW a \in Admins, InsertDraft(a)
  PROVE  Inv'
<1> USE DEF InsertDraft, Goto, locks, locals
<1>1. policy[a] \in Policies /\ status[policy[a]] = "absent"
  BY DEF Inv, LocalsFit, IdIsFresh
<1>2. TypeOK'
  BY <1>1 DEF Inv, TypeOK, Phases, CreatePhases, AuditRow, Audit, Actions
<1>3. LocalsFit' /\ AdvisoryHeld'
  BY DEF Inv, TypeOK, LocalsFit, AdvisoryHeld, Serial
<1>4. \A p \in Policies \ {policy[a]} : status'[p] = status[p] /\ version'[p] = version[p]
  BY DEF Inv, TypeOK
<1>5. status'[policy[a]] = "DRAFT" /\ version'[policy[a]] = number[a]
  BY <1>1 DEF Inv, TypeOK
<1>6. \A b \in Admins \ {a} : phase'[b] = phase[b]
  BY DEF Inv, TypeOK
<1>7. phase'[a] = "created"
  BY DEF Inv, TypeOK
<1>8. DraftStays'
  BY <1>4, <1>5, <1>6, <1>7 DEF Inv, DraftStays, StillDraft, LocalsFit
<1>9. IdIsFresh'
  BY <1>4, <1>6, <1>7 DEF Inv, IdIsFresh, LocalsFit
<1>10. NumberIsFresh'
  BY <1>1, <1>4, <1>5, <1>6, <1>7 DEF Inv, NumberIsFresh
<1>11. Active' = Active
  BY <1>1, <1>4, <1>5 DEF Active
<1>12. ReplacesActive' /\ OneActive'
  BY <1>6, <1>7, <1>11 DEF Inv, ReplacesActive, OneActive
<1>13. VersionsDistinct'
  <2>1. \A p \in Policies \ {policy[a]} :
          status'[p] # "absent" => version'[p] # version'[policy[a]]
    BY <1>4, <1>5 DEF Inv, NumberIsFresh
  <2>2. QED
    BY <1>4, <2>1 DEF Inv, VersionsDistinct, Created
<1>14. QED
  BY <1>2, <1>3, <1>8, <1>9, <1>10, <1>12, <1>13 DEF Inv

\* A transaction obtains a lock or checks under the locks it holds.
LEMMA LockInv ==
  ASSUME Inv, NEW a \in Admins,
         \/ LockDraft(a) \/ LockAdvisory(a) \/ LockTarget(a) \/ CheckTarget(a)
         \/ FindNoActive(a) \/ \E q \in Policies : LockActive(a, q)
  PROVE  Inv'
<1> USE DEF LockDraft, LockAdvisory, LockTarget, CheckTarget, FindNoActive,
            LockActive, Goto, rows, locks, locals
<1>1. /\ UNCHANGED <<status, version, sequence, snapshot, audits, policy, local,
                     number, acks, catalog>>
      /\ \E s \in Serial \cup {"write"} : phase' = [phase EXCEPT ![a] = s]
      /\ phase[a] \in {"lockDraft", "advisory", "target", "check", "lockActive"}
  BY DEF Serial
<1>2. TypeOK'
  <2>1. phase' \in [Admins -> Phases]
    BY <1>1 DEF Inv, TypeOK, Serial, Phases, UpdatePhases, PublishPhases
  <2>2. /\ advisory' \in Admins \cup {None}
        /\ rowLock' \in [Policies -> Admins \cup {None}]
        /\ replaced' \in [Admins -> Policies \cup {None}]
    BY DEF Inv, TypeOK
  <2>3. QED
    BY <1>1, <2>1, <2>2 DEF Inv, TypeOK
<1>3. LocalsFit'
  <2>1. \A b \in Admins \ {a} : phase'[b] = phase[b] /\ replaced'[b] = replaced[b]
    BY DEF Inv, TypeOK
  <2>2. phase'[a] # "activate" => replaced'[a] = None
    BY DEF Inv, TypeOK, LocalsFit
  <2>3. phase[a] \notin {"idle", "create", "version"} /\ phase'[a] # "published"
    BY <1>1 DEF Inv, TypeOK, Serial
  <2>4. QED
    BY <1>1, <2>1, <2>2, <2>3 DEF Inv, LocalsFit
<1>4. AdvisoryHeld'
  <2>1. CASE LockAdvisory(a)
    BY <2>1, NoneIsFresh DEF Inv, TypeOK, AdvisoryHeld, Serial
  <2>2. CASE ~LockAdvisory(a)
    BY <2>2 DEF Inv, TypeOK, AdvisoryHeld, Serial
  <2>3. QED
    BY <2>1, <2>2
<1>5. ASSUME NEW b \in Admins, phase'[b] \in {"lockActive", "activate"}
      PROVE  phase[b] \in {"lockActive", "activate"} \/ StillDraft(b)
  BY <1>5 DEF Inv, TypeOK
<1>6. ASSUME NEW b \in Admins, phase'[b] = "activate"
      PROVE  \/ phase[b] = "activate" /\ UNCHANGED replaced[b]
             \/ Active = {replaced'[b]} \ {None}
  <2>1. CASE b # a
    BY <1>6, <2>1 DEF Inv, TypeOK
  <2>2. CASE b = a /\ FindNoActive(a)
    <3>1. replaced'[b] = None /\ Active = {}
      BY <2>2 DEF Inv, LocalsFit
    <3>2. QED
      BY <3>1
  <2>3. CASE b = a /\ \E q \in Policies : LockActive(a, q)
    <3>1. PICK q \in Policies : LockActive(a, q)
      BY <2>3
    <3>2. replaced'[b] = q /\ q \in Active /\ q # None
      BY <2>3, <3>1, NoneIsFresh DEF Inv, TypeOK
    <3>3. QED
      BY <3>2 DEF Inv, OneActive
  <2>4. QED
    BY <1>6, <2>1, <2>2, <2>3 DEF Inv, TypeOK
<1>7. \A b \in Admins : phase'[b] = "insert" => phase[b] = "insert"
  BY <1>1 DEF Inv, TypeOK, Serial
<1>8. QED
  BY <1>1, <1>2, <1>3, <1>4, <1>5, <1>6, <1>7, QuietInv

LEMMA ReleaseTypeOK ==
  ASSUME Inv, NEW a \in Admins, Release(a)
  PROVE  /\ advisory' \in Admins \cup {None}
         /\ rowLock' \in [Policies -> Admins \cup {None}]
BY DEF Inv, TypeOK, Release

\* The advisory lock after a transaction ended: the one who held it does not.
LEMMA ReleaseAdvisoryHeld ==
  ASSUME Inv, NEW a \in Admins, Release(a),
         NEW s \in Phases \ Serial, phase' = [phase EXCEPT ![a] = s]
  PROVE  AdvisoryHeld'
<1>1. phase'[a] \notin Serial /\ \A b \in Admins \ {a} : phase'[b] = phase[b]
  BY DEF Inv, TypeOK
<1>2. advisory' # a /\ \A b \in Admins \ {a} : advisory' = b <=> advisory = b
  BY NoneIsFresh DEF Release
<1>3. QED
  BY <1>1, <1>2 DEF Inv, AdvisoryHeld

LEMMA WriteDraftInv ==
  ASSUME Inv, NEW a \in Admins, WriteDraft(a)
  PROVE  Inv'
<1> USE DEF WriteDraft, Goto, locals
<1>1. policy[a] \in Policies
  BY DEF Inv, LocalsFit
<1>2. TypeOK'
  BY <1>1, ReleaseTypeOK
  DEF Inv, TypeOK, Phases, UpdatePhases, AuditRow, Audit, Actions
<1>3. LocalsFit'
  BY DEF Inv, TypeOK, LocalsFit
<1>4. AdvisoryHeld'
  BY ReleaseAdvisoryHeld DEF Phases, UpdatePhases, Serial
<1>5. QED
  BY <1>2, <1>3, <1>4, QuietInv DEF Inv, TypeOK, ReplacesActive

\* What a publication changes when it commits.
LEMMA ActivateChanges ==
  ASSUME Inv, NEW a \in Admins, Activate(a)
  PROVE  /\ policy[a] \in Policies
         /\ status[policy[a]] = "DRAFT" /\ status'[policy[a]] = "ACTIVE"
         /\ Active = {replaced[a]} \ {None}
         /\ \A p \in Policies \ {policy[a]} :
              status'[p] = IF p \in Active THEN "ARCHIVED" ELSE status[p]
         /\ \A b \in Admins : phase[b] \in Serial => b = a
<1>1. policy[a] \in Policies /\ status[policy[a]] = "DRAFT"
  BY DEF Inv, LocalsFit, DraftStays, StillDraft, Activate
<1>2. Active = {replaced[a]} \ {None}
  BY DEF Inv, ReplacesActive, Activate
<1>3. \A p \in Policies \ {policy[a]} : p \in Active <=> p = replaced[a]
  BY <1>2, NoneIsFresh
<1>4. status'[policy[a]] = "ACTIVE"
  <2>1. policy[a] # replaced[a]
    BY <1>1, <1>2, NoneIsFresh DEF Active
  <2>2. QED
    BY <1>1, <2>1 DEF Activate
<1>5. \A p \in Policies \ {policy[a]} :
        status'[p] = IF p \in Active THEN "ARCHIVED" ELSE status[p]
  BY <1>3 DEF Activate
<1>6. \A b \in Admins : phase[b] \in Serial => b = a
  BY DEF Inv, AdvisoryHeld, Activate, Serial
<1>7. QED
  BY <1>1, <1>2, <1>4, <1>5, <1>6

LEMMA ActivateInv ==
  ASSUME Inv, NEW a \in Admins, Activate(a)
  PROVE  Inv'
<1>0. policy[a] \in Policies /\ \A b \in Admins : phase[b] \in Serial => b = a
  BY ActivateChanges
<1>1. /\ phase'[a] = "published"
      /\ \A b \in Admins \ {a} : phase'[b] = phase[b] /\ phase[b] \notin Serial
  BY <1>0 DEF Activate, Goto, Inv, TypeOK
<1>2. TypeOK'
  <2>1. status' \in [Policies -> {"absent", "DRAFT", "ACTIVE", "ARCHIVED"}]
    BY DEF Inv, TypeOK, Activate
  <2>2. audits' \subseteq Audit
    <3>1. replaced[a] \in Policies \cup {None} /\ audits \subseteq Audit
      BY DEF Inv, TypeOK
    <3>2. QED
      BY <1>0, <3>1 DEF Activate, AuditRow, Audit, Actions
  <2>3. phase' \in [Admins -> Phases]
    BY DEF Inv, TypeOK, Activate, Goto, Phases, PublishPhases
  <2>4. /\ advisory' \in Admins \cup {None}
        /\ rowLock' \in [Policies -> Admins \cup {None}]
    BY ReleaseTypeOK DEF Activate
  <2>5. QED
    BY <2>1, <2>2, <2>3, <2>4 DEF Inv, TypeOK, Activate, locals
<1>3. LocalsFit'
  BY <1>1 DEF Inv, LocalsFit, Activate, locals
<1>4. AdvisoryHeld'
  BY ReleaseAdvisoryHeld DEF Activate, Goto, Phases, PublishPhases, Serial
<1>5. DraftStays' /\ ReplacesActive'
  BY <1>1 DEF DraftStays, ReplacesActive, Serial
<1>6. \A p \in Policies : (status'[p] = "absent") <=> (status[p] = "absent")
  BY ActivateChanges DEF Active
<1>7. IdIsFresh'
  BY <1>1, <1>6 DEF Inv, IdIsFresh, LocalsFit, Activate, locals
<1>8. NumberIsFresh' /\ VersionsDistinct'
  BY <1>1, <1>6 DEF Inv, NumberIsFresh, VersionsDistinct, Created, Activate, locals
<1>9. OneActive'
  <2>1. \A p \in Policies : status'[p] = "ACTIVE" => p = policy[a]
    BY ActivateChanges DEF Active
  <2>2. QED
    BY <2>1, ActivateChanges DEF OneActive, Active, Activate, locals
<1>10. QED
  BY <1>2, <1>3, <1>4, <1>5, <1>7, <1>8, <1>9 DEF Inv

\* A call ends, with an answer or an error.
LEMMA EndInv ==
  ASSUME Inv, NEW a \in Admins, Answer(a) \/ Refuse(a) \/ Fail(a)
  PROVE  Inv'
<1>1. /\ Forget(a)
      /\ UNCHANGED <<catalog, rows, sequence>>
      /\ acks' = acks \/ (phase[a] = "published" /\ acks' = [acks EXCEPT ![policy[a]] = @ + 1])
  BY DEF Answer, Refuse, Fail
<1>2. Release(a) \/ (phase[a] \notin Serial /\ UNCHANGED locks)
  BY DEF Answer, Refuse, Fail, Serial
<1>3. acks' \in [Policies -> Nat]
  BY <1>1 DEF Inv, TypeOK, LocalsFit
<1>4. TypeOK'
  <2>1. /\ advisory' \in Admins \cup {None}
        /\ rowLock' \in [Policies -> Admins \cup {None}]
    BY <1>2, ReleaseTypeOK DEF Inv, TypeOK, locks
  <2>2. QED
    BY <1>1, <1>3, <2>1 DEF Inv, TypeOK, Forget, Goto, Phases, rows
<1>5. /\ phase'[a] = "idle"
      /\ \A b \in Admins \ {a} : UNCHANGED <<phase[b], policy[b], number[b], replaced[b]>>
  BY <1>1 DEF Inv, TypeOK, Forget, Goto
<1>6. LocalsFit'
  BY <1>1, <1>5 DEF Inv, TypeOK, LocalsFit, Forget
<1>7. AdvisoryHeld'
  <2>1. CASE Release(a)
    BY <1>1, <2>1, ReleaseAdvisoryHeld DEF Forget, Goto, Phases, Serial
  <2>2. CASE phase[a] \notin Serial /\ UNCHANGED locks
    BY <1>5, <2>2 DEF Inv, AdvisoryHeld, locks, Serial
  <2>3. QED
    BY <1>2, <2>1, <2>2
<1>8. QED
  BY <1>1, <1>4, <1>5, <1>6, <1>7, QuietInv DEF rows

LEMMA NextInv == Inv /\ [Next]_vars => Inv'
<1> SUFFICES ASSUME Inv, [Next]_vars PROVE Inv'
  OBVIOUS
<1>1. CASE \E k \in Catalogs : ChangeCatalog(k)
  BY <1>1, CatalogInv
<1>2. ASSUME NEW a \in Admins,
             \/ CreateDraft(a)
             \/ \E p \in Policies : UpdateDraft(a, p) \/ PublishDraft(a, p)
             \/ Lock(a)
             \/ Progress(a)
             \/ Fail(a)
      PROVE  Inv'
  <2>1. CASE Lock(a) \/ CheckTarget(a) \/ FindNoActive(a)
    BY <2>1, LockInv DEF Lock
  <2>2. CASE \E p \in Policies : DrawVersion(a, p)
    BY <2>2, DrawVersionInv
  <2>3. CASE InsertDraft(a) \/ WriteDraft(a) \/ Activate(a)
    BY <2>3, InsertDraftInv, WriteDraftInv, ActivateInv
  <2>4. CASE Answer(a) \/ Refuse(a) \/ Fail(a)
    BY <2>4, EndInv
  <2>5. QED
    BY <1>2, <2>1, <2>2, <2>3, <2>4, StepInv DEF Progress
<1>3. CASE UNCHANGED vars
  <2>1. TypeOK' /\ LocalsFit' /\ AdvisoryHeld'
    BY <1>3 DEF Inv, TypeOK, LocalsFit, AdvisoryHeld, vars
  <2>2. QED
    BY <1>3, <2>1, QuietInv DEF vars, Inv, ReplacesActive
<1>4. QED
  BY <1>1, <1>2, <1>3 DEF Next

\* The policy service keeps the inductive invariant, whatever the numbers of
\* administrators, policies and states of the criteria table.
THEOREM Invariance == Spec => []Inv
<1>1. Init => Inv
  BY InitInv
<1>2. Inv /\ [Next]_vars => Inv'
  BY NextInv
<1>3. QED
  BY <1>1, <1>2, PTL DEF Spec

\* At most one policy is ACTIVE: publications keep the one-active index from
\* ever having to refuse one.
THEOREM AtMostOneActive == Spec => []OneActive
<1>1. Inv => OneActive
  BY DEF Inv
<1>2. QED
  BY <1>1, Invariance, PTL

\* No two policies get the same version.
THEOREM NoVersionTwice == Spec => []VersionsDistinct
<1>1. Inv => VersionsDistinct
  BY DEF Inv
<1>2. QED
  BY <1>1, Invariance, PTL

-----------------------------------------------------------------------------
(* Which steps change what is published *)

\* Only the commits of the three transactions change a policy.
LEMMA RowsChange ==
  ASSUME Inv, [Next]_vars
  PROVE  \/ UNCHANGED <<status, snapshot, version>>
         \/ \E a \in Admins : InsertDraft(a) \/ WriteDraft(a) \/ Activate(a)
<1>1. CASE \E k \in Catalogs : ChangeCatalog(k)
  BY <1>1 DEF ChangeCatalog, rows
<1>2. ASSUME NEW a \in Admins,
             \/ CreateDraft(a)
             \/ \E p \in Policies : UpdateDraft(a, p) \/ PublishDraft(a, p)
             \/ Lock(a)
             \/ Fail(a)
      PROVE  UNCHANGED <<status, snapshot, version>>
  BY <1>2 DEF CreateDraft, UpdateDraft, PublishDraft, Lock, LockDraft,
              LockAdvisory, LockTarget, LockActive, Fail, rows
<1>3. ASSUME NEW a \in Admins, Progress(a)
      PROVE  \/ UNCHANGED <<status, snapshot, version>>
             \/ InsertDraft(a) \/ WriteDraft(a) \/ Activate(a)
  BY <1>3 DEF Progress, ResolveForCreate, DrawVersion, FindForUpdate,
              ResolveForUpdate, FindForPublish, ResolveForPublish, CheckTarget,
              FindNoActive, Answer, Refuse, rows
<1>4. CASE UNCHANGED vars
  BY <1>4 DEF vars
<1>5. QED
  BY <1>1, <1>2, <1>3, <1>4 DEF Next

LEMMA FrozenStep ==
  ASSUME Inv, [Next]_vars, NEW p \in Published
  PROVE  /\ snapshot'[p] = snapshot[p] /\ version'[p] = version[p]
         /\ status'[p] # status[p] =>
              status[p] = "ACTIVE" /\ status'[p] = "ARCHIVED"
<1>1. CASE UNCHANGED <<status, snapshot, version>>
  BY <1>1
<1>2. ASSUME NEW a \in Admins, InsertDraft(a)
      PROVE  UNCHANGED <<status[p], snapshot[p], version[p]>>
  <2>1. policy[a] # p
    BY <1>2 DEF Inv, IdIsFresh, InsertDraft, Published
  <2>2. QED
    BY <1>2, <2>1 DEF InsertDraft, Inv, TypeOK, Published
<1>3. ASSUME NEW a \in Admins, WriteDraft(a)
      PROVE  UNCHANGED <<status[p], snapshot[p], version[p]>>
  <2>1. policy[a] # p
    BY <1>3 DEF WriteDraft, StillDraft, Published
  <2>2. QED
    BY <1>3, <2>1 DEF WriteDraft, Inv, TypeOK, Published
<1>4. ASSUME NEW a \in Admins, Activate(a)
      PROVE  /\ UNCHANGED <<snapshot[p], version[p]>>
             /\ status'[p] = IF p \in Active THEN "ARCHIVED" ELSE status[p]
  <2>1. p \in Policies \ {policy[a]}
    BY <1>4, ActivateChanges DEF Published
  <2>2. status'[p] = IF p \in Active THEN "ARCHIVED" ELSE status[p]
    BY <1>4, <2>1, ActivateChanges
  <2>3. QED
    BY <1>4, <2>2 DEF Activate
<1>5. CASE \E a \in Admins : Activate(a)
  BY <1>4, <1>5 DEF Active
<1>6. QED
  BY <1>1, <1>2, <1>3, <1>5, RowsChange

\* What was published is never changed: the immutability trigger never fires.
THEOREM PublishedStays == Spec => PublishedIsFrozen
<1>1. Inv /\ [Next]_vars =>
        [\A p \in Published :
           /\ snapshot'[p] = snapshot[p] /\ version'[p] = version[p]
           /\ status'[p] # status[p] =>
                status[p] = "ACTIVE" /\ status'[p] = "ARCHIVED"]_vars
  BY FrozenStep
<1>2. QED
  BY <1>1, Invariance, PTL DEF Spec, PublishedIsFrozen

-----------------------------------------------------------------------------
(* The policy service implements the abstract register *)

LEMMA RegisterStep ==
  ASSUME Inv, [Next]_vars
  PROVE  [Register!Next]_(Register!policyVars)
<1>1. ASSUME Active' = Active, Published' = Published
      PROVE  UNCHANGED Register!policyVars
  BY <1>1 DEF Register!policyVars
<1>2. CASE UNCHANGED <<status, snapshot, version>>
  BY <1>1, <1>2 DEF Active, Published
<1>3. ASSUME NEW a \in Admins, InsertDraft(a)
      PROVE  Active' = Active /\ Published' = Published
  <2>1. policy[a] \in Policies /\ status[policy[a]] = "absent"
    BY <1>3 DEF Inv, LocalsFit, IdIsFresh, InsertDraft
  <2>2. \A p \in Policies :
          status'[p] = IF p = policy[a] THEN "DRAFT" ELSE status[p]
    BY <1>3 DEF InsertDraft, Inv, TypeOK
  <2>3. QED
    BY <2>1, <2>2 DEF Active, Published
<1>4. ASSUME NEW a \in Admins, WriteDraft(a)
      PROVE  Active' = Active /\ Published' = Published
  BY <1>4 DEF WriteDraft, Active, Published
<1>5. ASSUME NEW a \in Admins, Activate(a)
      PROVE  Register!Next
  <2>1. policy[a] \in Policies /\ policy[a] \notin Published
    BY <1>5, ActivateChanges DEF Published
  <2>2. Active' = {policy[a]}
    BY <1>5, ActivateChanges DEF Active
  <2>3. Published' = Published \cup {policy[a]}
    <3>1. \A p \in Policies \ {policy[a]} :
            status'[p] \in {"ACTIVE", "ARCHIVED"}
              <=> status[p] \in {"ACTIVE", "ARCHIVED"}
      BY <1>5, ActivateChanges DEF Active
    <3>2. status'[policy[a]] = "ACTIVE"
      BY <1>5, ActivateChanges
    <3>3. QED
      BY <2>1, <3>1, <3>2 DEF Published
  <2>4. (IF Active = {} THEN None ELSE CHOOSE p \in Active : TRUE)' = policy[a]
    BY <2>2
  <2>5. Register!Publish(policy[a])
    BY <2>1, <2>3, <2>4 DEF Register!Publish
  <2>6. QED
    BY <2>1, <2>5 DEF Register!Next
<1>6. QED
  BY <1>1, <1>2, <1>3, <1>4, <1>5, RowsChange

\* Whatever the locks and transactions do on the way, the rest of the system
\* sees a register in which one policy replaces another in one step.
THEOREM ImplementsRegister == Spec => ImplementsActivePolicy
<1>1. Init => Register!Init
  BY DEF Init, Register!Init, Active, Published
<1>2. Inv /\ [Next]_vars => [Register!Next]_(Register!policyVars)
  BY RegisterStep
<1>3. QED
  BY <1>1, <1>2, Invariance, PTL DEF Spec, ImplementsActivePolicy, Register!Spec

-----------------------------------------------------------------------------
(* What is told and logged of publications *)

\* A publication that committed is about to be told, by one call, and was not before; who
\* was told was told the truth.
Told ==
  /\ \A p \in Policies : acks[p] <= 1 /\ (acks[p] = 1 => p \in Published)
  /\ \A a \in Admins : phase[a] = "published" =>
       /\ policy[a] \in Published /\ acks[policy[a]] = 0
       /\ \A b \in Admins : phase[b] = "published" /\ policy[b] = policy[a] => a = b

\* Whatever replaced a policy was published.
Logged ==
  /\ SuccessionIsALine
  /\ \A r \in Replacements : r.policy \in Published /\ r.replacement \in Published

LEMMA ToldNothing ==
  ASSUME Inv, Told, Published' = Published, acks' = acks,
         \A b \in Admins : phase'[b] = "published" => phase[b] = "published" /\ policy'[b] = policy[b]
  PROVE  Told'
BY DEF Told

LEMMA LoggedNothing ==
  ASSUME Logged, Published' = Published, Active' = Active, Replacements' = Replacements
  PROVE  Logged'
BY DEF Logged, SuccessionIsALine

\* The steps that neither publish nor tell of it.
LEMMA QuietHistory ==
  ASSUME Inv, [Next]_vars, \A a \in Admins : ~Activate(a) /\ ~Answer(a)
  PROVE  /\ Published' = Published /\ Active' = Active /\ Replacements' = Replacements
         /\ acks' = acks
         /\ \A b \in Admins : phase'[b] = "published" =>
              phase[b] = "published" /\ policy'[b] = policy[b]
<1> DEFINE Quiet ==
      /\ Published' = Published /\ Active' = Active /\ Replacements' = Replacements
      /\ acks' = acks
      /\ \A b \in Admins : phase'[b] = "published" => phase[b] = "published" /\ policy'[b] = policy[b]
<1>1. TypeOK
  BY DEF Inv
<1>2. ASSUME UNCHANGED <<status, audits, acks>>,
             \A b \in Admins : phase'[b] = "published" => phase[b] = "published" /\ policy'[b] = policy[b]
      PROVE  Quiet
  BY <1>2 DEF Published, Active, Replacements
<1>3. CASE (\E k \in Catalogs : ChangeCatalog(k)) \/ UNCHANGED vars
  BY <1>2, <1>3 DEF ChangeCatalog, rows, locals, vars
<1>4. ASSUME NEW a \in Admins,
             \/ CreateDraft(a) \/ ResolveForCreate(a) \/ \E p \in Policies : DrawVersion(a, p)
             \/ \E p \in Policies : UpdateDraft(a, p) \/ PublishDraft(a, p)
             \/ Lock(a) \/ FindForUpdate(a) \/ ResolveForUpdate(a)
             \/ FindForPublish(a) \/ ResolveForPublish(a) \/ CheckTarget(a) \/ FindNoActive(a)
      PROVE  Quiet
  <2>1. UNCHANGED <<status, audits, acks>>
    BY <1>4 DEF CreateDraft, ResolveForCreate, DrawVersion, UpdateDraft, PublishDraft, Lock,
                LockDraft, LockAdvisory, LockTarget, LockActive, FindForUpdate, ResolveForUpdate,
                FindForPublish, ResolveForPublish, CheckTarget, FindNoActive, rows
  <2>2. /\ \E q \in Phases \ {"published"} : phase' = [phase EXCEPT ![a] = q]
        /\ policy' = policy \/ \E p \in Policies : policy' = [policy EXCEPT ![a] = p]
    BY <1>4 DEF CreateDraft, ResolveForCreate, DrawVersion, UpdateDraft, PublishDraft, Lock,
                LockDraft, LockAdvisory, LockTarget, LockActive, FindForUpdate, ResolveForUpdate,
                FindForPublish, ResolveForPublish, CheckTarget, FindNoActive, Goto, locals,
                Phases, CreatePhases, UpdatePhases, PublishPhases
  <2>3. phase'[a] # "published" /\ \A b \in Admins \ {a} : phase'[b] = phase[b] /\ policy'[b] = policy[b]
    BY <1>1, <2>2 DEF TypeOK
  <2> QED
    BY <1>2, <2>1, <2>3
<1>5. ASSUME NEW a \in Admins, Refuse(a) \/ Fail(a)
      PROVE  Quiet
  <2>1. phase'[a] # "published" /\ \A b \in Admins \ {a} : phase'[b] = phase[b] /\ policy'[b] = policy[b]
    BY <1>1, <1>5 DEF Refuse, Fail, Forget, Goto, TypeOK
  <2> QED
    BY <1>2, <1>5, <2>1 DEF Refuse, Fail, rows
<1>6. ASSUME NEW a \in Admins, InsertDraft(a) \/ WriteDraft(a)
      PROVE  Quiet
  <2>1. phase'[a] # "published" /\ policy' = policy /\ \A b \in Admins \ {a} : phase'[b] = phase[b]
    BY <1>1, <1>6 DEF InsertDraft, WriteDraft, Goto, TypeOK, locals
  <2>2. acks' = acks
    BY <1>6 DEF InsertDraft, WriteDraft
  <2>3. Replacements' = Replacements
    BY <1>6 DEF InsertDraft, WriteDraft, Replacements, AuditRow
  <2>4. Active' = Active /\ Published' = Published
    <3>1. CASE WriteDraft(a)
      BY <3>1 DEF WriteDraft, Active, Published
    <3>2. CASE InsertDraft(a)
      <4>1. policy[a] \in Policies /\ status[policy[a]] = "absent"
        BY <3>2 DEF Inv, LocalsFit, IdIsFresh, InsertDraft
      <4>2. \A p \in Policies : status'[p] = IF p = policy[a] THEN "DRAFT" ELSE status[p]
        BY <1>1, <3>2 DEF InsertDraft, TypeOK
      <4> QED
        BY <4>1, <4>2 DEF Active, Published
    <3> QED
      BY <1>6, <3>1, <3>2
  <2> QED
    BY <2>1, <2>2, <2>3, <2>4
<1> QED
  BY <1>3, <1>4, <1>5, <1>6 DEF Next, Progress

LEMMA ActivateHistory ==
  ASSUME Inv, Told, Logged, NEW a \in Admins, Activate(a)
  PROVE  Told' /\ Logged'
<1>1. /\ policy[a] \in Policies /\ policy[a] \notin Published
      /\ Active = {replaced[a]} \ {None} /\ Active \subseteq Published
  BY ActivateChanges DEF Published, Active
<1>2. \A p \in Policies \ {policy[a]} :
        status'[p] = IF p \in Active THEN "ARCHIVED" ELSE status[p]
  BY ActivateChanges
<1>3. status'[policy[a]] = "ACTIVE"
  BY ActivateChanges
<1>4. Published' = Published \cup {policy[a]}
  <2>1. \A p \in Policies \ {policy[a]} : p \in Published' <=> p \in Published
    BY <1>2 DEF Published, Active
  <2> QED
    BY <1>1, <1>3, <2>1 DEF Published
<1>5. Active' = {policy[a]}
  BY <1>1, <1>2, <1>3 DEF Active
<1>6. /\ phase'[a] = "published" /\ policy' = policy /\ acks' = acks
      /\ \A b \in Admins \ {a} : phase'[b] = phase[b]
  BY DEF Activate, Goto, locals, Inv, TypeOK
<1>7. Told'
  <2>1. acks[policy[a]] = 0
    <3>1. acks[policy[a]] \in Nat
      BY <1>1 DEF Inv, TypeOK
    <3>2. acks[policy[a]] <= 1 /\ acks[policy[a]] # 1
      BY <1>1 DEF Told
    <3> QED
      BY <3>1, <3>2
  <2>2. \A b \in Admins \ {a} : phase[b] = "published" => policy[b] # policy[a]
    BY <1>1 DEF Told
  <2> QED
    BY <1>4, <1>6, <2>1, <2>2 DEF Told
<1> DEFINE new == {AuditRow("POLICY_ARCHIVED", q, policy[a]) : q \in Active}
<1>8. Replacements' = Replacements \cup new
  <2>1. audits' = audits \cup {AuditRow("POLICY_PUBLISHED", policy[a], None)} \cup new
    BY <1>1 DEF Activate
  <2>2. AuditRow("POLICY_PUBLISHED", policy[a], None).action = "POLICY_PUBLISHED"
    BY DEF AuditRow
  <2>3. \A r \in new : r.action = "POLICY_ARCHIVED"
    BY DEF AuditRow
  <2> HIDE DEF new
  <2> QED
    BY <2>1, <2>2, <2>3 DEF Replacements
<1>9. \A r \in new : r.policy \in Active /\ r.replacement = policy[a]
  BY DEF AuditRow
<1>10. \A r, s \in new : r = s
  <2>1. \A p, q \in Active : p = q
    BY DEF Inv, OneActive
  <2> QED
    BY <2>1
<1>11. ASSUME NEW q \in Active PROVE \E r \in new : r.policy = q
  <2>1. AuditRow("POLICY_ARCHIVED", q, policy[a]) \in new
    OBVIOUS
  <2>2. AuditRow("POLICY_ARCHIVED", q, policy[a]).policy = q
    BY DEF AuditRow
  <2> HIDE DEF new
  <2> QED
    BY <2>1, <2>2
<1> HIDE DEF new
<1>12. /\ {r.policy : r \in Replacements} = Published \ Active
       /\ \A r, s \in Replacements :
            r.policy = s.policy \/ r.replacement = s.replacement => r = s
       /\ \A r \in Replacements : r.policy \in Published /\ r.replacement \in Published
  BY DEF Logged, SuccessionIsALine
<1>13. {r.policy : r \in Replacements'} = Published' \ Active'
  <2>1. {r.policy : r \in new} = Active
    BY <1>9, <1>11
  <2>2. {r.policy : r \in Replacements'} = (Published \ Active) \cup Active
    BY <1>8, <1>12, <2>1
  <2> QED
    BY <1>1, <1>4, <1>5, <2>2
<1>14. ASSUME NEW r \in Replacements', NEW s \in Replacements',
              r.policy = s.policy \/ r.replacement = s.replacement
       PROVE  r = s
  <2>1. \A t \in Replacements : t.policy \notin Active /\ t.replacement # policy[a]
    BY <1>1, <1>12
  <2> QED
    BY <1>8, <1>9, <1>10, <1>12, <1>14, <2>1
<1>15. \A r \in Replacements' : r.policy \in Published' /\ r.replacement \in Published'
  BY <1>1, <1>4, <1>8, <1>9, <1>12
<1> QED
  BY <1>7, <1>13, <1>14, <1>15 DEF Logged, SuccessionIsALine

LEMMA AnswerHistory ==
  ASSUME Inv, Told, Logged, NEW a \in Admins, Answer(a)
  PROVE  Told' /\ Logged'
<1>1. UNCHANGED <<status, audits>>
  BY DEF Answer, rows
<1>2. Published' = Published /\ Active' = Active /\ Replacements' = Replacements
  BY <1>1 DEF Published, Active, Replacements
<1>3. /\ phase'[a] = "idle"
      /\ \A b \in Admins \ {a} : phase'[b] = phase[b] /\ policy'[b] = policy[b]
  BY DEF Answer, Forget, Goto, Inv, TypeOK
<1>4. CASE phase[a] # "published"
  <2>1. acks' = acks
    BY <1>4 DEF Answer
  <2> QED
    BY <1>2, <1>3, <2>1, ToldNothing, LoggedNothing
<1>5. CASE phase[a] = "published"
  <2>1. policy[a] \in Published /\ policy[a] \in Policies /\ acks[policy[a]] = 0
    BY <1>5 DEF Told, Published
  <2>2. \A p \in Policies : acks'[p] = IF p = policy[a] THEN 1 ELSE acks[p]
    BY <1>5, <2>1 DEF Answer, Inv, TypeOK
  <2>3. \A b \in Admins \ {a} : phase[b] = "published" => policy[b] # policy[a]
    BY <1>5 DEF Told
  <2>4. Told'
    <3>1. \A p \in Policies : acks'[p] <= 1 /\ (acks'[p] = 1 => p \in Published')
      BY <1>2, <2>1, <2>2 DEF Told
    <3>2. ASSUME NEW b \in Admins, phase'[b] = "published"
          PROVE  /\ policy'[b] \in Published' /\ acks'[policy'[b]] = 0
                 /\ \A c \in Admins : phase'[c] = "published" /\ policy'[c] = policy'[b] => b = c
      <4>1. b # a /\ phase[b] = "published" /\ policy'[b] = policy[b]
        BY <1>3, <3>2
      <4>2. policy[b] \in Published /\ policy[b] \in Policies /\ acks[policy[b]] = 0
        BY <4>1 DEF Told, Published
      <4>3. acks'[policy'[b]] = 0
        BY <2>2, <2>3, <4>1, <4>2
      <4> QED
        BY <1>2, <1>3, <4>1, <4>2, <4>3 DEF Told
    <3> QED
      BY <3>1, <3>2 DEF Told
  <2> QED
    BY <1>2, <2>4, LoggedNothing
<1> QED
  BY <1>4, <1>5

LEMMA HistoryInv == ASSUME Inv, Told, Logged, [Next]_vars PROVE Told' /\ Logged'
BY QuietHistory, ToldNothing, LoggedNothing, ActivateHistory, AnswerHistory

LEMMA HistoryHolds == Spec => [](Told /\ Logged)
<1>1. Init => Told /\ Logged
  BY DEF Init, Told, Logged, SuccessionIsALine, Replacements, Published, Active
<1>2. Inv /\ Told /\ Logged /\ [Next]_vars => Told' /\ Logged'
  BY HistoryInv
<1> QED
  BY <1>1, <1>2, Invariance, PTL DEF Spec

\* Of any number of calls that publish one draft, one at most is told that it did, and
\* it did (publishPolicy re-reads the row it locked).
THEOREM ToldOnce == Spec => []PublishedOnce
<1>1. Told => PublishedOnce
  BY DEF Told, PublishedOnce
<1> QED
  BY <1>1, HistoryHolds, PTL

\* The audit log of publications is a line without branches or gaps, from the first
\* policy that was published to the ACTIVE one.
THEOREM LogIsALine == Spec => []SuccessionIsALine
<1>1. Logged => SuccessionIsALine
  BY DEF Logged
<1> QED
  BY <1>1, HistoryHolds, PTL

=============================================================================
