-------------------------- MODULE BadgeIssueProofs --------------------------
(***************************************************************************)
(* Proofs about BadgeIssue, for every set of calls, processes, targets,    *)
(* revisions and policies.                                                 *)
(***************************************************************************)
EXTENDS BadgeIssue, TLAPS

\* A call that runs has a process, a target, and what its phase needs.
Placed ==
  \A r \in Requests :
    /\ phase[r] \notin {"idle", "done"} => at[r] \in Instances /\ target[r] \in Targets
    /\ phase[r] \in {"criteria", "joined"} \cup FlightPhases => pinned[r] \in Policies
    /\ phase[r] \in FlightPhases \ {"resolve"} => revision[r] \in Revisions

\* A transaction belongs to a call that has signed, and whose subject is fixed.
TransactionsPlaced ==
  \A r \in Requests :
    tx[r] # "none" => /\ phase[r] \in {"commit", "conflict", "reload", "done"}
                      /\ pinned[r] \in Policies
                      /\ revision[r] \in Revisions

\* The committed badges are those of the committed transactions.
BadgesAreCommitted ==
  /\ \A b \in badges : tx[b.uid] = "committed" /\ b.subject = Subject(b.uid)
  /\ \A r \in Requests : tx[r] = "committed" => SignedBadge(r) \in badges

\* What the unique index guarantees of transactions that may still commit.
OpenIsAlone ==
  /\ \A q, r \in Requests :
       tx[q] = "open" /\ tx[r] = "open" /\ Subject(q) = Subject(r) => q = r
  /\ \A r \in Requests : tx[r] = "open" => \A b \in badges : b.subject # Subject(r)

WinnerExists ==
  \A r \in Requests :
    phase[r] = "conflict" => \E b \in badges : b.subject = Subject(r)

\* The inductive invariant.
Inv ==
  /\ TypeOK
  /\ Placed
  /\ TransactionsPlaced
  /\ BadgesAreCommitted
  /\ OpenIsAlone
  /\ WinnerExists
  /\ OneBadgePerSubject
  /\ IssuedIsStored

-----------------------------------------------------------------------------
(* The promise of a flight settles.  All the ways a flight ends go through *)
(* this lemma: what they differ in is the result.                          *)

LEMMA SettleTypeOK ==
  ASSUME Inv, NEW r \in Requests, NEW result \in Reply,
         phase[r] \in FlightPhases, Settle(r, result),
         UNCHANGED <<environment, call, pinned, flight, revision, tx, database>>
  PROVE  TypeOK'
<1>1. KeyDeleted(r) \in [Instances -> [Keys -> Requests \cup {None}]]
  BY DEF Inv, TypeOK, KeyDeleted
<1>2. reply' \in [Requests -> Reply] /\ phase' \in [Requests -> Phases]
  BY DEF Inv, TypeOK, Settle, Phases
<1>3. QED
  BY <1>1, <1>2 DEF Inv, TypeOK, Settle, environment, call, database

LEMMA SettleInv ==
  ASSUME Inv, NEW r \in Requests, NEW result \in Reply,
         phase[r] \in FlightPhases, Settle(r, result),
         result.outcome = "issued" => result.badge \in badges,
         UNCHANGED <<environment, call, pinned, flight, revision, tx, database>>
  PROVE  Inv'
<1>1. TypeOK'
  BY SettleTypeOK
<1>2. \A q \in Requests : phase'[q] = phase[q] \/ phase'[q] = "done"
  BY DEF Inv, TypeOK, Settle
<1>3. Placed'
  BY <1>2 DEF Inv, Placed, environment, call, FlightPhases
<1>4. TransactionsPlaced'
  BY <1>2 DEF Inv, TransactionsPlaced
<1>5. BadgesAreCommitted' /\ OpenIsAlone' /\ OneBadgePerSubject'
  BY DEF Inv, BadgesAreCommitted, OpenIsAlone, OneBadgePerSubject, Subject,
         SignedBadge, database
<1>6. WinnerExists'
  BY <1>2 DEF Inv, WinnerExists, Subject, database
<1>7. IssuedIsStored'
  <2> SUFFICES ASSUME NEW q \in Requests, reply'[q].outcome = "issued"
               PROVE  reply'[q].badge \in badges'
    BY DEF IssuedIsStored
  <2>1. CASE q \in Waiting(r)
    BY <2>1 DEF Settle, database
  <2>2. CASE q \notin Waiting(r)
    BY <2>2 DEF Settle, Inv, IssuedIsStored, database
  <2>3. QED
    BY <2>1, <2>2
<1>8. QED
  BY <1>1, <1>3, <1>4, <1>5, <1>6, <1>7 DEF Inv

-----------------------------------------------------------------------------
(* Steps that touch neither transactions, badges and answers nor the data  *)
(* a subject is made of, once the call has a transaction.                  *)

LEMMA QuietInv ==
  ASSUME Inv, TypeOK', Placed', TransactionsPlaced',
         UNCHANGED <<tx, badges>>,
         \A r \in Requests : tx[r] # "none" => Subject(r)' = Subject(r),
         \A r \in Requests : phase'[r] = "conflict" =>
           phase[r] = "conflict" /\ Subject(r)' = Subject(r),
         \A r \in Requests : reply'[r] = reply[r] \/ reply'[r].outcome # "issued"
  PROVE  Inv'
<1>1. BadgesAreCommitted'
  BY DEF Inv, TypeOK, Badge, BadgesAreCommitted, SignedBadge
<1>2. OpenIsAlone'
  BY DEF Inv, OpenIsAlone
<1>3. WinnerExists'
  BY DEF Inv, WinnerExists
<1>4. OneBadgePerSubject' /\ IssuedIsStored'
  BY DEF Inv, OneBadgePerSubject, IssuedIsStored
<1>5. QED
  BY <1>1, <1>2, <1>3, <1>4 DEF Inv

LEMMA InitInv == Init => Inv
<1> SUFFICES ASSUME Init PROVE Inv
  OBVIOUS
<1>1. TypeOK
  BY DEF Init, Policy!Init, TypeOK, Phases, EarlyPhases, FlightPhases, Reply,
         NoReply, Ended, NoBadge
<1>2. Placed /\ TransactionsPlaced /\ BadgesAreCommitted /\ OpenIsAlone
  BY DEF Init, Placed, TransactionsPlaced, BadgesAreCommitted, OpenIsAlone,
         FlightPhases
<1>3. WinnerExists /\ OneBadgePerSubject /\ IssuedIsStored
  BY DEF Init, WinnerExists, OneBadgePerSubject, IssuedIsStored, NoReply, Ended
<1>4. QED
  BY <1>1, <1>2, <1>3 DEF Inv

LEMMA EnvironmentInv ==
  ASSUME Inv,
         \/ \E p \in Policies : Publish(p)
         \/ \E t \in Targets, v \in Revisions : Rename(t, v)
         \/ \E i \in Instances : Crash(i)
  PROVE  Inv'
<1>1. CASE \E p \in Policies : Publish(p)
  <2> PICK p \in Policies : Publish(p)
    BY <1>1
  <2>1. TypeOK'
    BY DEF Inv, TypeOK, Publish, Policy!Publish, database
  <2>2. Placed' /\ TransactionsPlaced'
    BY DEF Inv, Placed, TransactionsPlaced, Publish
  <2>3. QED
    BY <2>1, <2>2, QuietInv DEF Publish, Subject, database
<1>2. CASE \E t \in Targets, v \in Revisions : Rename(t, v)
  <2> PICK t \in Targets, v \in Revisions : Rename(t, v)
    BY <1>2
  <2>1. TypeOK'
    BY DEF Inv, TypeOK, Rename, database
  <2>2. Placed' /\ TransactionsPlaced'
    BY DEF Inv, Placed, TransactionsPlaced, Rename
  <2>3. QED
    BY <2>1, <2>2, QuietInv DEF Rename, Subject, database
<1>3. CASE \E i \in Instances : Crash(i)
  <2> PICK i \in Instances : Crash(i)
    BY <1>3
  <2>1. \A r \in Requests : phase'[r] = phase[r] \/ phase'[r] = "done"
    BY DEF Inv, TypeOK, Crash
  <2>2. \A r \in Requests : reply'[r] = reply[r] \/ reply'[r] = Lost
    BY DEF Inv, TypeOK, Crash
  <2>3. Lost \in Reply /\ Lost.outcome # "issued"
    BY DEF Lost, Ended, Reply, NoBadge
  <2>4. TypeOK'
    BY <2>3 DEF Inv, TypeOK, Crash, Phases, database
  <2>5. Placed' /\ TransactionsPlaced'
    BY <2>1 DEF Inv, Placed, TransactionsPlaced, Crash, FlightPhases
  <2>6. QED
    BY <2>1, <2>2, <2>3, <2>4, <2>5, QuietInv DEF Crash, Subject, database
<1>4. QED
  BY <1>1, <1>2, <1>3

-----------------------------------------------------------------------------
(* The database *)

LEMMA CommitAppliedInv ==
  ASSUME Inv, NEW r \in Requests, CommitApplied(r)
  PROVE  Inv'
<1>1. Subject(r) \in Subjects /\ SignedBadge(r) \in Badge
  BY DEF Inv, CommitApplied, TransactionsPlaced, Subject, Subjects, SignedBadge,
         Badge
<1>2. TypeOK'
  BY <1>1 DEF Inv, TypeOK, CommitApplied, Analysis, environment, call
<1>3. Placed' /\ TransactionsPlaced'
  BY DEF Inv, TypeOK, Placed, TransactionsPlaced, CommitApplied, call
<1>4. badges' = badges \cup {[uid |-> r, subject |-> <<revision[r], pinned[r]>>]}
  BY DEF CommitApplied, SignedBadge, Subject
<1>5. BadgesAreCommitted'
  <2>1. \A b \in badges' : tx'[b.uid] = "committed"
                           /\ b.subject = <<revision[b.uid], pinned[b.uid]>>
    BY <1>4 DEF Inv, TypeOK, Badge, BadgesAreCommitted, CommitApplied, Subject
  <2>2. \A q \in Requests : tx'[q] = "committed" =>
          [uid |-> q, subject |-> <<revision[q], pinned[q]>>] \in badges'
    BY <1>4 DEF Inv, TypeOK, BadgesAreCommitted, CommitApplied, SignedBadge, Subject
  <2>3. QED
    BY <2>1, <2>2 DEF BadgesAreCommitted, CommitApplied, SignedBadge, Subject
<1>6. OpenIsAlone'
  <2>1. \A p, q \in Requests :
          tx'[p] = "open" /\ tx'[q] = "open" /\ Subject(p)' = Subject(q)' => p = q
    BY DEF Inv, TypeOK, OpenIsAlone, CommitApplied, Subject
  <2>2. ASSUME NEW q \in Requests, tx'[q] = "open", NEW b \in badges'
        PROVE  b.subject # <<revision[q], pinned[q]>>
    <3>1. q # r /\ tx[q] = "open" /\ tx[r] = "open"
      BY <2>2 DEF Inv, TypeOK, CommitApplied
    <3>2. Subject(q) # Subject(r)
      BY <3>1 DEF Inv, OpenIsAlone
    <3>3. QED
      BY <1>4, <2>2, <3>1, <3>2 DEF Inv, OpenIsAlone, Subject
  <2>3. QED
    BY <2>1, <2>2 DEF OpenIsAlone, CommitApplied, Subject
<1>7. WinnerExists'
  BY <1>4 DEF Inv, WinnerExists, CommitApplied, Subject
<1>8. OneBadgePerSubject'
  BY DEF Inv, OneBadgePerSubject, OpenIsAlone, CommitApplied, SignedBadge
<1>9. IssuedIsStored'
  BY DEF Inv, IssuedIsStored, CommitApplied
<1>10. QED
  BY <1>2, <1>3, <1>5, <1>6, <1>7, <1>8, <1>9 DEF Inv

LEMMA CommitDroppedInv ==
  ASSUME Inv, NEW r \in Requests, CommitDropped(r)
  PROVE  Inv'
<1>1. TypeOK'
  BY DEF Inv, TypeOK, CommitDropped, environment, call, database
<1>2. Placed' /\ TransactionsPlaced'
  BY DEF Inv, TypeOK, Placed, TransactionsPlaced, CommitDropped, call
<1>3. BadgesAreCommitted'
  BY DEF Inv, TypeOK, Badge, BadgesAreCommitted, CommitDropped, Subject,
         SignedBadge, database
<1>4. OpenIsAlone' /\ WinnerExists' /\ OneBadgePerSubject' /\ IssuedIsStored'
  BY DEF Inv, TypeOK, OpenIsAlone, WinnerExists, OneBadgePerSubject,
         IssuedIsStored, CommitDropped, Subject, database
<1>5. QED
  BY <1>1, <1>2, <1>3, <1>4 DEF Inv

LEMMA InsertInv ==
  ASSUME Inv, NEW r \in Requests, Insert(r)
  PROVE  Inv'
<1>1. TypeOK'
  BY DEF Inv, TypeOK, Insert, Goto, Phases, FlightPhases, environment, call,
         database
<1>2. Placed' /\ TransactionsPlaced'
  BY DEF Inv, TypeOK, Placed, TransactionsPlaced, Insert, Goto, FlightPhases, call
<1>3. tx[r] = "none"
  BY DEF Inv, TransactionsPlaced, Insert
<1>4. BadgesAreCommitted'
  BY <1>3 DEF Inv, TypeOK, Badge, BadgesAreCommitted, Insert, Subject,
              SignedBadge, database
<1>5. OpenIsAlone'
  BY DEF Inv, TypeOK, OpenIsAlone, Insert, MustWait, Violates, Stored, Subject,
         database
<1>6. WinnerExists' /\ OneBadgePerSubject' /\ IssuedIsStored'
  BY DEF Inv, TypeOK, WinnerExists, OneBadgePerSubject, IssuedIsStored, Insert,
         Goto, Subject, database
<1>7. QED
  BY <1>1, <1>2, <1>4, <1>5, <1>6 DEF Inv

LEMMA InsertConflictsInv ==
  ASSUME Inv, NEW r \in Requests, InsertConflicts(r)
  PROVE  Inv'
<1>1. TypeOK'
  BY DEF Inv, TypeOK, InsertConflicts, Goto, Phases, FlightPhases, environment,
         call, database
<1>2. Placed' /\ TransactionsPlaced'
  BY DEF Inv, TypeOK, Placed, TransactionsPlaced, InsertConflicts, Goto,
         FlightPhases, call
<1>3. tx[r] = "none"
  BY DEF Inv, TransactionsPlaced, InsertConflicts
<1>4. BadgesAreCommitted'
  BY <1>3 DEF Inv, TypeOK, Badge, BadgesAreCommitted, InsertConflicts, Subject,
              SignedBadge, database
<1>5. WinnerExists'
  BY DEF Inv, TypeOK, WinnerExists, InsertConflicts, Goto, Violates, Stored,
         Subject, database
<1>6. OpenIsAlone' /\ OneBadgePerSubject' /\ IssuedIsStored'
  BY DEF Inv, TypeOK, OpenIsAlone, OneBadgePerSubject, IssuedIsStored,
         InsertConflicts, Subject, database
<1>7. QED
  BY <1>1, <1>2, <1>4, <1>5, <1>6 DEF Inv

-----------------------------------------------------------------------------
(* The awaits of a call that end without an answer *)

LEMMA CallInv ==
  ASSUME Inv, NEW r \in Requests, NEW i \in Instances, NEW t \in Targets,
         Call(r, i, t)
  PROVE  Inv'
<1>1. TypeOK'
  BY DEF Inv, TypeOK, Call, Goto, Phases, EarlyPhases, environment, database
<1>2. Placed' /\ TransactionsPlaced'
  BY DEF Inv, TypeOK, Placed, TransactionsPlaced, Call, Goto, FlightPhases
<1>3. QED
  BY <1>1, <1>2, QuietInv
     DEF Inv, TypeOK, Call, Goto, Subject, database

LEMMA EarlyInv ==
  ASSUME Inv, NEW r \in Requests,
         PinPolicy(r) \/ Join(r) \/ Lead(r)
  PROVE  Inv'
<1>1. phase[r] \in {"policy", "criteria"} /\ tx[r] = "none"
  BY DEF Inv, TransactionsPlaced, PinPolicy, Join, Lead
<1>2. CASE PinPolicy(r)
  <2>1. TypeOK'
    BY <1>2 DEF Inv, TypeOK, PinPolicy, Goto, Phases, EarlyPhases, environment,
                call, database
  <2>2. Placed' /\ TransactionsPlaced'
    BY <1>1, <1>2 DEF Inv, TypeOK, Placed, TransactionsPlaced, PinPolicy, Goto,
                      FlightPhases, call
  <2>3. QED
    BY <1>1, <1>2, <2>1, <2>2, QuietInv
       DEF Inv, TypeOK, PinPolicy, Goto, Subject, database
<1>3. CASE Join(r)
  <2>1. at[r] \in Instances /\ Key(r) \in Keys
    BY <1>3 DEF Inv, Placed, Join, Key, Keys
  <2>2. TypeOK'
    BY <1>3, <2>1 DEF Inv, TypeOK, Join, Goto, Phases, environment, call, database
  <2>3. Placed' /\ TransactionsPlaced'
    BY <1>1, <1>3 DEF Inv, TypeOK, Placed, TransactionsPlaced, Join, Goto,
                      FlightPhases, call
  <2>4. QED
    BY <1>1, <1>3, <2>2, <2>3, QuietInv
       DEF Inv, TypeOK, Join, Goto, Subject, database
<1>4. CASE Lead(r)
  <2>1. TypeOK'
    BY <1>4 DEF Inv, TypeOK, Lead, Goto, Phases, FlightPhases, environment, call,
                database
  <2>2. Placed' /\ TransactionsPlaced'
    BY <1>1, <1>4 DEF Inv, TypeOK, Placed, TransactionsPlaced, Lead, Goto,
                      FlightPhases, call
  <2>3. QED
    BY <1>1, <1>4, <2>1, <2>2, QuietInv
       DEF Inv, TypeOK, Lead, Goto, Subject, database
<1>5. QED
  BY <1>2, <1>3, <1>4

LEMMA FailedIsReply == Failed \in Reply /\ NotIssued \in Reply
                       /\ Failed.outcome = "failed" /\ NotIssued.outcome = "notIssued"
BY DEF Failed, NotIssued, Ended, NoBadge, Reply

LEMMA RefusalInv ==
  ASSUME Inv, NEW r \in Requests, NoActivePolicy(r) \/ FailEarly(r)
  PROVE  Inv'
<1>1. /\ phase[r] \in {"policy", "criteria"}
      /\ phase' = [phase EXCEPT ![r] = "done"]
      /\ reply' = [reply EXCEPT ![r] = Failed]
      /\ UNCHANGED <<environment, call, pinned, flight, inFlight, revision, tx,
                     database>>
  BY DEF NoActivePolicy, FailEarly, Goto, EarlyPhases
<1>2. TypeOK'
  BY <1>1, FailedIsReply DEF Inv, TypeOK, Phases, environment, call, database
<1>3. Placed' /\ TransactionsPlaced'
  BY <1>1 DEF Inv, TypeOK, Placed, TransactionsPlaced, FlightPhases, call
<1>4. QED
  BY <1>1, <1>2, <1>3, FailedIsReply, QuietInv
     DEF Inv, TypeOK, Subject, database

-----------------------------------------------------------------------------
(* The flight *)

LEMMA FlightInv ==
  ASSUME Inv, NEW r \in Requests,
         Resolve(r) \/ FindNone(r) \/ Analyze(r) \/ Sign(r)
  PROVE  Inv'
<1>1. tx[r] = "none" /\ phase[r] # "conflict" /\ target[r] \in Targets
  BY DEF Inv, Placed, TransactionsPlaced, Resolve, FindNone, Analyze, Sign
<1>2. CASE Resolve(r)
  <2>1. TypeOK'
    BY <1>1, <1>2 DEF Inv, TypeOK, Resolve, Goto, Phases, FlightPhases, environment,
                call, database
  <2>2. Placed' /\ TransactionsPlaced'
    BY <1>1, <1>2 DEF Inv, TypeOK, Placed, TransactionsPlaced, Resolve, Goto,
                      FlightPhases, call
  <2>3. QED
    BY <1>1, <1>2, <2>1, <2>2, QuietInv
       DEF Inv, TypeOK, Resolve, Goto, Subject, database
<1>3. CASE FindNone(r)
  <2>1. TypeOK'
    BY <1>1, <1>3 DEF Inv, TypeOK, FindNone, Goto, Phases, FlightPhases, environment,
                call, database
  <2>2. Placed' /\ TransactionsPlaced'
    BY <1>1, <1>3 DEF Inv, TypeOK, Placed, TransactionsPlaced, FindNone, Goto,
                      FlightPhases, call
  <2>3. QED
    BY <1>1, <1>3, <2>1, <2>2, QuietInv
       DEF Inv, TypeOK, FindNone, Goto, Subject, database
<1>4. CASE Analyze(r)
  <2>1. TypeOK'
    BY <1>1, <1>4 DEF Inv, TypeOK, Analyze, Goto, Phases, FlightPhases, environment,
                call, database
  <2>2. Placed' /\ TransactionsPlaced'
    BY <1>1, <1>4 DEF Inv, TypeOK, Placed, TransactionsPlaced, Analyze, Goto,
                      FlightPhases, call
  <2>3. QED
    BY <1>1, <1>4, <2>1, <2>2, QuietInv
       DEF Inv, TypeOK, Analyze, Goto, Subject, database
<1>5. CASE Sign(r)
  <2>1. TypeOK'
    BY <1>1, <1>5 DEF Inv, TypeOK, Sign, Goto, Phases, FlightPhases, environment,
                call, database
  <2>2. Placed' /\ TransactionsPlaced'
    BY <1>1, <1>5 DEF Inv, TypeOK, Placed, TransactionsPlaced, Sign, Goto,
                      FlightPhases, call
  <2>3. QED
    BY <1>1, <1>5, <2>1, <2>2, QuietInv
       DEF Inv, TypeOK, Sign, Goto, Subject, database
<1>6. QED
  BY <1>2, <1>3, <1>4, <1>5

LEMMA RecordRejectionInv ==
  ASSUME Inv, NEW r \in Requests, RecordRejection(r)
  PROVE  Inv'
<1>1. Subject(r) \in Subjects
  BY DEF Inv, Placed, FlightPhases, RecordRejection, Subject, Subjects
<1>2. TypeOK'
  BY <1>1 DEF Inv, TypeOK, RecordRejection, Analysis, Goto, Phases, FlightPhases,
              environment, call
<1>3. Placed' /\ TransactionsPlaced'
  BY DEF Inv, TypeOK, Placed, TransactionsPlaced, RecordRejection, Goto,
         FlightPhases, call
<1>4. QED
  BY <1>2, <1>3, QuietInv DEF Inv, TypeOK, RecordRejection, Goto, Subject

LEMMA CommitAcknowledgedInv ==
  ASSUME Inv, NEW r \in Requests, CommitAcknowledged(r)
  PROVE  Inv'
<1>1. TypeOK'
  BY DEF Inv, TypeOK, CommitAcknowledged, Goto, Phases, FlightPhases, environment,
         call, database
<1>2. Placed' /\ TransactionsPlaced'
  BY DEF Inv, TypeOK, Placed, TransactionsPlaced, CommitAcknowledged, Goto,
         FlightPhases, call
<1>3. QED
  BY <1>1, <1>2, QuietInv
     DEF Inv, TypeOK, CommitAcknowledged, Goto, Subject, database

\* The flights that end: each settles with a result that is no badge, or a
\* committed one.
LEMMA AnswerInv ==
  ASSUME Inv, NEW r \in Requests,
         \/ FindExisting(r) \/ AnswerNotIssued(r) \/ AnswerWinner(r)
         \/ AnswerIssued(r) \/ CommitRefused(r) \/ FlightFails(r)
  PROVE  Inv'
<1>1. phase[r] \in FlightPhases
  BY DEF FindExisting, AnswerNotIssued, AnswerWinner, AnswerIssued, CommitRefused,
         FlightFails, FlightPhases
<1>2. UNCHANGED <<environment, call, pinned, flight, revision, tx, database>>
  BY DEF FindExisting, AnswerNotIssued, AnswerWinner, AnswerIssued, CommitRefused,
         FlightFails
<1>3. \E result \in Reply :
        /\ Settle(r, result)
        /\ result.outcome = "issued" => result.badge \in badges
  <2>1. CASE FindExisting(r) \/ AnswerWinner(r)
    <3>1. PICK b \in badges : Settle(r, IssuedReply(b, TRUE))
      BY <2>1 DEF FindExisting, AnswerWinner, Stored
    <3>2. IssuedReply(b, TRUE) \in Reply /\ IssuedReply(b, TRUE).badge = b
      BY DEF IssuedReply, Reply, Inv, TypeOK
    <3>3. QED
      BY <3>1, <3>2
  <2>2. CASE AnswerIssued(r)
    <3>1. PICK b \in badges : Settle(r, IssuedReply(b, FALSE))
      BY <2>2 DEF AnswerIssued
    <3>2. IssuedReply(b, FALSE) \in Reply /\ IssuedReply(b, FALSE).badge = b
      BY DEF IssuedReply, Reply, Inv, TypeOK
    <3>3. QED
      BY <3>1, <3>2
  <2>3. CASE AnswerNotIssued(r) \/ CommitRefused(r) \/ FlightFails(r)
    BY <2>3, FailedIsReply DEF AnswerNotIssued, CommitRefused, FlightFails
  <2>4. QED
    BY <2>1, <2>2, <2>3
<1>4. QED
  BY <1>1, <1>2, <1>3, SettleInv

LEMMA NextInv == Inv /\ [Next]_vars => Inv'
<1> SUFFICES ASSUME Inv, [Next]_vars PROVE Inv'
  OBVIOUS
<1>1. CASE \/ \E p \in Policies : Publish(p)
           \/ \E t \in Targets, v \in Revisions : Rename(t, v)
           \/ \E i \in Instances : Crash(i)
  BY <1>1, EnvironmentInv
<1>2. ASSUME NEW r \in Requests,
             \/ CommitApplied(r)
             \/ CommitDropped(r)
             \/ \E i \in Instances, t \in Targets : Call(r, i, t)
             \/ FailEarly(r)
             \/ FlightFails(r)
             \/ Progress(r)
      PROVE  Inv'
  <2>1. CASE CommitApplied(r) \/ CommitDropped(r)
    BY <2>1, CommitAppliedInv, CommitDroppedInv
  <2>2. CASE \E i \in Instances, t \in Targets : Call(r, i, t)
    BY <2>2, CallInv
  <2>3. CASE FailEarly(r) \/ NoActivePolicy(r)
    BY <2>3, RefusalInv
  <2>4. CASE PinPolicy(r) \/ Join(r) \/ Lead(r)
    BY <2>4, EarlyInv
  <2>5. CASE Resolve(r) \/ FindNone(r) \/ Analyze(r) \/ Sign(r)
    BY <2>5, FlightInv
  <2>6. CASE RecordRejection(r) \/ CommitAcknowledged(r)
    BY <2>6, RecordRejectionInv, CommitAcknowledgedInv
  <2>7. CASE Insert(r) \/ InsertConflicts(r)
    BY <2>7, InsertInv, InsertConflictsInv
  <2>8. CASE \/ FindExisting(r) \/ AnswerNotIssued(r) \/ AnswerWinner(r)
             \/ AnswerIssued(r) \/ CommitRefused(r) \/ FlightFails(r)
    BY <2>8, AnswerInv
  <2>9. QED
    BY <1>2, <2>1, <2>2, <2>3, <2>4, <2>5, <2>6, <2>7, <2>8 DEF Progress
<1>3. CASE UNCHANGED vars
  <2>1. TypeOK'
    BY <1>3 DEF Inv, TypeOK, vars
  <2>2. Placed' /\ TransactionsPlaced'
    BY <1>3 DEF Inv, Placed, TransactionsPlaced, vars
  <2>3. QED
    BY <1>3, <2>1, <2>2, QuietInv DEF Subject, vars
<1>4. QED
  BY <1>1, <1>2, <1>3 DEF Next

\* Issuance keeps the inductive invariant, whatever the numbers of calls,
\* processes, targets, revisions and policies.
THEOREM Invariance == Spec => []Inv
<1>1. Init => Inv
  BY InitInv
<1>2. Inv /\ [Next]_vars => Inv'
  BY NextInv
<1>3. QED
  BY <1>1, <1>2, PTL DEF Spec

\* Every state of issuance has the declared types.
THEOREM TypeCorrect == Spec => []TypeOK
<1>1. Inv => TypeOK
  BY DEF Inv
<1>2. QED
  BY <1>1, Invariance, PTL

\* A subject never has two badges in the database.
THEOREM OneBadge == Spec => []OneBadgePerSubject
<1>1. Inv => OneBadgePerSubject
  BY DEF Inv
<1>2. QED
  BY <1>1, Invariance, PTL

\* A caller that is told ISSUED is told a committed badge.
THEOREM NoUnstoredAnswer == Spec => []IssuedIsStored
<1>1. Inv => IssuedIsStored
  BY DEF Inv
<1>2. QED
  BY <1>1, Invariance, PTL

\* Two callers told a badge of one subject are told one uid.
THEOREM AnswersAgree == Spec => []SameSubjectSameUid
<1>1. Inv => SameSubjectSameUid
  BY DEF Inv, OneBadgePerSubject, IssuedIsStored, SameSubjectSameUid
<1>2. QED
  BY <1>1, Invariance, PTL

\* saveIssuedBadge always finds the badge that beat it.
THEOREM WinnerFound == Spec => []ConflictHasWinner
<1>1. Inv => ConflictHasWinner
  BY DEF Inv, WinnerExists, ConflictHasWinner, Stored
<1>2. QED
  BY <1>1, Invariance, PTL

-----------------------------------------------------------------------------
(* Flights and the calls that share them, what callers are told of what    *)
(* they asked, and the refinement of BadgeRegistry.                        *)
(*                                                                         *)
(* A call that joined a flight has its key, and the flight runs in the     *)
(* same process until both are answered in one step (FlightsLed); the key  *)
(* is in the map exactly that long (InFlightIsRunning).  So the answer of  *)
(* a flight fits each of its calls, as a name GitHub has used stays in the *)
(* history (RevisionNamed).                                                *)

NamesKnown == \A t \in Targets : names[t] \in everNamed[t]

RevisionNamed ==
  \A r \in Requests :
    phase[r] \in FlightPhases \ {"resolve"} => revision[r] \in everNamed[target[r]]

\* Who leads a flight, who has none yet, and whose flight a call has joined.
FlightsLed ==
  \A r \in Requests :
    /\ phase[r] \in FlightPhases => flight[r] = r
    /\ phase[r] \in {"idle"} \cup EarlyPhases => flight[r] = None
    /\ phase[r] = "joined" =>
         /\ flight[r] \in Requests /\ phase[flight[r]] \in FlightPhases
         /\ at[flight[r]] = at[r] /\ target[flight[r]] = target[r]
         /\ pinned[flight[r]] = pinned[r]

\* A call is told something exactly when it is over.
ToldAtEnd == \A r \in Requests : reply[r].outcome # "none" <=> phase[r] = "done"

\* A badge that is told as new was signed by the flight that tells it.
CreatedByFlight ==
  \A r \in Requests :
    reply[r].outcome = "issued" =>
      target[r] \in Targets /\ (~reply[r].existing => reply[r].badge.uid = flight[r])

\* The invariant, on top of Inv.
Flights ==
  /\ NamesKnown /\ RevisionNamed /\ FlightsLed /\ ToldAtEnd /\ CreatedByFlight
  /\ InFlightIsRunning /\ IssuedAsAsked /\ PassAnalysisHasBadge

-----------------------------------------------------------------------------
(* A flight settles *)

\* What a flight may answer: a badge of its subject, its own if it is new.
Fits(r, result) ==
  /\ result \in Reply /\ result.outcome # "none"
  /\ result.outcome = "issued" =>
       /\ result.badge \in badges
       /\ result.badge.subject[1] \in everNamed[target[r]] /\ result.badge.subject[2] = pinned[r]
       /\ ~result.existing => result.badge.uid = r

\* Of the calls that wait for a flight one leads it and the others have joined it.
LEMMA WaitingAre ==
  ASSUME Inv, Flights, NEW r \in Requests, phase[r] \in FlightPhases, NEW q \in Requests
  PROVE  /\ q \in Waiting(r) => phase[q] # "done" /\ (q = r \/ phase[q] = "joined") /\ flight[q] = r
         /\ q \in Waiting(r) => target[q] = target[r] /\ pinned[q] = pinned[r] /\ at[q] = at[r]
         /\ q = r => q \in Waiting(r)
         /\ phase[q] = "joined" /\ flight[q] = r => q \in Waiting(r)
<1>1. FlightsLed /\ phase[q] \in Phases
  BY DEF Flights, Inv, TypeOK
<1>2. "done" \notin FlightPhases /\ "joined" # "done" /\ r # None
  BY NoneIsFresh DEF FlightPhases
<1> QED
  BY <1>1, <1>2 DEF FlightsLed, Waiting, Phases

LEMMA SettleFlights ==
  ASSUME Inv, Flights, NEW r \in Requests, NEW result, Fits(r, result),
         phase[r] \in FlightPhases, Settle(r, result),
         UNCHANGED <<environment, call, pinned, flight, revision, tx, database>>
  PROVE  Flights'
<1>1. /\ UNCHANGED <<names, everNamed, at, target, pinned, flight, revision, analyses, badges>>
      /\ TypeOK
  BY DEF environment, call, database, Inv
<1>2. /\ \A q \in Requests : phase'[q] = IF q \in Waiting(r) THEN "done" ELSE phase[q]
      /\ \A q \in Requests : reply'[q] = IF q \in Waiting(r) THEN result ELSE reply[q]
  BY DEF Settle
<1>3. \A q \in Requests :
        /\ q \in Waiting(r) => phase[q] # "done" /\ (q = r \/ phase[q] = "joined") /\ flight[q] = r
        /\ q \in Waiting(r) => target[q] = target[r] /\ pinned[q] = pinned[r] /\ at[q] = at[r]
        /\ q = r => q \in Waiting(r)
        /\ phase[q] = "joined" /\ flight[q] = r => q \in Waiting(r)
  BY WaitingAre
<1>4. "done" \notin FlightPhases /\ "joined" \notin FlightPhases
      /\ "done" \notin {"idle"} \cup EarlyPhases /\ "joined" \notin EarlyPhases
  BY DEF FlightPhases, EarlyPhases
<1>5. NamesKnown' /\ RevisionNamed' /\ PassAnalysisHasBadge'
  BY <1>1, <1>2, <1>4 DEF Flights, NamesKnown, RevisionNamed, PassAnalysisHasBadge
<1>6. FlightsLed'
  <2>1. ASSUME NEW q \in Requests, q \notin Waiting(r), phase[q] = "joined"
        PROVE  flight[q] \notin Waiting(r)
    BY <1>3, <1>4, <2>1 DEF Flights, FlightsLed
  <2> QED
    BY <1>1, <1>2, <1>4, <2>1 DEF Flights, FlightsLed
<1>7. ToldAtEnd'
  BY <1>2, <1>3 DEF Flights, ToldAtEnd, Fits
<1>8. CreatedByFlight'
  <2>1. target[r] \in Targets
    BY <1>4 DEF Inv, Placed, FlightPhases
  <2> QED
    BY <1>1, <1>2, <1>3, <2>1 DEF Flights, CreatedByFlight, Fits
<1>9. IssuedAsAsked'
  BY <1>1, <1>2, <1>3 DEF Flights, IssuedAsAsked, Fits
<1>10. InFlightIsRunning'
  <2>1. at[r] \in Instances /\ Key(r) \in Keys
    <3>1. r \in Requests /\ phase[r] \notin {"idle", "done"} /\ phase[r] \in {"criteria", "joined"} \cup FlightPhases
      BY DEF FlightPhases
    <3> QED
      BY <3>1 DEF Inv, Placed, Key, Keys
  <2>2. \A i \in Instances, k \in Keys :
          inFlight'[i][k] = IF i = at[r] /\ k = Key(r) THEN None ELSE inFlight[i][k]
    BY <1>1, <2>1 DEF Settle, KeyDeleted, TypeOK
  <2>3. \A q \in Requests : Key(q)' = Key(q)
    BY <1>1 DEF Key
  <2> SUFFICES ASSUME NEW i \in Instances, NEW k \in Keys, NEW q \in Requests
               PROVE  inFlight'[i][k] = q <=>
                        at'[q] = i /\ phase'[q] \in FlightPhases /\ Key(q)' = k
    BY DEF InFlightIsRunning
  <2>4. inFlight[i][k] = q <=> at[q] = i /\ phase[q] \in FlightPhases /\ Key(q) = k
    BY DEF Flights, InFlightIsRunning
  <2>5. inFlight[at[r]][Key(r)] = r
    BY <2>1 DEF Flights, InFlightIsRunning
  <2>6. phase'[q] \in FlightPhases <=> phase[q] \in FlightPhases /\ q # r
    BY <1>2, <1>3, <1>4
  <2> HIDE DEF Key
  <2>7. CASE i = at[r] /\ k = Key(r)
    BY <1>1, <2>2, <2>3, <2>4, <2>5, <2>6, <2>7, NoneIsFresh
  <2>8. CASE ~(i = at[r] /\ k = Key(r))
    BY <1>1, <2>2, <2>3, <2>4, <2>6, <2>8
  <2> QED
    BY <2>7, <2>8
<1> QED
  BY <1>5, <1>6, <1>7, <1>8, <1>9, <1>10 DEF Flights

LEMMA AnswerFits ==
  ASSUME Inv, Flights, NEW r \in Requests,
         \/ FindExisting(r) \/ AnswerNotIssued(r) \/ AnswerWinner(r)
         \/ AnswerIssued(r) \/ CommitRefused(r) \/ FlightFails(r)
  PROVE  /\ \E result : Fits(r, result) /\ Settle(r, result)
         /\ phase[r] \in FlightPhases
         /\ UNCHANGED <<environment, call, pinned, flight, revision, tx, database>>
<1>1. phase[r] \in FlightPhases
  BY DEF FindExisting, AnswerNotIssued, AnswerWinner, AnswerIssued, CommitRefused,
         FlightFails, FlightPhases
<1>2. UNCHANGED <<environment, call, pinned, flight, revision, tx, database>>
  BY DEF FindExisting, AnswerNotIssued, AnswerWinner, AnswerIssued, CommitRefused,
         FlightFails
<1>3. ASSUME NEW b \in badges, b.subject = Subject(r), phase[r] # "resolve", NEW e \in BOOLEAN,
             e \/ b.uid = r
      PROVE  Fits(r, IssuedReply(b, e))
  <2>1. b.subject[1] \in everNamed[target[r]] /\ b.subject[2] = pinned[r]
    BY <1>1, <1>3 DEF Subject, Flights, RevisionNamed
  <2>2. /\ IssuedReply(b, e) \in Reply /\ IssuedReply(b, e).badge = b
        /\ IssuedReply(b, e).existing = e /\ IssuedReply(b, e).outcome = "issued"
    BY DEF IssuedReply, Reply, Inv, TypeOK
  <2> QED
    BY <1>3, <2>1, <2>2 DEF Fits
<1>4. CASE FindExisting(r) \/ AnswerWinner(r)
  <2>1. phase[r] # "resolve" /\ \E b \in Stored(r) : Settle(r, IssuedReply(b, TRUE))
    BY <1>4 DEF FindExisting, AnswerWinner
  <2> QED
    BY <1>1, <1>2, <1>3, <2>1 DEF Stored
<1>5. CASE AnswerIssued(r)
  <2>1. PICK b \in badges : b.uid = r /\ Settle(r, IssuedReply(b, FALSE))
    BY <1>5 DEF AnswerIssued
  <2>2. b.subject = Subject(r) /\ phase[r] # "resolve"
    BY <1>5, <2>1 DEF Inv, BadgesAreCommitted, AnswerIssued
  <2> QED
    BY <1>1, <1>2, <1>3, <2>1, <2>2
<1>6. CASE AnswerNotIssued(r) \/ CommitRefused(r) \/ FlightFails(r)
  <2>1. Fits(r, NotIssued) /\ Fits(r, Failed)
    BY FailedIsReply DEF Fits, NotIssued, Failed, Ended
  <2> QED
    BY <1>1, <1>2, <1>6, <2>1 DEF AnswerNotIssued, CommitRefused, FlightFails
<1> QED
  BY <1>4, <1>5, <1>6

LEMMA AnswerFlights ==
  ASSUME Inv, Flights, NEW r \in Requests,
         \/ FindExisting(r) \/ AnswerNotIssued(r) \/ AnswerWinner(r)
         \/ AnswerIssued(r) \/ CommitRefused(r) \/ FlightFails(r)
  PROVE  Flights'
BY AnswerFits, SettleFlights

-----------------------------------------------------------------------------
(* The steps that tell nobody anything *)

\* A call r goes on, or nobody does: what makes such a step keep Flights.
LEMMA QuietFlights ==
  ASSUME Inv, Flights, NEW r \in Requests,
         UNCHANGED <<names, everNamed, reply, badges>>,
         {a \in analyses' : a.decision = "PASS"} = {a \in analyses : a.decision = "PASS"},
         \A q \in Requests \ {r} : /\ phase'[q] = phase[q] /\ at'[q] = at[q]
                                    /\ target'[q] = target[q] /\ pinned'[q] = pinned[q]
                                    /\ flight'[q] = flight[q] /\ revision'[q] = revision[q],
         phase[r] # "done", phase'[r] # "done",
         phase'[r] \in FlightPhases \ {"resolve"} => revision'[r] \in everNamed[target'[r]],
         phase[r] \in FlightPhases => phase'[r] \in FlightPhases /\ at'[r] = at[r]
                                     /\ target'[r] = target[r] /\ pinned'[r] = pinned[r],
         phase'[r] \in FlightPhases => flight'[r] = r,
         phase'[r] \in {"idle"} \cup EarlyPhases => flight'[r] = None,
         phase'[r] = "joined" =>
           /\ flight'[r] \in Requests \ {r} /\ phase[flight'[r]] \in FlightPhases
           /\ at[flight'[r]] = at'[r] /\ target[flight'[r]] = target'[r]
           /\ pinned[flight'[r]] = pinned'[r],
         InFlightIsRunning'
  PROVE  Flights'
<1>1. NamesKnown' /\ RevisionNamed'
  BY DEF Flights, NamesKnown, RevisionNamed
<1>2. FlightsLed'
  <2>1. ASSUME NEW q \in Requests \ {r}, phase[q] = "joined"
        PROVE  /\ flight[q] \in Requests /\ phase'[flight[q]] \in FlightPhases
               /\ at'[flight[q]] = at[q] /\ target'[flight[q]] = target[q]
               /\ pinned'[flight[q]] = pinned[q]
    BY <2>1 DEF Flights, FlightsLed
  <2>2. ASSUME NEW q \in Requests \ {r}
        PROVE  /\ phase'[q] \in FlightPhases => flight'[q] = q
               /\ phase'[q] \in {"idle"} \cup EarlyPhases => flight'[q] = None
               /\ phase'[q] = "joined" =>
                    /\ flight'[q] \in Requests /\ phase'[flight'[q]] \in FlightPhases
                    /\ at'[flight'[q]] = at'[q] /\ target'[flight'[q]] = target'[q]
                    /\ pinned'[flight'[q]] = pinned'[q]
    BY <2>1 DEF Flights, FlightsLed
  <2> QED
    BY <2>2 DEF FlightsLed
<1>3. ToldAtEnd'
  BY DEF Flights, ToldAtEnd
<1>4. reply[r].outcome # "issued"
  BY DEF Flights, ToldAtEnd
<1>5. CreatedByFlight' /\ IssuedAsAsked'
  BY <1>4 DEF Flights, CreatedByFlight, IssuedAsAsked
<1>6. PassAnalysisHasBadge'
  BY DEF Flights, PassAnalysisHasBadge
<1> QED
  BY <1>1, <1>2, <1>3, <1>5, <1>6 DEF Flights

\* Between its start and its answer a flight keeps its key and its place in the map.
LEMMA FlightFlights ==
  ASSUME Inv, Flights, NEW r \in Requests,
         \/ Resolve(r) \/ FindNone(r) \/ Analyze(r) \/ RecordRejection(r)
         \/ Sign(r) \/ Insert(r) \/ InsertConflicts(r) \/ CommitAcknowledged(r)
  PROVE  Flights'
<1> USE DEF Resolve, FindNone, Analyze, RecordRejection, Sign, Insert, InsertConflicts,
            CommitAcknowledged
<1>1. /\ UNCHANGED <<names, everNamed, reply, badges, at, target, pinned, flight, inFlight>>
      /\ TypeOK /\ phase[r] \in FlightPhases
  BY DEF environment, call, database, Inv, FlightPhases
<1>2. \E p \in FlightPhases \ {"resolve"} : phase' = [phase EXCEPT ![r] = p]
  BY DEF Goto, FlightPhases
<1>3. {a \in analyses' : a.decision = "PASS"} = {a \in analyses : a.decision = "PASS"}
  BY DEF database
<1>4. \/ revision' = [revision EXCEPT ![r] = names[target[r]]]
      \/ revision' = revision /\ phase[r] # "resolve"
  BY DEF Goto
<1> USE DEF Goto
<1>5. /\ phase'[r] \in FlightPhases \ {"resolve"}
      /\ \A q \in Requests \ {r} : phase'[q] = phase[q] /\ revision'[q] = revision[q]
  BY <1>1, <1>2, <1>4 DEF TypeOK
<1>6. revision'[r] \in everNamed[target[r]]
  <2>1. target[r] \in Targets
    BY <1>1 DEF Inv, Placed, FlightPhases
  <2>2. names[target[r]] \in everNamed[target[r]]
    BY <2>1 DEF Flights, NamesKnown
  <2>3. phase[r] # "resolve" => revision[r] \in everNamed[target[r]]
    BY <1>1 DEF Flights, RevisionNamed
  <2> QED
    BY <1>1, <1>4, <2>2, <2>3 DEF TypeOK
<1>7. InFlightIsRunning'
  BY <1>1, <1>5 DEF Flights, InFlightIsRunning, Key
<1>8. /\ phase[r] # "done" /\ phase'[r] # "done" /\ phase'[r] # "joined"
      /\ phase'[r] \notin {"idle"} \cup EarlyPhases /\ flight'[r] = r
  BY <1>1, <1>5 DEF FlightPhases, EarlyPhases, Flights, FlightsLed
<1> QED
  BY <1>1, <1>3, <1>5, <1>6, <1>7, <1>8, QuietFlights

LEMMA StartFlights ==
  ASSUME Inv, Flights, NEW r \in Requests,
         \/ \E i \in Instances, t \in Targets : Call(r, i, t)
         \/ PinPolicy(r) \/ Join(r) \/ Lead(r)
  PROVE  Flights'
<1>1. /\ UNCHANGED <<names, everNamed, reply, badges, analyses, revision>> /\ TypeOK
      /\ phase[r] \in {"idle"} \cup EarlyPhases
  BY DEF Call, PinPolicy, Join, Lead, environment, call, database, Inv, EarlyPhases
<1>2. phase[r] \notin FlightPhases /\ phase[r] # "done" /\ flight[r] = None
  BY <1>1 DEF FlightPhases, EarlyPhases, Flights, FlightsLed
<1>3. \A i \in Instances, k \in Keys, q \in Requests :
        inFlight[i][k] = q <=> at[q] = i /\ phase[q] \in FlightPhases /\ Key(q) = k
  BY DEF Flights, InFlightIsRunning
<1>4. CASE (\E i \in Instances, t \in Targets : Call(r, i, t)) \/ PinPolicy(r)
  <2>1. /\ UNCHANGED <<flight, inFlight>> /\ phase'[r] \in EarlyPhases
        /\ \A q \in Requests \ {r} : /\ phase'[q] = phase[q] /\ at'[q] = at[q]
                                      /\ target'[q] = target[q] /\ pinned'[q] = pinned[q]
    BY <1>1, <1>4 DEF Call, PinPolicy, Goto, TypeOK, EarlyPhases, call
  <2>2. phase'[r] \notin FlightPhases /\ phase'[r] # "done" /\ phase'[r] # "joined"
    BY <2>1 DEF FlightPhases, EarlyPhases
  <2>3. InFlightIsRunning'
    BY <1>2, <1>3, <2>1, <2>2 DEF InFlightIsRunning, Key
  <2> QED
    BY <1>1, <1>2, <2>1, <2>2, <2>3, QuietFlights
<1>5. CASE Join(r) \/ Lead(r)
  <2>1. at[r] \in Instances /\ target[r] \in Targets /\ pinned[r] \in Policies
    BY <1>5 DEF Inv, Placed, Join, Lead
  <2>2. Key(r) \in Keys
    BY <2>1 DEF Key, Keys
  <2>3. UNCHANGED <<at, target, pinned>>
    BY <1>5 DEF Join, Lead, call
  <2>4. CASE Join(r)
    <3>1. /\ inFlight[at[r]][Key(r)] # None /\ inFlight' = inFlight /\ phase'[r] = "joined"
          /\ flight'[r] = inFlight[at[r]][Key(r)]
          /\ \A q \in Requests \ {r} : phase'[q] = phase[q] /\ flight'[q] = flight[q]
      BY <1>1, <2>4 DEF Join, Goto, TypeOK
    <3>2. flight'[r] \in Requests
      BY <1>1, <2>1, <2>2, <3>1 DEF TypeOK
    <3>3. /\ at[flight'[r]] = at[r] /\ phase[flight'[r]] \in FlightPhases
          /\ Key(flight'[r]) = Key(r)
      BY <1>3, <2>1, <2>2, <3>1, <3>2
    <3>4. target[flight'[r]] = target[r] /\ pinned[flight'[r]] = pinned[r] /\ flight'[r] # r
      BY <1>2, <3>3 DEF Key
    <3>5. phase'[r] \notin FlightPhases /\ phase'[r] \notin {"idle", "done"} \cup EarlyPhases
      BY <3>1 DEF FlightPhases, EarlyPhases
    <3>6. InFlightIsRunning'
      BY <1>2, <1>3, <2>3, <3>1, <3>5 DEF InFlightIsRunning, Key
    <3> QED
      BY <1>1, <1>2, <2>3, <3>1, <3>2, <3>3, <3>4, <3>5, <3>6, QuietFlights
  <2>5. CASE Lead(r)
    <3>1. /\ inFlight[at[r]][Key(r)] = None /\ phase'[r] = "resolve" /\ flight'[r] = r
          /\ inFlight' = [inFlight EXCEPT ![at[r]] = [@ EXCEPT ![Key(r)] = r]]
          /\ \A q \in Requests \ {r} : phase'[q] = phase[q] /\ flight'[q] = flight[q]
      BY <1>1, <2>5 DEF Lead, Goto, TypeOK
    <3>2. \A i \in Instances, k \in Keys :
            inFlight'[i][k] = IF i = at[r] /\ k = Key(r) THEN r ELSE inFlight[i][k]
      BY <1>1, <2>1, <2>2, <3>1 DEF TypeOK
    <3>3. /\ phase'[r] \in FlightPhases /\ phase'[r] \notin {"idle", "done", "joined"} \cup EarlyPhases
          /\ phase'[r] \notin FlightPhases \ {"resolve"}
      BY <3>1 DEF FlightPhases, EarlyPhases
    <3>4. \A q \in Requests : Key(q)' = Key(q)
      BY <2>3 DEF Key
    <3>5. InFlightIsRunning'
      <4> SUFFICES ASSUME NEW i \in Instances, NEW k \in Keys, NEW q \in Requests
                   PROVE  inFlight'[i][k] = q <=>
                            at'[q] = i /\ phase'[q] \in FlightPhases /\ Key(q)' = k
        BY DEF InFlightIsRunning
      <4>1. inFlight[i][k] = q <=> at[q] = i /\ phase[q] \in FlightPhases /\ Key(q) = k
        BY <1>3
      <4>2. q # None
        BY NoneIsFresh
      <4> HIDE DEF Key
      <4>3. CASE q = r
        BY <1>2, <2>3, <3>2, <3>3, <3>4, <4>1, <4>3
      <4>4. CASE q # r
        BY <2>3, <3>1, <3>2, <3>4, <4>1, <4>2, <4>4
      <4> QED
        BY <4>3, <4>4
    <3> QED
      BY <1>1, <1>2, <2>3, <3>1, <3>3, <3>5, QuietFlights
  <2> QED
    BY <1>5, <2>4, <2>5
<1> QED
  BY <1>4, <1>5

-----------------------------------------------------------------------------
(* Calls that are over without a flight, the environment and the database *)

\* The calls in cut are over, with every call that joined one of them.
LEMMA CutFlights ==
  ASSUME Inv, Flights, NEW cut \in SUBSET Requests, NEW result,
         result.outcome \in {"failed", "lost"},
         UNCHANGED <<names, everNamed, at, target, pinned, flight, revision, analyses, badges>>,
         \A q \in Requests : phase'[q] = IF q \in cut THEN "done" ELSE phase[q],
         \A q \in Requests : reply'[q] = IF q \in cut THEN result ELSE reply[q],
         \A q \in Requests \ cut : phase[q] = "joined" => flight[q] \notin cut,
         InFlightIsRunning'
  PROVE  Flights'
<1>1. "done" \notin FlightPhases \cup {"idle", "joined"} \cup EarlyPhases
  BY DEF FlightPhases, EarlyPhases
<1>2. NamesKnown' /\ RevisionNamed' /\ PassAnalysisHasBadge'
  BY <1>1 DEF Flights, NamesKnown, RevisionNamed, PassAnalysisHasBadge
<1>3. FlightsLed'
  BY <1>1 DEF Flights, FlightsLed
<1>4. ToldAtEnd' /\ CreatedByFlight' /\ IssuedAsAsked'
  BY DEF Flights, ToldAtEnd, CreatedByFlight, IssuedAsAsked
<1> QED
  BY <1>2, <1>3, <1>4 DEF Flights

LEMMA RefusalFlights ==
  ASSUME Inv, Flights, NEW r \in Requests, NoActivePolicy(r) \/ FailEarly(r)
  PROVE  Flights'
<1>1. /\ UNCHANGED <<names, everNamed, at, target, pinned, flight, inFlight, revision, analyses, badges>>
      /\ phase[r] \in EarlyPhases
  BY DEF NoActivePolicy, FailEarly, environment, call, database, EarlyPhases
<1>2. /\ \A q \in Requests : phase'[q] = IF q \in {r} THEN "done" ELSE phase[q]
      /\ \A q \in Requests : reply'[q] = IF q \in {r} THEN Failed ELSE reply[q]
  BY DEF NoActivePolicy, FailEarly, Goto, Inv, TypeOK
<1>3. phase[r] \notin FlightPhases /\ "done" \notin FlightPhases
  BY <1>1 DEF FlightPhases, EarlyPhases
<1>4. \A q \in Requests \ {r} : phase[q] = "joined" => flight[q] \notin {r}
  BY <1>3 DEF Flights, FlightsLed
<1>5. InFlightIsRunning'
  BY <1>1, <1>2, <1>3 DEF Flights, InFlightIsRunning, Key
<1>6. {r} \in SUBSET Requests /\ Failed.outcome \in {"failed", "lost"}
  BY DEF Failed, Ended
<1>7. \E cut \in SUBSET Requests :
        /\ \A q \in Requests : phase'[q] = IF q \in cut THEN "done" ELSE phase[q]
        /\ \A q \in Requests : reply'[q] = IF q \in cut THEN Failed ELSE reply[q]
        /\ \A q \in Requests \ cut : phase[q] = "joined" => flight[q] \notin cut
  BY <1>2, <1>4, <1>6
<1> QED
  BY <1>1, <1>5, <1>6, <1>7, CutFlights

LEMMA CrashFlights ==
  ASSUME Inv, Flights, NEW i \in Instances, Crash(i)
  PROVE  Flights'
<1> DEFINE cut == {r \in Requests : at[r] = i /\ phase[r] # "done"}
<1>1. /\ UNCHANGED <<names, everNamed, at, target, pinned, flight, revision, analyses, badges>>
      /\ inFlight' = [inFlight EXCEPT ![i] = [k \in Keys |-> None]]
      /\ \A q \in Requests : phase'[q] = IF q \in cut THEN "done" ELSE phase[q]
      /\ \A q \in Requests : reply'[q] = IF q \in cut THEN Lost ELSE reply[q]
  BY DEF Crash, database
<1>2. "done" \notin FlightPhases
  BY DEF FlightPhases
<1>3. \A q \in Requests : q \in cut <=> at[q] = i /\ phase[q] # "done"
  OBVIOUS
<1> HIDE DEF cut
<1>4. \A q \in Requests \ cut : phase[q] = "joined" => flight[q] \notin cut
  BY <1>3 DEF Flights, FlightsLed
<1>5. InFlightIsRunning'
  <2>1. \A j \in Instances, k \in Keys :
          inFlight'[j][k] = IF j = i THEN None ELSE inFlight[j][k]
    BY <1>1 DEF Inv, TypeOK
  <2>2. \A q \in Requests : phase'[q] \in FlightPhases <=> phase[q] \in FlightPhases /\ at[q] # i
    BY <1>1, <1>2, <1>3
  <2> QED
    BY <1>1, <2>1, <2>2, NoneIsFresh DEF Flights, InFlightIsRunning, Key
<1>6. cut \in SUBSET Requests /\ Lost.outcome \in {"failed", "lost"}
  BY DEF cut, Lost, Ended
<1> QED
  BY <1>1, <1>4, <1>5, <1>6, CutFlights

LEMMA OutsideFlights ==
  ASSUME Inv, Flights,
         \/ \E p \in Policies : Publish(p)
         \/ \E t \in Targets, v \in Revisions : Rename(t, v)
         \/ \E r \in Requests : CommitApplied(r) \/ CommitDropped(r)
         \/ UNCHANGED vars
  PROVE  Flights'
<1>1. UNCHANGED <<phase, at, target, pinned, flight, inFlight, revision, reply>>
  BY DEF Publish, Rename, CommitApplied, CommitDropped, vars, call
<1>2. /\ \A t \in Targets : everNamed[t] \subseteq everNamed'[t]
      /\ NamesKnown'
  <2>1. CASE UNCHANGED <<names, everNamed>>
    BY <2>1 DEF Flights, NamesKnown
  <2>2. ASSUME NEW t \in Targets, NEW v \in Revisions, Rename(t, v)
        PROVE  /\ \A u \in Targets : everNamed[u] \subseteq everNamed'[u]
               /\ NamesKnown'
    <3>1. /\ names' = [names EXCEPT ![t] = v]
          /\ everNamed' = [everNamed EXCEPT ![t] = @ \cup {v}]
      BY <2>2 DEF Rename
    <3>2. names \in [Targets -> Revisions] /\ everNamed \in [Targets -> SUBSET Revisions]
      BY DEF Inv, TypeOK
    <3> QED
      BY <3>1, <3>2 DEF Flights, NamesKnown
  <2> QED
    BY <2>1, <2>2 DEF Publish, CommitApplied, CommitDropped, vars, environment
<1>3. RevisionNamed'
  <2>1. ASSUME NEW r \in Requests, phase[r] \in FlightPhases \ {"resolve"}
        PROVE  revision[r] \in everNamed'[target[r]]
    <3>1. target[r] \in Targets
      BY <2>1 DEF Inv, Placed, FlightPhases
    <3> QED
      BY <1>2, <2>1, <3>1 DEF Flights, RevisionNamed
  <2> QED
    BY <1>1, <2>1 DEF RevisionNamed
<1>4. FlightsLed' /\ ToldAtEnd' /\ CreatedByFlight' /\ InFlightIsRunning'
  BY <1>1 DEF Flights, FlightsLed, ToldAtEnd, CreatedByFlight, InFlightIsRunning, Key
<1>5. IssuedAsAsked'
  <2>1. ASSUME NEW r \in Requests, reply[r].outcome = "issued"
        PROVE  /\ reply[r].badge.subject[1] \in everNamed'[target[r]]
               /\ reply[r].badge.subject[2] = pinned[r]
    <3>1. /\ reply[r].badge.subject[1] \in everNamed[target[r]]
          /\ reply[r].badge.subject[2] = pinned[r]
      BY <2>1 DEF Flights, IssuedAsAsked
    <3>2. everNamed[target[r]] \subseteq everNamed'[target[r]]
      BY <1>2, <2>1 DEF Flights, CreatedByFlight
    <3> QED
      BY <3>1, <3>2
  <2> QED
    BY <1>1, <2>1 DEF IssuedAsAsked
<1>6. PassAnalysisHasBadge'
  <2>1. CASE UNCHANGED <<analyses, badges>>
    BY <2>1 DEF Flights, PassAnalysisHasBadge
  <2>2. ASSUME NEW r \in Requests, CommitApplied(r)
        PROVE  PassAnalysisHasBadge'
    <3> DEFINE a == [by |-> r, subject |-> Subject(r), decision |-> "PASS"]
    <3>1. analyses' = analyses \cup {a} /\ a.by = r /\ a.decision = "PASS"
      BY <2>2 DEF CommitApplied
    <3>2. badges' = badges \cup {SignedBadge(r)} /\ SignedBadge(r).uid = r
      BY <2>2 DEF CommitApplied, SignedBadge
    <3> HIDE DEF a
    <3>3. {x \in analyses' : x.decision = "PASS"} = {x \in analyses : x.decision = "PASS"} \cup {a}
      BY <3>1
    <3> QED
      BY <3>1, <3>2, <3>3 DEF Flights, PassAnalysisHasBadge
  <2> QED
    BY <2>1, <2>2 DEF Publish, Rename, CommitDropped, vars, database
<1> QED
  BY <1>2, <1>3, <1>4, <1>5, <1>6 DEF Flights

LEMMA NextFlights ==
  ASSUME Inv, Flights, [Next]_vars
  PROVE  Flights'
BY OutsideFlights, CrashFlights, RefusalFlights, StartFlights, FlightFlights, AnswerFlights
   DEF Next, Progress

LEMMA InitFlights == Init => Flights
<1> SUFFICES ASSUME Init PROVE Flights
  OBVIOUS
<1>1. "idle" \notin FlightPhases \cup {"done", "joined"} /\ NoReply.outcome = "none"
  BY DEF FlightPhases, NoReply, Ended
<1>2. NamesKnown /\ RevisionNamed /\ FlightsLed /\ PassAnalysisHasBadge
  BY <1>1 DEF Init, NamesKnown, RevisionNamed, FlightsLed, PassAnalysisHasBadge
<1>3. ToldAtEnd /\ CreatedByFlight /\ IssuedAsAsked
  BY <1>1 DEF Init, ToldAtEnd, CreatedByFlight, IssuedAsAsked
<1>4. InFlightIsRunning
  BY <1>1, NoneIsFresh DEF Init, InFlightIsRunning
<1> QED
  BY <1>2, <1>3, <1>4 DEF Flights

\* Issuance keeps what holds of flights and of what callers are told.
THEOREM FlightsHold == Spec => []Flights
<1>1. Init => Flights
  BY InitFlights
<1>2. Inv /\ Flights /\ [Next]_vars => Flights'
  BY NextFlights
<1> QED
  BY <1>1, <1>2, Invariance, PTL DEF Spec

\* #inFlight holds exactly the running flights of its process, each under its own key,
\* whatever fails, so nobody joins a flight that is over and none is left behind.
THEOREM MapIsExact == Spec => []InFlightIsRunning
<1>1. Flights => InFlightIsRunning
  BY DEF Flights
<1> QED
  BY <1>1, FlightsHold, PTL

\* A caller that is told a badge asked for it: its URL has named that repository, and the
\* policy is the one its call pinned, also if it joined the flight of another.
THEOREM ToldWhatWasAsked == Spec => []IssuedAsAsked
<1>1. Flights => IssuedAsAsked
  BY DEF Flights
<1> QED
  BY <1>1, FlightsHold, PTL

\* A PASS analysis is committed with its badge or not at all (saveIssuedBadge).
THEOREM PassMeansBadge == Spec => []PassAnalysisHasBadge
<1>1. Flights => PassAnalysisHasBadge
  BY DEF Flights
<1> QED
  BY <1>1, FlightsHold, PTL

\* Of all the flights that are about one subject, in any number of processes, one at most
\* tells its callers that the badge is new (existing: false, the 201 of the API).
THEOREM OneTellsNew == Spec => []OneFlightCreates
<1>1. Inv /\ Flights => OneFlightCreates
  BY DEF Inv, IssuedIsStored, OneBadgePerSubject, Flights, CreatedByFlight, OneFlightCreates
<1> QED
  BY <1>1, Invariance, FlightsHold, PTL

-----------------------------------------------------------------------------
(* The refinement of BadgeRegistry *)

LEMMA BadgeOfIs ==
  ASSUME Inv
  PROVE  /\ \A b \in badges : BadgeOf(b.subject) = b.uid /\ b.subject \in Subjects
         /\ \A b \in badges : b.uid \in Requests /\ b.uid # None
         /\ \A s : (\A b \in badges : b.subject # s) => BadgeOf(s) = None
<1>1. \A b \in badges : b.uid \in Requests /\ b.subject \in Subjects
  BY DEF Inv, TypeOK, Badge
<1>2. ASSUME NEW b \in badges PROVE BadgeOf(b.subject) = b.uid
  <2>1. (CHOOSE c \in badges : c.subject = b.subject) = b
    BY DEF Inv, OneBadgePerSubject
  <2> QED
    BY <2>1 DEF BadgeOf
<1> QED
  BY <1>1, <1>2, NoneIsFresh DEF BadgeOf

LEMMA ToldIs ==
  ASSUME NEW r \in Requests, Inv
  PROVE  /\ reply[r].outcome = "none" => Told(r) = <<"nothing">>
         /\ reply[r].outcome = "issued" =>
              Told(r) = <<"issued", reply[r].badge.subject, reply[r].badge.uid>>
         /\ reply[r].outcome \notin {"none", "issued"} => Told(r) = <<"other">>
BY DEF Told

LEMMA QuietRegistry ==
  ASSUME UNCHANGED <<badges, reply>>
  PROVE  UNCHANGED Registry!registryVars
BY DEF Registry!registryVars, BadgeOf, Told

\* The calls in group are told the same, at once.
LEMMA TellRegistry ==
  ASSUME Inv, Inv', Flights, NEW group \in SUBSET Requests, NEW result,
         \A q \in group : phase[q] # "done",
         badges' = badges,
         \A q \in Requests : reply'[q] = IF q \in group THEN result ELSE reply[q],
         result.outcome # "none", result.outcome = "issued" => result.badge \in badges
  PROVE  Registry!Next
<1>1. \A q \in group : Told(q) = <<"nothing">>
  BY ToldIs DEF Flights, ToldAtEnd
<1>2. \A q \in Requests \ group : Told(q)' = Told(q)
  BY DEF Told
<1>3. UNCHANGED [s \in Subjects |-> BadgeOf(s)]
  BY DEF BadgeOf
<1>4. CASE result.outcome = "issued"
  <2>1. result.badge.subject \in Subjects /\ BadgeOf(result.badge.subject) = result.badge.uid
        /\ result.badge.uid # None
    BY <1>4, BadgeOfIs
  <2>2. \A q \in group : Told(q)' = <<"issued", result.badge.subject, result.badge.uid>>
    BY <1>4 DEF Told
  <2>3. \A q \in Requests :
          Told(q)' = IF q \in group THEN <<"issued", result.badge.subject, BadgeOf(result.badge.subject)>>
                                    ELSE Told(q)
    BY <1>2, <2>1, <2>2
  <2> HIDE DEF Told
  <2>4. Registry!TellIssued(group, result.badge.subject)
    BY <1>1, <1>3, <2>1, <2>3 DEF Registry!TellIssued, Registry!Nothing
  <2> QED
    BY <2>1, <2>4 DEF Registry!Next
<1>5. CASE result.outcome # "issued"
  <2>1. \A q \in group : Told(q)' = <<"other">>
    BY <1>5 DEF Told
  <2>2. \A q \in Requests : Told(q)' = IF q \in group THEN <<"other">> ELSE Told(q)
    BY <1>2, <2>1
  <2>3. Registry!TellOther(group)
    BY <1>1, <1>3, <2>2 DEF Registry!TellOther, Registry!Nothing, Registry!Other
  <2> QED
    BY <2>3 DEF Registry!Next
<1> QED
  BY <1>4, <1>5

LEMMA CommitRegistry ==
  ASSUME Inv, Inv', NEW r \in Requests, CommitApplied(r)
  PROVE  Registry!Next
<1>1. tx[r] = "open" /\ reply' = reply /\ badges' = badges \cup {SignedBadge(r)}
  BY DEF CommitApplied
<1>2. /\ SignedBadge(r).subject = Subject(r) /\ SignedBadge(r).uid = r
      /\ Subject(r) \in Subjects
  BY <1>1 DEF SignedBadge, Subject, Subjects, Inv, TransactionsPlaced
<1>3. BadgeOf(Subject(r)) = None
  <2>1. \A b \in badges : b.subject # Subject(r)
    BY <1>1 DEF Inv, OpenIsAlone
  <2> QED
    BY <2>1, BadgeOfIs
<1>4. \A s \in Subjects : BadgeOf(s) # r
  <2>1. \A b \in badges : b.uid # r
    BY <1>1 DEF Inv, BadgesAreCommitted
  <2>2. ASSUME NEW s \in Subjects PROVE BadgeOf(s) # r
    <3>1. CASE \E b \in badges : b.subject = s
      BY <2>1, <3>1, BadgeOfIs
    <3>2. CASE \A b \in badges : b.subject # s
      BY <3>2, BadgeOfIs, NoneIsFresh
    <3> QED
      BY <3>1, <3>2
  <2> QED
    BY <2>2
<1>5. BadgeOf(Subject(r))' = r
  <2>1. /\ SignedBadge(r) \in badges'
        /\ \A b \in badges' : b.subject = Subject(r) => b = SignedBadge(r)
    BY <1>1, <1>2 DEF Inv, OneBadgePerSubject
  <2>2. (CHOOSE b \in badges' : b.subject = Subject(r)) = SignedBadge(r)
    BY <1>2, <2>1
  <2>3. Subject(r)' = Subject(r)
    BY DEF CommitApplied, Subject
  <2> QED
    BY <1>2, <2>1, <2>2, <2>3 DEF BadgeOf
<1>6. \A s \in Subjects : BadgeOf(s)' = IF s = Subject(r) THEN r ELSE BadgeOf(s)
  <2>1. ASSUME NEW s \in Subjects, s # Subject(r) PROVE BadgeOf(s)' = BadgeOf(s)
    <3>1. \A b : b \in badges' /\ b.subject = s <=> b \in badges /\ b.subject = s
      BY <1>1, <1>2, <2>1
    <3>2. (CHOOSE b \in badges' : b.subject = s) = (CHOOSE b \in badges : b.subject = s)
      <4>1. CASE \E b \in badges : b.subject = s
        <5>1. PICK b \in badges : b.subject = s
          BY <4>1
        <5>2. b \in badges'
          BY <1>1
        <5>3. (CHOOSE c \in badges : c.subject = s) = b
          BY <5>1 DEF Inv, OneBadgePerSubject
        <5>4. (CHOOSE c \in badges' : c.subject = s) = b
          BY <5>1, <5>2 DEF Inv, OneBadgePerSubject
        <5> QED
          BY <5>3, <5>4
      <4>2. CASE \A b \in badges : b.subject # s
        BY <3>1, <4>2
      <4> QED
        BY <4>1, <4>2
    <3> QED
      BY <3>1, <3>2 DEF BadgeOf
  <2>2. Subject(r)' = Subject(r)
    BY DEF CommitApplied, Subject
  <2> QED
    BY <1>5, <2>1, <2>2
<1>7. UNCHANGED [q \in Requests |-> Told(q)]
  BY <1>1 DEF Told
<1> HIDE DEF BadgeOf
<1>8. Registry!Register(Subject(r), r)
  BY <1>2, <1>3, <1>4, <1>6, <1>7 DEF Registry!Register
<1> QED
  BY <1>2, <1>8 DEF Registry!Next

LEMMA NextRegistry ==
  ASSUME Inv, Inv', Flights, [Next]_vars
  PROVE  [Registry!Next]_(Registry!registryVars)
<1>1. CASE UNCHANGED <<badges, reply>>
  BY <1>1, QuietRegistry
<1>2. ASSUME NEW r \in Requests, CommitApplied(r) PROVE Registry!Next
  BY <1>2, CommitRegistry
<1>3. ASSUME NEW r \in Requests,
             \/ FindExisting(r) \/ AnswerNotIssued(r) \/ AnswerWinner(r)
             \/ AnswerIssued(r) \/ CommitRefused(r) \/ FlightFails(r)
      PROVE  Registry!Next
  <2>1. PICK result : Fits(r, result) /\ Settle(r, result)
    BY <1>3, AnswerFits
  <2>2. badges' = badges /\ phase[r] \in FlightPhases
    BY <1>3, AnswerFits DEF database
  <2>3. \A q \in Waiting(r) : phase[q] # "done"
    BY DEF Waiting
  <2>4. Waiting(r) \in SUBSET Requests
    BY DEF Waiting
  <2>5. \A q \in Requests : reply'[q] = IF q \in Waiting(r) THEN result ELSE reply[q]
    BY <2>1 DEF Settle
  <2>6. result.outcome # "none" /\ (result.outcome = "issued" => result.badge \in badges)
    BY <2>1 DEF Fits
  <2>7. PICK group \in SUBSET Requests :
          /\ \A q \in group : phase[q] # "done"
          /\ \A q \in Requests : reply'[q] = IF q \in group THEN result ELSE reply[q]
    BY <2>3, <2>4, <2>5
  <2> QED
    BY <2>2, <2>6, <2>7, TellRegistry
<1>4. ASSUME NEW r \in Requests, NoActivePolicy(r) \/ FailEarly(r)
      PROVE  Registry!Next
  <2>1. /\ badges' = badges /\ phase[r] # "done" /\ Failed.outcome = "failed"
        /\ \A q \in Requests : reply'[q] = IF q \in {r} THEN Failed ELSE reply[q]
    BY <1>4 DEF NoActivePolicy, FailEarly, database, Inv, TypeOK, EarlyPhases, Failed, Ended
  <2>2. PICK group \in SUBSET Requests :
          /\ \A q \in group : phase[q] # "done"
          /\ \A q \in Requests : reply'[q] = IF q \in group THEN Failed ELSE reply[q]
    BY <2>1
  <2> QED
    BY <2>1, <2>2, TellRegistry
<1>5. ASSUME NEW i \in Instances, Crash(i) PROVE Registry!Next
  <2>1. badges' = badges /\ Lost.outcome = "lost"
    BY <1>5 DEF Crash, database, Lost, Ended
  <2>2. PICK group \in SUBSET Requests :
          /\ \A q \in group : phase[q] # "done"
          /\ \A q \in Requests : reply'[q] = IF q \in group THEN Lost ELSE reply[q]
    BY <1>5 DEF Crash
  <2> QED
    BY <2>1, <2>2, TellRegistry
<1>6. ASSUME NEW r \in Requests,
             \/ CommitDropped(r)
             \/ \E i \in Instances, t \in Targets : Call(r, i, t)
             \/ PinPolicy(r) \/ Join(r) \/ Lead(r) \/ Resolve(r) \/ FindNone(r) \/ Analyze(r)
             \/ RecordRejection(r) \/ Sign(r) \/ Insert(r) \/ InsertConflicts(r)
             \/ CommitAcknowledged(r)
      PROVE  UNCHANGED <<badges, reply>>
  BY <1>6 DEF CommitDropped, Call, PinPolicy, Join, Lead, Resolve, FindNone, Analyze,
              RecordRejection, Sign, Insert, InsertConflicts, CommitAcknowledged, database
<1>7. ASSUME \/ \E p \in Policies : Publish(p)
             \/ \E t \in Targets, v \in Revisions : Rename(t, v)
             \/ UNCHANGED vars
      PROVE  UNCHANGED <<badges, reply>>
  BY <1>7 DEF Publish, Rename, database, vars
<1> QED
  BY <1>1, <1>2, <1>3, <1>4, <1>5, <1>6, <1>7 DEF Next, Progress

\* Whatever flights, processes, transactions and crashes do on the way, callers and the
\* database see a registry that gives a subject one badge, once, and tells of no other.
THEOREM IssueImplementsRegistry == Spec => ImplementsRegistry
<1>1. Init => Registry!Init
  <2> SUFFICES ASSUME Init PROVE Registry!Init
    OBVIOUS
  <2>1. badges = {} /\ \A r \in Requests : reply[r].outcome = "none"
    BY DEF Init, NoReply, Ended
  <2>2. (\A s \in Subjects : BadgeOf(s) = None) /\ \A r \in Requests : Told(r) = <<"nothing">>
    BY <2>1 DEF BadgeOf, Told
  <2> HIDE DEF BadgeOf, Told
  <2> QED
    BY <2>2 DEF Registry!Init, Registry!Nothing
<1>2. Inv /\ Inv' /\ Flights /\ [Next]_vars => [Registry!Next]_(Registry!registryVars)
  BY NextRegistry
<1> QED
  BY <1>1, <1>2, Invariance, FlightsHold, PTL DEF Spec, ImplementsRegistry, Registry!Spec

=============================================================================
