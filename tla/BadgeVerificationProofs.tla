----------------------- MODULE BadgeVerificationProofs -----------------------
(***************************************************************************)
(* Proofs about BadgeVerification, for all sets of requests, badges and    *)
(* repositories.                                                           *)
(*                                                                         *)
(* The argument: the row of a revocation belongs to the one open           *)
(* transaction that has inserted it, until its COMMIT; a transaction whose *)
(* INSERT did nothing has seen the row of another.  So when a request      *)
(* reads the badge again its revocation is there, and it stays.  What is   *)
(* said of the head of a branch is in HeadInv, on top of it.               *)
(***************************************************************************)
EXTENDS BadgeVerification, TLAPS

\* A request that revokes is about one badge.
RevokesOne ==
  \A c \in Calls : phase[c] \in RevokePhases \/ outcome[c] # None =>
    \E b \in Badges : wanted[c] = {b}

\* Who has inserted a row is about to commit it, and there is none yet.
InsertedIsNew ==
  \A c \in Calls, b \in Badges : inserting[b] = c =>
    phase[c] = "commit" /\ b \in wanted[c] /\ revokedBy[b] = None

\* Who has not inserted a row has seen the one of another.
ConflictIsSeen ==
  \A c \in Calls, b \in Badges :
    phase[c] = "commit" /\ b \in wanted[c] /\ inserting[b] # c =>
      revokedBy[b] # None

\* Whose row is stored was told so, or its connection broke.
RowIsOwned ==
  \A c \in Calls, b \in Badges : revokedBy[b] = c =>
    outcome[c] = "created" \/ (outcome[c] = None /\ phase[c] = "failed")

\* The outcome is known from the COMMIT on.
OutcomeAfterCommit ==
  \A c \in Calls : outcome[c] # None =>
    phase[c] \in {"reload", "judge", "ask", "answered", "failed"}

\* The request has read the badge after its own transaction.
ReloadedIsRevoked ==
  \A c \in Calls, b \in Badges :
    b \in wanted[c] /\ outcome[c] # None
      /\ phase[c] \in {"judge", "ask", "answered"} => row[c][b] = revokedBy[b]

\* Only a verification that got to GitHub asks for a commit, and only for a
\* badge that its request is about.
OnlyAskingAsks ==
  \A c \in Calls, b \in Badges :
    /\ result[c][b] = "asking" => phase[c] = "ask" /\ b \in wanted[c]
    /\ asks[c][b] # None => result[c][b] = "asking"

\* The inductive invariant.
Inv ==
  /\ TypeOK
  /\ RevokesOne
  /\ InsertedIsNew
  /\ ConflictIsSeen
  /\ RowIsOwned
  /\ OutcomeAfterCommit
  /\ ReloadedIsRevoked
  /\ OnlyAskingAsks
  /\ OneRevocation
  /\ RevokeAnswerIsFinal

-----------------------------------------------------------------------------
(* What the constants give *)

LEMMA NoneIsNone ==
  /\ None \notin Calls /\ None \notin Badges /\ None \notin Branches
  /\ None \notin Repos
  /\ None # "created" /\ None # "already" /\ None # "asking"
  /\ None \notin Statuses
BY NoneAssumption, NoneIsNoStatus DEF Statuses, Outcomes

LEMMA SightType ==
  ASSUME NEW repo \in Repos \cup {None},
         NEW tips \in [Repos -> [Branches -> Commits]]
  PROVE  Sight(repo, tips) \in Sights
BY DEF Sight, Sights

LEMMA JudgementType ==
  ASSUME NEW b, NEW r
  PROVE  /\ Judgement(b, r) \in Statuses \cup {"asking"}
         /\ r # None => Judgement(b, r) \in {"INVALID", "REVOKED"}
BY DEF Judgement, Statuses

LEMMA HearType ==
  ASSUME TypeOK, Hear, holder' \in Repos \cup {None},
         tip' \in [Repos -> [Branches -> Commits]]
  PROVE  heard' \in [Calls -> Sights]
<1>1. Sight(holder', tip') \in Sights
  BY SightType
<1>2. \A s, t \in Sights : Both(s, t) \in Sights
  BY DEF Both, Sights
<1>3. \A c \in Calls : heard[c] \in Sights
  BY DEF TypeOK
<1>4. QED
  BY <1>1, <1>2, <1>3 DEF Hear

-----------------------------------------------------------------------------
(* Steps that touch neither the tables nor a revocation's request *)

\* What Inv is about, as far as the tables and the revocations go.
LEMMA StutterInv ==
  ASSUME Inv, UNCHANGED <<database, calls>>, TypeOK'
  PROVE  Inv'
BY DEF Inv, database, calls, work, RevokesOne, InsertedIsNew, ConflictIsSeen,
       RowIsOwned, OutcomeAfterCommit, ReloadedIsRevoked, OnlyAskingAsks,
       OneRevocation, RevokeAnswerIsFinal

LEMMA InitInv == Init => Inv
<1> SUFFICES ASSUME Init PROVE Inv
  OBVIOUS
<1>1. TypeOK
  BY OursAssumption DEF Init, TypeOK, Phases, RevokePhases, Sights
<1>2. RevokesOne /\ InsertedIsNew /\ ConflictIsSeen /\ RowIsOwned
  BY NoneIsNone DEF Init, RevokesOne, InsertedIsNew, ConflictIsSeen, RowIsOwned,
                    RevokePhases
<1>3. OutcomeAfterCommit /\ ReloadedIsRevoked /\ OnlyAskingAsks
  BY NoneIsNone DEF Init, OutcomeAfterCommit, ReloadedIsRevoked, OnlyAskingAsks
<1>4. OneRevocation /\ RevokeAnswerIsFinal
  BY DEF Init, OneRevocation, RevokeAnswerIsFinal
<1>5. QED
  BY <1>1, <1>2, <1>3, <1>4 DEF Inv

LEMMA EnvironmentInv == Inv /\ Environment => Inv'
<1> SUFFICES ASSUME Inv, Environment PROVE Inv'
  OBVIOUS
<1>1. TypeOK
  BY DEF Inv
<1>2. CASE Tick
  <2>1. TypeOK'
    BY <1>1, <1>2 DEF Tick, TypeOK, database, github, calls, work
  <2>2. QED
    BY <1>2, <2>1, StutterInv DEF Tick
<1>3. CASE Push
  <2>1. tip' \in [Repos -> [Branches -> Commits]]
    BY <1>1, <1>3 DEF Push, TypeOK
  <2>2. heard' \in [Calls -> Sights]
    BY <1>1, <1>3, <2>1, HearType DEF Push, TypeOK
  <2>3. TypeOK'
    BY <1>1, <1>3, <2>1, <2>2 DEF Push, TypeOK, database, calls, work
  <2>4. QED
    BY <1>3, <2>3, StutterInv DEF Push
<1>4. CASE SwitchDefault
  <2>1. TypeOK'
    BY <1>1, <1>4 DEF SwitchDefault, TypeOK, database, calls, work
  <2>2. QED
    BY <1>4, <2>1, StutterInv DEF SwitchDefault
<1>5. CASE Rename
  <2>1. heard' \in [Calls -> Sights]
    BY <1>1, <1>5, HearType DEF Rename, TypeOK
  <2>2. TypeOK'
    BY <1>1, <1>5, <2>1 DEF Rename, TypeOK, database, calls, work
  <2>3. QED
    BY <1>5, <2>2, StutterInv DEF Rename
<1>6. QED
  BY <1>2, <1>3, <1>4, <1>5 DEF Environment

-----------------------------------------------------------------------------
(* Steps of a request that leave the tables alone *)

\* The parts of Inv that a step of c, which has no row inserted before and
\* after it, can disturb are about c; the others are about what it leaves.
LEMMA LocalInv ==
  ASSUME Inv, NEW c \in Calls, UNCHANGED <<database, outcome>>, TypeOK',
         phase[c] # "commit", phase[c] # "failed",
         phase'[c] \in RevokePhases => \E b \in Badges : wanted'[c] = {b},
         outcome[c] # None =>
           /\ wanted'[c] = wanted[c]
           /\ phase'[c] \in {"judge", "ask", "answered", "failed"},
         phase'[c] # "commit",
         \A d \in Calls \ {c} :
           /\ phase'[d] = phase[d] /\ wanted'[d] = wanted[d]
           /\ row'[d] = row[d] /\ result'[d] = result[d] /\ asks'[d] = asks[d],
         \A b \in Badges :
           /\ result'[c][b] = "asking" => phase'[c] = "ask" /\ b \in wanted'[c]
           /\ asks'[c][b] # None => result'[c][b] = "asking",
         \A b \in wanted[c] :
           outcome[c] # None /\ phase'[c] \in {"judge", "ask", "answered"} =>
             /\ row'[c][b] = revokedBy[b]
             /\ phase'[c] \in {"ask", "answered"} =>
                  result'[c][b] \in {"INVALID", "REVOKED"}
  PROVE  Inv'
<1>1. RevokesOne'
  BY DEF Inv, RevokesOne
<1>2. InsertedIsNew' /\ ConflictIsSeen'
  BY DEF Inv, InsertedIsNew, ConflictIsSeen, database
<1>3. RowIsOwned'
  <2> SUFFICES ASSUME NEW d \in Calls, NEW b \in Badges, revokedBy[b] = d
               PROVE  \/ outcome[d] = "created"
                      \/ outcome[d] = None /\ phase'[d] = "failed"
    BY DEF RowIsOwned, database
  <2>1. \/ outcome[d] = "created"
        \/ outcome[d] = None /\ phase[d] = "failed"
    BY DEF Inv, RowIsOwned
  <2>2. QED
    BY <2>1
<1>4. OutcomeAfterCommit'
  BY DEF Inv, OutcomeAfterCommit
<1>5. ReloadedIsRevoked' /\ OnlyAskingAsks' /\ RevokeAnswerIsFinal'
  BY DEF Inv, ReloadedIsRevoked, OnlyAskingAsks, RevokeAnswerIsFinal, database
<1>6. OneRevocation'
  <2> SUFFICES ASSUME NEW b \in Badges
               PROVE  /\ audits[b] = IF revokedBy[b] = None THEN 0 ELSE 1
                      /\ \A d \in Calls :
                           b \in wanted'[d] /\ outcome[d] # None =>
                             /\ revokedBy[b] # None
                             /\ outcome[d] = "created" <=> revokedBy[b] = d
    BY DEF OneRevocation, database
  <2>1. \A d \in Calls : outcome[d] # None => wanted'[d] = wanted[d]
    OBVIOUS
  <2>2. QED
    BY <2>1 DEF Inv, OneRevocation
<1>7. QED
  BY <1>1, <1>2, <1>3, <1>4, <1>5, <1>6 DEF Inv

LEMMA ArriveInv ==
  ASSUME Inv, NEW c \in Calls, NEW bs \in SUBSET Badges, NEW p \in Phases,
         p \in RevokePhases => p = "find" /\ \E b \in Badges : bs = {b},
         Arrive(c, bs, p)
  PROVE  Inv'
<1>1. phase[c] = "new" /\ TypeOK /\ outcome[c] = None
  BY DEF Arrive, Inv, OutcomeAfterCommit
<1>2. heard' \in [Calls -> Sights]
  BY <1>1, SightType DEF Arrive, TypeOK
<1>3. TypeOK'
  BY <1>1, <1>2 DEF Arrive, Goto, TypeOK, database, github, work
<1>4. /\ phase'[c] = p /\ wanted'[c] = bs /\ row' = row /\ result' = result
      /\ asks' = asks
      /\ \A d \in Calls \ {c} : phase'[d] = phase[d] /\ wanted'[d] = wanted[d]
  BY <1>1 DEF Arrive, Goto, TypeOK, work
<1>5. \A b \in Badges : asks[c][b] = None /\ result[c][b] # "asking"
  BY <1>1 DEF Inv, OnlyAskingAsks
<1>6. p # "commit" /\ UNCHANGED <<database, outcome>>
  BY DEF Arrive, RevokePhases
<1>7. QED
  BY <1>1, <1>3, <1>4, <1>5, <1>6, LocalInv

LEMMA RequestInv == ASSUME Inv, NEW c \in Calls, Verify(c) \/ List(c) \/ Revoke(c)
                    PROVE  Inv'
<1>1. CASE Verify(c)
  <2>1. PICK b \in Badges : Arrive(c, {b}, "read")
    BY <1>1 DEF Verify
  <2>2. QED
    BY <2>1, ArriveInv DEF Phases, RevokePhases
<1>2. CASE List(c)
  BY <1>2, ArriveInv, StoredAssumption DEF List, Phases, RevokePhases
<1>3. CASE Revoke(c)
  <2>1. PICK b \in Badges : Arrive(c, {b}, "find")
    BY <1>3 DEF Revoke
  <2>2. QED
    BY <2>1, ArriveInv DEF Phases, RevokePhases
<1>4. QED
  BY <1>1, <1>2, <1>3

LEMMA LookupInv == ASSUME Inv, NEW c \in Calls, NotFound(c) \/ Find(c) \/ Answer(c)
                   PROVE  Inv'
<1>1. TypeOK /\ OnlyAskingAsks
  BY DEF Inv
<1>2. TypeOK'
  BY <1>1 DEF NotFound, Find, Answer, Goto, TypeOK, database, github, work, request,
              Phases, RevokePhases
<1>3. UNCHANGED <<database, work, outcome, request>>
  BY DEF NotFound, Find, Answer
<1>4. \A d \in Calls \ {c} : phase'[d] = phase[d]
  BY <1>1 DEF NotFound, Find, Answer, Goto, TypeOK
<1>5. CASE NotFound(c)
  <2>1. phase[c] \in {"find", "read"} /\ phase'[c] = "notFound"
    BY <1>1, <1>5 DEF NotFound, Goto, TypeOK
  <2>2. outcome[c] = None
    BY <2>1 DEF Inv, OutcomeAfterCommit
  <2>3. QED
    BY <1>1, <1>2, <1>3, <1>4, <2>1, <2>2, LocalInv
       DEF OnlyAskingAsks, work, request, RevokePhases
<1>6. CASE Find(c)
  <2>1. phase[c] = "find" /\ phase'[c] = "insert"
    BY <1>1, <1>6 DEF Find, Goto, TypeOK
  <2>2. outcome[c] = None /\ \E b \in Badges : wanted[c] = {b}
    BY <2>1 DEF Inv, OutcomeAfterCommit, RevokesOne, RevokePhases
  <2>3. QED
    BY <1>1, <1>2, <1>3, <1>4, <2>1, <2>2, LocalInv
       DEF OnlyAskingAsks, work, request
<1>7. CASE Answer(c)
  <2>1. phase[c] = "ask" /\ phase'[c] = "answered"
    BY <1>1, <1>7 DEF Answer, Goto, TypeOK
  <2>2. \A b \in wanted[c] : outcome[c] # None =>
          row[c][b] = revokedBy[b] /\ result[c][b] \in {"INVALID", "REVOKED"}
    BY <1>1, <2>1 DEF Inv, ReloadedIsRevoked, RevokeAnswerIsFinal, TypeOK
  <2>3. \A b \in Badges : result[c][b] # "asking" /\ asks[c][b] = None
    BY <1>1, <1>7 DEF Answer, OnlyAskingAsks, Statuses
  <2>4. QED
    BY <1>2, <1>3, <1>4, <2>1, <2>2, <2>3, LocalInv
       DEF work, request, RevokePhases
<1>8. QED
  BY <1>5, <1>6, <1>7

LEMMA ReadInv == ASSUME Inv, NEW c \in Calls, Read(c) PROVE Inv'
<1>1. TypeOK /\ OnlyAskingAsks
  BY DEF Inv
<1>2. /\ phase[c] \in {"read", "reload"} /\ phase'[c] = "judge"
      /\ \A d \in Calls \ {c} : phase'[d] = phase[d] /\ row'[d] = row[d]
  BY <1>1 DEF Read, Goto, TypeOK
<1>3. row' \in [Calls -> [Badges -> Calls \cup {None}]]
  BY <1>1 DEF Read, Joined, TypeOK
<1>4. TypeOK'
  BY <1>1, <1>3 DEF Read, Goto, TypeOK, database, github, request, Phases
<1>5. \A b \in wanted[c] : row'[c][b] = revokedBy[b]
  BY <1>1 DEF Read, Joined, TypeOK
<1>6. UNCHANGED <<database, result, asks, outcome, wanted>>
  BY DEF Read, request
<1>7. QED
  BY <1>1, <1>2, <1>4, <1>5, <1>6, LocalInv DEF OnlyAskingAsks, RevokePhases

LEMMA JudgeInv == ASSUME Inv, NEW c \in Calls, Judge(c) PROVE Inv'
<1>1. TypeOK /\ OnlyAskingAsks
  BY DEF Inv
<1>2. /\ phase[c] = "judge" /\ phase'[c] = "ask"
      /\ \A d \in Calls \ {c} : phase'[d] = phase[d] /\ result'[d] = result[d]
  BY <1>1 DEF Judge, Goto, TypeOK
<1>3. result'[c] = [b \in Badges |->
        IF b \in wanted[c] THEN Judgement(b, row[c][b]) ELSE None]
  BY <1>1 DEF Judge, TypeOK
<1>4. UNCHANGED <<database, row, asks, outcome, wanted>>
  BY DEF Judge, request
<1>5. result' \in [Calls -> [Badges -> Statuses \cup {"asking", None}]]
  <2>1. \A b \in Badges : Judgement(b, row[c][b]) \in Statuses \cup {"asking"}
    BY JudgementType
  <2>2. QED
    BY <1>1, <2>1 DEF Judge, TypeOK
<1>6. TypeOK'
  BY <1>1, <1>5 DEF Judge, Goto, TypeOK, database, github, request, Phases
<1>7. \A b \in wanted[c] : outcome[c] # None =>
        row[c][b] = revokedBy[b] /\ result'[c][b] \in {"INVALID", "REVOKED"}
  <2> SUFFICES ASSUME NEW b \in wanted[c], outcome[c] # None
               PROVE  /\ row[c][b] = revokedBy[b]
                      /\ result'[c][b] \in {"INVALID", "REVOKED"}
    OBVIOUS
  <2>1. b \in Badges
    BY <1>1 DEF TypeOK
  <2>2. row[c][b] = revokedBy[b]
    BY <1>2, <2>1 DEF Inv, ReloadedIsRevoked
  <2>3. revokedBy[b] # None
    BY <2>1 DEF Inv, OneRevocation
  <2>4. QED
    BY <1>3, <2>1, <2>2, <2>3, JudgementType
<1>8. \A b \in Badges : asks[c][b] = None
  BY <1>2 DEF Inv, OnlyAskingAsks
<1>9. \A b \in Badges : result'[c][b] = "asking" => b \in wanted[c]
  BY <1>3, NoneIsNone
<1>10. QED
  BY <1>1, <1>2, <1>4, <1>6, <1>7, <1>8, <1>9, LocalInv DEF RevokePhases

\* The verification of a badge goes on: it was asking, and asks or has found.
LEMMA FoundInv ==
  ASSUME Inv, NEW c \in Calls, NEW b \in wanted[c], result[c][b] = "asking",
         NEW s \in Statuses \cup {"asking"}, NEW br \in Branches \cup {None},
         br # None => s = "asking",
         result' = [result EXCEPT ![c][b] = s],
         asks' = [asks EXCEPT ![c][b] = br],
         UNCHANGED <<database, github, now, phase, row, outcome, request>>
  PROVE  Inv'
<1>1. TypeOK /\ OnlyAskingAsks /\ b \in Badges
  BY DEF Inv, TypeOK
<1>2. phase[c] = "ask"
  BY <1>1 DEF OnlyAskingAsks
<1>3. outcome[c] = None
  <2> SUFFICES ASSUME outcome[c] # None PROVE FALSE
    OBVIOUS
  <2>1. result[c][b] \in {"INVALID", "REVOKED"}
    BY <1>1, <1>2 DEF Inv, RevokeAnswerIsFinal
  <2>2. QED
    BY <2>1
<1>4. TypeOK'
  BY <1>1 DEF TypeOK, database, github, request
<1>5. /\ \A d \in Calls \ {c} : result'[d] = result[d] /\ asks'[d] = asks[d]
      /\ result'[c] = [result[c] EXCEPT ![b] = s]
      /\ asks'[c] = [asks[c] EXCEPT ![b] = br]
  BY <1>1 DEF TypeOK
<1>6. \A e \in Badges :
        /\ result'[c][e] = "asking" => e \in wanted[c]
        /\ asks'[c][e] # None => result'[c][e] = "asking"
  BY <1>1, <1>5 DEF TypeOK, OnlyAskingAsks
<1>7. QED
  BY <1>2, <1>3, <1>4, <1>5, <1>6, LocalInv DEF request, RevokePhases

LEMMA AskInv ==
  ASSUME Inv, NEW c \in Calls, AskMetadata(c) \/ AskCommit(c) \/ HeadUnknown(c)
  PROVE  Inv'
<1>1. TypeOK /\ OnlyAskingAsks
  BY DEF Inv
<1>2. CASE AskMetadata(c)
  <2>1. PICK b \in wanted[c] :
          /\ result[c][b] = "asking" /\ SameRepository
          /\ asks' = [asks EXCEPT ![c][b] = default[holder]]
          /\ UNCHANGED <<database, github, now, phase, row, result, outcome, request>>
    BY <1>2 DEF AskMetadata
  <2>2. default[holder] \in Branches \cup {None}
    BY <1>1, <2>1, OursAssumption DEF TypeOK, SameRepository
  <2>3. result' = [result EXCEPT ![c][b] = "asking"]
    BY <1>1, <2>1 DEF TypeOK
  <2>4. QED
    BY <2>1, <2>2, <2>3, FoundInv
<1>3. CASE AskCommit(c)
  <2>1. PICK b \in wanted[c], s \in {"VALID", "STALE"} :
          asks[c][b] # None /\ Found(c, b, s)
    BY <1>3 DEF AskCommit
  <2>2. result[c][b] = "asking"
    BY <1>1, <2>1 DEF TypeOK, OnlyAskingAsks
  <2>3. QED
    BY <2>1, <2>2, FoundInv DEF Found, Statuses
<1>4. CASE HeadUnknown(c)
  <2>1. PICK b \in wanted[c] :
          result[c][b] = "asking" /\ Found(c, b, "UNVERIFIED")
    BY <1>4 DEF HeadUnknown
  <2>2. QED
    BY <2>1, FoundInv DEF Found, Statuses
<1>5. QED
  BY <1>2, <1>3, <1>4

-----------------------------------------------------------------------------
(* The transaction of a revocation *)

\* What a request in its transaction looks like.
LEMMA InTransaction ==
  ASSUME Inv, NEW c \in Calls, phase[c] \in {"insert", "commit"},
         NEW b \in wanted[c]
  PROVE  /\ b \in Badges /\ wanted[c] = {b} /\ outcome[c] = None
         /\ \A e \in Badges : /\ result[c][e] # "asking" /\ asks[c][e] = None
                              /\ revokedBy[e] # c
<1>1. \E e \in Badges : wanted[c] = {e}
  BY DEF Inv, RevokesOne, RevokePhases
<1>2. outcome[c] = None
  BY DEF Inv, OutcomeAfterCommit
<1>3. \A e \in Badges : result[c][e] # "asking" /\ asks[c][e] = None
  BY DEF Inv, OnlyAskingAsks
<1>4. \A e \in Badges : revokedBy[e] # c
  BY <1>2, NoneIsNone DEF Inv, RowIsOwned
<1>5. QED
  BY <1>1, <1>2, <1>3, <1>4

LEMMA InsertInv == ASSUME Inv, NEW c \in Calls, Insert(c) PROVE Inv'
<1>1. PICK b \in wanted[c] :
        /\ phase[c] = "insert" /\ inserting[b] = None
        /\ inserting' = [inserting EXCEPT ![b] = IF Taken(b) THEN None ELSE c]
        /\ phase' = [phase EXCEPT ![c] = "commit"]
        /\ UNCHANGED <<revokedBy, audits, github, now, work, outcome, request>>
  BY DEF Insert, Goto
<1>2. TypeOK
  BY DEF Inv
<1>3. /\ b \in Badges /\ wanted[c] = {b} /\ outcome[c] = None
      /\ \A e \in Badges : result[c][e] # "asking" /\ asks[c][e] = None
  BY <1>1, InTransaction
<1>4. TypeOK'
  BY <1>1, <1>2, <1>3 DEF TypeOK, github, work, request, Phases, RevokePhases
<1>5. /\ phase'[c] = "commit"
      /\ \A d \in Calls \ {c} : phase'[d] = phase[d]
      /\ inserting'[b] = IF revokedBy[b] = None THEN c ELSE None
      /\ \A e \in Badges \ {b} : inserting'[e] = inserting[e]
      /\ wanted' = wanted /\ outcome' = outcome /\ revokedBy' = revokedBy
      /\ audits' = audits /\ row' = row /\ result' = result /\ asks' = asks
  BY <1>1, <1>2, <1>3 DEF TypeOK, Taken, work, request
<1>6. RevokesOne'
  BY <1>3, <1>5 DEF Inv, RevokesOne
<1>7. InsertedIsNew'
  BY <1>1, <1>3, <1>5, NoneIsNone DEF Inv, InsertedIsNew
<1>8. ConflictIsSeen'
  <2> SUFFICES ASSUME NEW d \in Calls, NEW e \in Badges, phase'[d] = "commit",
                      e \in wanted[d], inserting'[e] # d
               PROVE  revokedBy[e] # None
    BY <1>5 DEF ConflictIsSeen
  <2>1. CASE d = c
    BY <1>3, <1>5, <2>1
  <2>2. CASE d # c
    <3>1. phase[d] = "commit" /\ inserting[e] # d
      BY <1>1, <1>5, <2>2, NoneIsNone
    <3>2. QED
      BY <3>1 DEF Inv, ConflictIsSeen
  <2>3. QED
    BY <2>1, <2>2
<1>9. RowIsOwned' /\ OutcomeAfterCommit' /\ ReloadedIsRevoked' /\ OnlyAskingAsks'
  <2>1. RowIsOwned'
    BY <1>1, <1>5 DEF Inv, RowIsOwned
  <2>2. OutcomeAfterCommit'
    BY <1>3, <1>5 DEF Inv, OutcomeAfterCommit
  <2>3. ReloadedIsRevoked'
    BY <1>3, <1>5 DEF Inv, ReloadedIsRevoked
  <2>4. OnlyAskingAsks'
    BY <1>3, <1>5 DEF Inv, OnlyAskingAsks
  <2>5. QED
    BY <2>1, <2>2, <2>3, <2>4
<1>10. OneRevocation' /\ RevokeAnswerIsFinal'
  BY <1>3, <1>5 DEF Inv, OneRevocation, RevokeAnswerIsFinal
<1>11. QED
  BY <1>4, <1>6, <1>7, <1>8, <1>9, <1>10 DEF Inv

\* COMMIT was applied and its request goes on with phase p and outcome o.
Applied(c, b, p, o) ==
  /\ phase[c] = "commit"
  /\ Committed(c, b)
  /\ phase' = [phase EXCEPT ![c] = p]
  /\ outcome' = [outcome EXCEPT ![c] = o]
  /\ UNCHANGED <<github, now, work, request>>

LEMMA AppliedInv ==
  ASSUME Inv, NEW c \in Calls, NEW b \in wanted[c], NEW p, NEW o,
         Applied(c, b, p, o),
         \/ p = "reload" /\ o = IF inserting[b] = c THEN "created" ELSE "already"
         \/ p = "failed" /\ o = None
  PROVE  Inv'
<1>1. TypeOK
  BY DEF Inv
<1>2. /\ b \in Badges /\ wanted[c] = {b} /\ outcome[c] = None
      /\ \A e \in Badges : /\ result[c][e] # "asking" /\ asks[c][e] = None
                           /\ revokedBy[e] # c
  BY InTransaction DEF Applied
<1>3. /\ phase'[c] = p /\ outcome'[c] = o /\ p # "commit"
      /\ \A d \in Calls \ {c} : phase'[d] = phase[d] /\ outcome'[d] = outcome[d]
      /\ wanted' = wanted /\ row' = row /\ result' = result /\ asks' = asks
  BY <1>1 DEF Applied, TypeOK, work, request
<1>4. /\ revokedBy'[b] = IF inserting[b] = c THEN c ELSE revokedBy[b]
      /\ audits'[b] = IF inserting[b] = c THEN audits[b] + 1 ELSE audits[b]
      /\ inserting'[b] = IF inserting[b] = c THEN None ELSE inserting[b]
      /\ \A e \in Badges \ {b} : /\ revokedBy'[e] = revokedBy[e]
                                 /\ audits'[e] = audits[e]
                                 /\ inserting'[e] = inserting[e]
  <2>1. /\ revokedBy'[b] = IF inserting[b] = c THEN c ELSE revokedBy[b]
        /\ \A e \in Badges \ {b} : revokedBy'[e] = revokedBy[e]
    BY <1>1, <1>2 DEF Applied, Committed, TypeOK
  <2>2. /\ inserting'[b] = IF inserting[b] = c THEN None ELSE inserting[b]
        /\ \A e \in Badges \ {b} : inserting'[e] = inserting[e]
    BY <1>1, <1>2 DEF Applied, Committed, TypeOK
  <2>3. /\ audits'[b] = IF inserting[b] = c THEN audits[b] + 1 ELSE audits[b]
        /\ \A e \in Badges \ {b} : audits'[e] = audits[e]
    BY <1>1, <1>2 DEF Applied, Committed, Audited, TypeOK
  <2>4. QED
    BY <2>1, <2>2, <2>3
<1>5. /\ audits[b] = IF revokedBy[b] = None THEN 0 ELSE 1
      /\ inserting[b] = c => revokedBy[b] = None
  BY <1>2 DEF Inv, OneRevocation, InsertedIsNew
<1>6. revokedBy'[b] # None /\ (revokedBy'[b] = c <=> inserting[b] = c)
  BY <1>2, <1>4, NoneIsNone DEF Inv, ConflictIsSeen, Applied
<1>7. \A e \in Badges : revokedBy[e] # None => revokedBy'[e] = revokedBy[e]
  BY <1>4, <1>5
<1>8. TypeOK'
  <2>1. audits' \in [Badges -> 0..1]
    BY <1>1, <1>2, <1>5 DEF Applied, Committed, Audited, TypeOK
  <2>2. /\ revokedBy' \in [Badges -> Calls \cup {None}]
        /\ inserting' \in [Badges -> Calls \cup {None}]
    BY <1>1, <1>2 DEF Applied, Committed, TypeOK
  <2>3. /\ phase' \in [Calls -> Phases]
        /\ outcome' \in [Calls -> Outcomes \cup {None}]
    BY <1>1 DEF Applied, TypeOK, Phases, RevokePhases, Outcomes
  <2>4. QED
    BY <1>1, <2>1, <2>2, <2>3 DEF Applied, TypeOK, github, work, request
<1>9. RevokesOne' /\ OutcomeAfterCommit'
  <2>1. RevokesOne'
    BY <1>2, <1>3 DEF Inv, RevokesOne
  <2>2. OutcomeAfterCommit'
    BY <1>3 DEF Inv, OutcomeAfterCommit
  <2>3. QED
    BY <2>1, <2>2
<1>10. InsertedIsNew'
  <2> SUFFICES ASSUME NEW d \in Calls, NEW e \in Badges, inserting'[e] = d
               PROVE  phase'[d] = "commit" /\ e \in wanted[d] /\ revokedBy'[e] = None
    BY <1>3 DEF InsertedIsNew
  <2>1. inserting[e] = d /\ (e = b => inserting[b] # c)
    BY <1>4, NoneIsNone
  <2>2. phase[d] = "commit" /\ e \in wanted[d] /\ revokedBy[e] = None
    BY <2>1 DEF Inv, InsertedIsNew
  <2>3. d # c
    BY <1>2, <2>1, <2>2
  <2>4. e # b
    BY <1>4, <1>6, <2>1, <2>2
  <2>5. QED
    BY <1>3, <1>4, <2>2, <2>3, <2>4
<1>11. ConflictIsSeen'
  <2> SUFFICES ASSUME NEW d \in Calls, NEW e \in Badges, phase'[d] = "commit",
                      e \in wanted[d], inserting'[e] # d
               PROVE  revokedBy'[e] # None
    BY <1>3 DEF ConflictIsSeen
  <2>1. d # c /\ phase[d] = "commit"
    BY <1>3
  <2>2. e # b => inserting[e] # d
    BY <1>4
  <2>3. QED
    BY <1>6, <1>7, <2>1, <2>2 DEF Inv, ConflictIsSeen
<1>12. RowIsOwned'
  <2> SUFFICES ASSUME NEW d \in Calls, NEW e \in Badges, revokedBy'[e] = d
               PROVE  \/ outcome'[d] = "created"
                      \/ outcome'[d] = None /\ phase'[d] = "failed"
    BY DEF RowIsOwned
  <2>1. CASE d = c
    <3>1. e = b /\ inserting[b] = c
      BY <1>2, <1>4, <2>1
    <3>2. QED
      BY <1>3, <2>1, <3>1
  <2>2. CASE d # c
    <3>1. revokedBy[e] = d
      BY <1>4, <2>2
    <3>2. QED
      BY <1>3, <2>2, <3>1 DEF Inv, RowIsOwned
  <2>3. QED
    BY <2>1, <2>2
<1>13. ReloadedIsRevoked'
  <2> SUFFICES ASSUME NEW d \in Calls, NEW e \in Badges, e \in wanted[d],
                      outcome'[d] # None, phase'[d] \in {"judge", "ask", "answered"}
               PROVE  row[d][e] = revokedBy'[e]
    BY <1>3 DEF ReloadedIsRevoked
  <2>1. d # c /\ outcome[d] # None /\ phase[d] \in {"judge", "ask", "answered"}
    BY <1>3
  <2>2. row[d][e] = revokedBy[e] /\ revokedBy[e] # None
    BY <2>1 DEF Inv, ReloadedIsRevoked, OneRevocation
  <2>3. QED
    BY <1>7, <2>2
<1>14. OnlyAskingAsks'
  BY <1>2, <1>3 DEF Inv, OnlyAskingAsks
<1>15. OneRevocation'
  <2> SUFFICES ASSUME NEW e \in Badges
               PROVE  /\ audits'[e] = IF revokedBy'[e] = None THEN 0 ELSE 1
                      /\ \A d \in Calls : e \in wanted[d] /\ outcome'[d] # None =>
                           /\ revokedBy'[e] # None
                           /\ outcome'[d] = "created" <=> revokedBy'[e] = d
    BY <1>3 DEF OneRevocation
  <2>1. audits'[e] = IF revokedBy'[e] = None THEN 0 ELSE 1
    <3>1. audits[e] = IF revokedBy[e] = None THEN 0 ELSE 1
      BY DEF Inv, OneRevocation
    <3>2. QED
      BY <1>4, <1>5, <1>6, <3>1
  <2>2. ASSUME NEW d \in Calls, e \in wanted[d], outcome'[d] # None
        PROVE  /\ revokedBy'[e] # None
               /\ outcome'[d] = "created" <=> revokedBy'[e] = d
    <3>1. CASE d = c
      BY <1>2, <1>3, <1>6, <2>2, <3>1
    <3>2. CASE d # c
      <4>1. /\ revokedBy[e] # None
            /\ outcome[d] = "created" <=> revokedBy[e] = d
        BY <1>3, <2>2, <3>2 DEF Inv, OneRevocation
      <4>2. QED
        BY <1>3, <1>7, <3>2, <4>1
    <3>3. QED
      BY <3>1, <3>2
  <2>3. QED
    BY <2>1, <2>2
<1>16. RevokeAnswerIsFinal'
  <2> SUFFICES ASSUME NEW d \in Calls, NEW e \in Badges, e \in wanted[d],
                      outcome'[d] # None, phase'[d] \in {"ask", "answered"}
               PROVE  /\ row[d][e] = revokedBy'[e]
                      /\ result[d][e] \in {"INVALID", "REVOKED"}
    BY <1>3 DEF RevokeAnswerIsFinal
  <2>1. d # c /\ outcome[d] # None /\ phase[d] \in {"ask", "answered"}
    BY <1>3
  <2>2. /\ row[d][e] = revokedBy[e] /\ result[d][e] \in {"INVALID", "REVOKED"}
        /\ revokedBy[e] # None
    BY <2>1 DEF Inv, RevokeAnswerIsFinal, OneRevocation
  <2>3. QED
    BY <1>7, <2>2
<1>17. QED
  BY <1>8, <1>9, <1>10, <1>11, <1>12, <1>13, <1>14, <1>15, <1>16 DEF Inv

LEMMA CommitInv ==
  ASSUME Inv, NEW c \in Calls, CommitRevocation(c) \/ CommitUnanswered(c)
  PROVE  Inv'
<1>1. CASE CommitRevocation(c)
  <2>1. PICK b \in wanted[c] :
          Applied(c, b, "reload", IF inserting[b] = c THEN "created" ELSE "already")
    BY <1>1 DEF CommitRevocation, Applied, Goto
  <2>2. QED
    BY <2>1, AppliedInv
<1>2. CASE CommitUnanswered(c)
  <2>1. PICK b \in wanted[c] : /\ phase[c] = "commit" /\ Committed(c, b)
                               /\ phase' = [phase EXCEPT ![c] = "failed"]
                               /\ UNCHANGED <<github, now, work, outcome, request>>
    BY <1>2 DEF CommitUnanswered, Goto
  <2>2. outcome[c] = None /\ outcome \in [Calls -> Outcomes \cup {None}]
    BY <2>1, InTransaction DEF Inv, TypeOK
  <2>3. Applied(c, b, "failed", None)
    BY <2>1, <2>2 DEF Applied
  <2>4. QED
    BY <2>3, AppliedInv
<1>3. QED
  BY <1>1, <1>2

LEMMA FailInv == ASSUME Inv, NEW c \in Calls, Fail(c) PROVE Inv'
<1>1. TypeOK
  BY DEF Inv
<1>2. /\ phase[c] \in RevokePhases \cup {"read"} /\ phase'[c] = "failed"
      /\ \A d \in Calls \ {c} : phase'[d] = phase[d]
      /\ \A e \in Badges :
           inserting'[e] = IF inserting[e] = c THEN None ELSE inserting[e]
      /\ revokedBy' = revokedBy /\ audits' = audits /\ outcome' = outcome
      /\ wanted' = wanted /\ row' = row /\ result' = result /\ asks' = asks
  BY <1>1 DEF Fail, Goto, Rollback, TypeOK, work, request
<1>3. TypeOK'
  BY <1>1 DEF Fail, Goto, Rollback, TypeOK, github, work, request, Phases
<1>4. \A e \in Badges : result[c][e] # "asking" /\ asks[c][e] = None
  BY <1>2 DEF Inv, OnlyAskingAsks, RevokePhases
<1>5. RevokesOne' /\ InsertedIsNew'
  <2>1. RevokesOne'
    BY <1>2 DEF Inv, RevokesOne, RevokePhases
  <2>2. InsertedIsNew'
    BY <1>2, NoneIsNone DEF Inv, InsertedIsNew
  <2>3. QED
    BY <2>1, <2>2
<1>6. ConflictIsSeen'
  BY <1>2, NoneIsNone DEF Inv, ConflictIsSeen
<1>7. RowIsOwned' /\ OutcomeAfterCommit' /\ ReloadedIsRevoked'
  <2>1. RowIsOwned'
    BY <1>2 DEF Inv, RowIsOwned, RevokePhases
  <2>2. OutcomeAfterCommit'
    BY <1>2 DEF Inv, OutcomeAfterCommit
  <2>3. ReloadedIsRevoked'
    BY <1>2 DEF Inv, ReloadedIsRevoked
  <2>4. QED
    BY <2>1, <2>2, <2>3
<1>8. OnlyAskingAsks' /\ OneRevocation' /\ RevokeAnswerIsFinal'
  <2>1. OnlyAskingAsks'
    BY <1>2, <1>4 DEF Inv, OnlyAskingAsks
  <2>2. OneRevocation' /\ RevokeAnswerIsFinal'
    BY <1>2 DEF Inv, OneRevocation, RevokeAnswerIsFinal
  <2>3. QED
    BY <2>1, <2>2
<1>9. QED
  BY <1>3, <1>5, <1>6, <1>7, <1>8 DEF Inv

-----------------------------------------------------------------------------
(* The theorems *)

LEMMA NextInv == Inv /\ [Next]_vars => Inv'
<1> SUFFICES ASSUME Inv, [Next]_vars PROVE Inv'
  OBVIOUS
<1>1. CASE Environment
  BY <1>1, EnvironmentInv
<1>2. CASE \E c \in Calls :
             Verify(c) \/ List(c) \/ Revoke(c) \/ Progress(c) \/ Failure(c)
  BY <1>2, RequestInv, LookupInv, ReadInv, JudgeInv, AskInv, InsertInv,
     CommitInv, FailInv DEF Progress, Failure
<1>3. CASE UNCHANGED vars
  <2>1. TypeOK'
    BY <1>3 DEF Inv, TypeOK, vars
  <2>2. UNCHANGED <<database, calls>>
    BY <1>3 DEF vars, database, calls, work
  <2>3. QED
    BY <2>1, <2>2, StutterInv
<1>4. QED
  BY <1>1, <1>2, <1>3 DEF Next

\* Inv holds in every state of every behaviour.
THEOREM Invariance == Spec => []Inv
BY InitInv, NextInv, PTL DEF Spec

\* Concurrent revocations make one row, one audit row and tell one request,
\* that of the stored row, that it made them (revokeBadge).
THEOREM RevokedOnce == Spec => []OneRevocation
<1>1. Inv => OneRevocation
  BY DEF Inv
<1>2. QED
  BY <1>1, Invariance, PTL

\* Whoever revokes a badge is answered with a revoked badge: revokeBadge reads
\* it again after its own COMMIT (POST .../revoke).
THEOREM RevokerSeesRevoked == Spec => []RevokeAnswerIsFinal
<1>1. Inv => RevokeAnswerIsFinal
  BY DEF Inv
<1>2. QED
  BY <1>1, Invariance, PTL

\* No step of a request takes the row of another: the conflict clause of the
\* INSERT and the wait for open transactions together keep the first one.
THEOREM FirstRevocationStands == Spec => RevocationStands
<1>1. Inv /\ [Next]_vars =>
        [\A b \in Badges : revokedBy[b] # None => revokedBy'[b] = revokedBy[b]]_vars
  <2> SUFFICES ASSUME Inv, Next, NEW b \in Badges, revokedBy[b] # None
               PROVE  revokedBy'[b] = revokedBy[b]
    OBVIOUS
  <2>1. TypeOK /\ InsertedIsNew
    BY DEF Inv
  <2>2. ASSUME NEW c \in Calls, NEW e \in wanted[c], Committed(c, e)
        PROVE  revokedBy'[b] = revokedBy[b]
    <3>1. CASE inserting[e] = c /\ e = b
      BY <2>1, <3>1 DEF InsertedIsNew
    <3>2. CASE ~ (inserting[e] = c /\ e = b)
      BY <2>1, <2>2, <3>2 DEF Committed, TypeOK
    <3>3. QED
      BY <3>1, <3>2
  <2>3. CASE Environment
    BY <2>3 DEF Environment, Tick, Push, SwitchDefault, Rename, database
  <2>4. CASE \E c \in Calls : Verify(c) \/ List(c) \/ Revoke(c)
    BY <2>4 DEF Verify, List, Revoke, Arrive, database
  <2>5. CASE \E c \in Calls : Progress(c) \/ Failure(c)
    <3>1. PICK c \in Calls : Progress(c) \/ Failure(c)
      BY <2>5
    <3>2. CASE CommitRevocation(c) \/ CommitUnanswered(c)
      BY <2>2, <3>2 DEF CommitRevocation, CommitUnanswered
    <3>3. CASE NotFound(c) \/ Find(c) \/ Insert(c) \/ Read(c) \/ Judge(c)
      BY <3>3 DEF NotFound, Find, Insert, Read, Judge, database
    <3>4. CASE AskMetadata(c) \/ AskCommit(c) \/ HeadUnknown(c) \/ Answer(c) \/ Fail(c)
      BY <3>4 DEF AskMetadata, AskCommit, HeadUnknown, Answer, Fail, Found, database
    <3>5. QED
      BY <3>1, <3>2, <3>3, <3>4 DEF Progress, Failure
  <2>6. QED
    BY <2>3, <2>4, <2>5 DEF Next
<1>2. QED
  BY <1>1, Invariance, PTL DEF Spec, RevocationStands

-----------------------------------------------------------------------------
(* What requests hear of GitHub *)

\* A request has heard of what the name stands for now.
NowIsHeard ==
  \A c \in Calls : phase[c] # "new" /\ holder # None =>
    holder \in heard[c].repos /\ \A br \in Branches : tip[holder][br] \in heard[c].tips

\* Who asks for a commit has found the badge's repository.
AskedOfOurs == \A c \in Calls, b \in Badges : asks[c][b] # None => Ours \in heard[c].repos

\* A request that was not made has found nothing.
NothingYet == \A c \in Calls, b \in Badges : phase[c] = "new" => result[c][b] = None

HeadInv == NowIsHeard /\ AskedOfOurs /\ NothingYet /\ HeadIsOfThisRequest

LEMMA InitHead == Init => HeadInv
BY NoneIsNone DEF Init, HeadInv, NowIsHeard, AskedOfOurs, NothingYet, HeadIsOfThisRequest, Statuses

LEMMA SightHeard ==
  ASSUME NEW repo \in Repos, NEW tips
  PROVE  repo \in Sight(repo, tips).repos /\ \A br \in Branches : tips[repo][br] \in Sight(repo, tips).tips
BY NoneIsNone, NoneAssumption DEF Sight

\* Nothing is found and nothing is asked for; what was heard is not forgotten.
LEMMA QuietHead ==
  ASSUME HeadInv, UNCHANGED <<result, asks>>, NowIsHeard',
         \A c \in Calls : (phase[c] = "new" <=> phase'[c] = "new")
                          /\ heard[c].repos \subseteq heard'[c].repos /\ heard[c].tips \subseteq heard'[c].tips
  PROVE  HeadInv'
<1>1. AskedOfOurs' /\ NothingYet'
  BY DEF HeadInv, AskedOfOurs, NothingYet
<1>2. HeadIsOfThisRequest'
  BY DEF HeadInv, HeadIsOfThisRequest
<1> QED
  BY <1>1, <1>2 DEF HeadInv

LEMMA HearHead == ASSUME Inv, HeadInv, Push \/ Rename PROVE HeadInv'
<1>1. UNCHANGED <<phase, result, asks>> /\ Hear /\ holder' \in Repos \cup {None}
  BY DEF Push, Rename, calls, work, Inv, TypeOK
<1>2. heard \in [Calls -> Sights] /\ \A c \in Calls : heard[c].repos \subseteq Repos
  BY DEF Inv, TypeOK, Sights
<1>3. ASSUME NEW c \in Calls
      PROVE  heard'[c] = IF phase[c] = "new" THEN heard[c] ELSE Both(heard[c], Sight(holder', tip'))
  BY <1>1 DEF Hear
<1>4. ASSUME NEW s, NEW t
      PROVE  Both(s, t).repos = s.repos \cup t.repos /\ Both(s, t).tips = s.tips \cup t.tips
  BY DEF Both
<1>5. \A c \in Calls : heard[c].repos \subseteq heard'[c].repos /\ heard[c].tips \subseteq heard'[c].tips
  BY <1>3, <1>4
<1>6. ASSUME NEW c \in Calls, phase[c] # "new", holder' # None
      PROVE  holder' \in heard'[c].repos /\ \A br \in Branches : tip'[holder'][br] \in heard'[c].tips
  <2>1. /\ holder' \in Sight(holder', tip').repos
        /\ \A br \in Branches : tip'[holder'][br] \in Sight(holder', tip').tips
    BY <1>1, <1>6, SightHeard
  <2> QED
    BY <1>3, <1>4, <1>6, <2>1
<1>7. NowIsHeard'
  BY <1>1, <1>6 DEF NowIsHeard
<1> QED
  BY <1>1, <1>5, <1>7, QuietHead

LEMMA ArriveHead ==
  ASSUME Inv, HeadInv, NEW c \in Calls, NEW bs, NEW p, p # "new", Arrive(c, bs, p)
  PROVE  HeadInv'
<1>1. /\ phase[c] = "new" /\ phase' = [phase EXCEPT ![c] = p]
      /\ heard' = [heard EXCEPT ![c] = Sight(holder, tip)]
      /\ UNCHANGED <<result, asks, holder, tip>>
  BY DEF Arrive, Goto, work, github
<1>2. /\ phase \in [Calls -> Phases] /\ heard \in [Calls -> Sights]
      /\ holder \in Repos \cup {None}
  BY DEF Inv, TypeOK
<1>3. \A d \in Calls \ {c} : phase'[d] = phase[d] /\ heard'[d] = heard[d]
  BY <1>1, <1>2
<1>4. phase'[c] = p /\ heard'[c] = Sight(holder, tip)
  BY <1>1, <1>2
<1>5. \A b \in Badges : result[c][b] = None /\ asks[c][b] = None
  BY <1>1, NoneIsNone DEF HeadInv, NothingYet, Inv, OnlyAskingAsks
<1>6. NowIsHeard'
  BY <1>1, <1>2, <1>3, <1>4, SightHeard DEF HeadInv, NowIsHeard
<1>7. AskedOfOurs' /\ NothingYet'
  BY <1>1, <1>3, <1>4, <1>5 DEF HeadInv, AskedOfOurs, NothingYet
<1>8. HeadIsOfThisRequest'
  BY <1>1, <1>3, <1>5, NoneIsNone DEF HeadInv, HeadIsOfThisRequest, Statuses
<1> QED
  BY <1>6, <1>7, <1>8 DEF HeadInv

\* A request goes on without asking GitHub.
LEMMA LocalHead ==
  ASSUME Inv, HeadInv, NEW c \in Calls, NEW p, p # "new", phase[c] # "new", Goto(c, p),
         UNCHANGED <<result, asks, heard, holder, tip>>
  PROVE  HeadInv'
<1>1. phase \in [Calls -> Phases]
  BY DEF Inv, TypeOK
<1>2. \A d \in Calls : phase[d] = "new" <=> phase'[d] = "new"
  BY <1>1 DEF Goto
<1>3. NowIsHeard'
  BY <1>2 DEF HeadInv, NowIsHeard
<1> QED
  BY <1>2, <1>3, QuietHead

\* A judgement without GitHub says nothing of the head.
LEMMA JudgeHead == ASSUME Inv, HeadInv, NEW c \in Calls, Judge(c) PROVE HeadInv'
<1>1. /\ phase[c] = "judge" /\ phase' = [phase EXCEPT ![c] = "ask"]
      /\ UNCHANGED <<asks, heard, holder, tip>>
  BY DEF Judge, Goto, github, request
<1>2. phase \in [Calls -> Phases] /\ result \in [Calls -> [Badges -> Statuses \cup {"asking", None}]]
  BY DEF Inv, TypeOK
<1>3. \A d \in Calls : phase'[d] = IF d = c THEN "ask" ELSE phase[d]
  BY <1>1, <1>2
<1>4. NowIsHeard' /\ AskedOfOurs'
  BY <1>1, <1>3 DEF HeadInv, NowIsHeard, AskedOfOurs
<1>5. ASSUME NEW d \in Calls, NEW b \in Badges
      PROVE  result'[d][b] = result[d][b] \/ (d = c /\ result'[d][b] \notin {"VALID", "STALE"})
  <2>1. CASE d = c
    <3>1. result'[c][b] = IF b \in wanted[c] THEN Judgement(b, row[c][b]) ELSE None
      BY <1>2 DEF Judge
    <3>2. Judgement(b, row[c][b]) \notin {"VALID", "STALE"}
      BY DEF Judgement
    <3> QED
      BY <2>1, <3>1, <3>2, NoneIsNone DEF Statuses
  <2>2. CASE d # c
    BY <1>2, <2>2 DEF Judge
  <2> QED
    BY <2>1, <2>2
<1>6. NothingYet'
  BY <1>3, <1>5 DEF HeadInv, NothingYet
<1>7. HeadIsOfThisRequest'
  BY <1>1, <1>5 DEF HeadInv, HeadIsOfThisRequest
<1> QED
  BY <1>4, <1>6, <1>7 DEF HeadInv

LEMMA AskMetadataHead == ASSUME Inv, HeadInv, NEW c \in Calls, AskMetadata(c) PROVE HeadInv'
<1>1. UNCHANGED <<phase, result, heard, holder, tip>>
  BY DEF AskMetadata, github, request
<1>2. PICK e \in wanted[c] : result[c][e] = "asking" /\ SameRepository /\ asks' = [asks EXCEPT ![c][e] = default[holder]]
  BY DEF AskMetadata
<1>3. wanted[c] \subseteq Badges /\ asks \in [Calls -> [Badges -> Branches \cup {None}]]
  BY DEF Inv, TypeOK
<1>4. phase[c] # "new"
  BY <1>2, <1>3 DEF Inv, OnlyAskingAsks
<1>5. Ours \in heard[c].repos
  BY <1>2, <1>4, OursAssumption, NoneIsNone DEF SameRepository, HeadInv, NowIsHeard
<1>6. \A d \in Calls, b \in Badges : asks'[d][b] = asks[d][b] \/ d = c
  BY <1>2, <1>3
<1>7. AskedOfOurs'
  BY <1>1, <1>5, <1>6 DEF HeadInv, AskedOfOurs
<1>8. NowIsHeard' /\ NothingYet' /\ HeadIsOfThisRequest'
  BY <1>1 DEF HeadInv, NowIsHeard, NothingYet, HeadIsOfThisRequest
<1> QED
  BY <1>7, <1>8 DEF HeadInv

\* A badge gets a status that what its request heard bears out.
LEMMA FoundHead ==
  ASSUME Inv, HeadInv, NEW c \in Calls, NEW e \in wanted[c], result[c][e] = "asking", NEW s, Found(c, e, s),
         s \in {"VALID", "STALE"} => Ours \in heard[c].repos,
         s = "VALID" => Commit[e] \in heard[c].tips
  PROVE  HeadInv'
<1>1. /\ result' = [result EXCEPT ![c][e] = s] /\ asks' = [asks EXCEPT ![c][e] = None]
      /\ UNCHANGED <<phase, heard, holder, tip>>
  BY DEF Found, github, request
<1>2. /\ e \in Badges /\ asks \in [Calls -> [Badges -> Branches \cup {None}]]
      /\ result \in [Calls -> [Badges -> Statuses \cup {"asking", None}]]
  BY DEF Inv, TypeOK
<1>3. phase[c] # "new"
  BY <1>2 DEF Inv, OnlyAskingAsks
<1>4. \A d \in Calls, b \in Badges : result'[d][b] = IF d = c /\ b = e THEN s ELSE result[d][b]
  BY <1>1, <1>2
<1>5. \A d \in Calls, b \in Badges : asks'[d][b] = IF d = c /\ b = e THEN None ELSE asks[d][b]
  BY <1>1, <1>2
<1>6. NowIsHeard' /\ AskedOfOurs'
  BY <1>1, <1>5 DEF HeadInv, NowIsHeard, AskedOfOurs
<1>7. NothingYet'
  BY <1>1, <1>3, <1>4 DEF HeadInv, NothingYet
<1>8. HeadIsOfThisRequest'
  BY <1>1, <1>4 DEF HeadInv, HeadIsOfThisRequest
<1> QED
  BY <1>6, <1>7, <1>8 DEF HeadInv

LEMMA AskCommitHead == ASSUME Inv, HeadInv, NEW c \in Calls, AskCommit(c) PROVE HeadInv'
<1>1. PICK e \in wanted[c] :
        /\ asks[c][e] # None /\ holder # None
        /\ Found(c, e, IF tip[holder][asks[c][e]] = Commit[e] THEN "VALID" ELSE "STALE")
  BY DEF AskCommit
<1>2. e \in Badges /\ asks[c][e] \in Branches
  BY <1>1 DEF Inv, TypeOK
<1>3. result[c][e] = "asking" /\ phase[c] # "new"
  BY <1>1, <1>2 DEF Inv, OnlyAskingAsks
<1>4. Ours \in heard[c].repos /\ tip[holder][asks[c][e]] \in heard[c].tips
  BY <1>1, <1>2, <1>3 DEF HeadInv, AskedOfOurs, NowIsHeard
<1> DEFINE s == IF tip[holder][asks[c][e]] = Commit[e] THEN "VALID" ELSE "STALE"
<1>5. Found(c, e, s) /\ (s = "VALID" => Commit[e] \in heard[c].tips)
  BY <1>1, <1>4
<1> HIDE DEF s
<1> QED
  BY <1>3, <1>4, <1>5, FoundHead

LEMMA HeadUnknownHead == ASSUME Inv, HeadInv, NEW c \in Calls, HeadUnknown(c) PROVE HeadInv'
<1>1. PICK e \in wanted[c] : result[c][e] = "asking" /\ Found(c, e, "UNVERIFIED")
  BY DEF HeadUnknown
<1> QED
  BY <1>1, FoundHead

LEMMA NextHead == Inv /\ HeadInv /\ [Next]_vars => HeadInv'
<1> SUFFICES ASSUME Inv, HeadInv, [Next]_vars PROVE HeadInv'
  OBVIOUS
<1>1. CASE UNCHANGED vars \/ Tick \/ SwitchDefault
  <2>1. UNCHANGED <<phase, result, asks, heard, holder, tip>>
    BY <1>1 DEF vars, Tick, SwitchDefault, github, calls, work
  <2>2. NowIsHeard'
    BY <2>1 DEF HeadInv, NowIsHeard
  <2> QED
    BY <2>1, <2>2, QuietHead
<1>2. CASE Push \/ Rename
  BY <1>2, HearHead
<1>3. ASSUME NEW c \in Calls, Verify(c) \/ List(c) \/ Revoke(c) PROVE HeadInv'
  BY <1>3, ArriveHead DEF Verify, List, Revoke
<1>4. ASSUME NEW c \in Calls, Judge(c) \/ AskMetadata(c) \/ AskCommit(c) \/ HeadUnknown(c) PROVE HeadInv'
  BY <1>4, JudgeHead, AskMetadataHead, AskCommitHead, HeadUnknownHead
<1>5. ASSUME NEW c \in Calls, NotFound(c) \/ Find(c) \/ Insert(c) \/ CommitRevocation(c) \/ CommitUnanswered(c)
      PROVE  HeadInv'
  <2>1. /\ phase[c] # "new" /\ \E p : p # "new" /\ Goto(c, p)
        /\ UNCHANGED <<result, asks, heard, holder, tip>>
    BY <1>5 DEF NotFound, Find, Insert, CommitRevocation, CommitUnanswered, github, work, request
  <2> QED
    BY <2>1, LocalHead
<1>6. ASSUME NEW c \in Calls, Read(c) \/ Answer(c) \/ Fail(c) PROVE HeadInv'
  <2>1. /\ phase[c] # "new" /\ \E p : p # "new" /\ Goto(c, p)
        /\ UNCHANGED <<result, asks, heard, holder, tip>>
    BY <1>6 DEF Read, Answer, Fail, RevokePhases, github, work, request
  <2> QED
    BY <2>1, LocalHead
<1> QED
  BY <1>1, <1>2, <1>3, <1>4, <1>5, <1>6 DEF Next, Environment, Progress, Failure

\* VALID and STALE are said of this badge's repository and of commits its branches had
\* while the request was under way (verify, getDefaultBranchHead), whoever renames,
\* pushes or takes the name meanwhile.
THEOREM HeadsOfThisRequest == Spec => []HeadIsOfThisRequest
<1>1. HeadInv => HeadIsOfThisRequest
  BY DEF HeadInv
<1> QED
  BY <1>1, InitHead, NextHead, Invariance, PTL DEF Spec

===============================================================================
