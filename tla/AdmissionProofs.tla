--------------------------- MODULE AdmissionProofs ---------------------------
(***************************************************************************)
(* Proofs about Admission, for every set of requests, clients and accounts *)
(* and for all limits.                                                     *)
(*                                                                         *)
(* The argument: a call holds the release() of a gate that it has not      *)
(* called exactly while it does the gate's work.  So every step of a call  *)
(* moves it into or out of the work of a gate and its counter with it.     *)
(*                                                                         *)
(* A limiter: the entry of a key tells of its admissions.  Those since the *)
(* window opened have numbers up to its count, those before it are less    *)
(* than the limit in any span of a window, and a key without an entry has  *)
(* none that is younger than a window (Tracks).  The entries are in the    *)
(* order in which their keys asked last, so the one that has to go is the  *)
(* one that asked least recently.                                          *)
(***************************************************************************)
EXTENDS Admission, RateLimiter, FiniteSetTheorems, SequenceTheorems,
        WellFoundedInduction, TLAPS

Phases == {"idle", "done"} \cup UNION {Inside(g) : g \in Gates}

\* The gates in whose work a call in phase p is.
Holds(p) == {g \in Gates : p \in Inside(g)}

\* A call holds the closures of the gates whose work it does.
ClosuresMatch == \A c \in Calls : closures[c] = Holds(phase[c])

WorkIsFinite == \A g \in Gates : IsFiniteSet(Working(g))

\* The inductive invariant.
Inv ==
  /\ TypeOK
  /\ ClosuresMatch
  /\ WorkIsFinite
  /\ GateIsExact

LEMMA PhaseHolds ==
  /\ Phases = {"idle", "done", "issuing", "verifying", "authenticating",
               "scanning", "summarizing"}
  /\ Holds("idle") = {} /\ Holds("done") = {}
  /\ Holds("issuing") = {"issue"} /\ Holds("verifying") = {"issue"}
  /\ Holds("authenticating") = {"login"}
  /\ Holds("scanning") = {"scan"} /\ Holds("summarizing") = {"ai"}
BY DEF Phases, Holds, Inside, Gates

-----------------------------------------------------------------------------
(* One call goes from its phase to p, and the counters go with it.  Every  *)
(* step of a handler is such a move.                                       *)

Moves(c, p) ==
  /\ phase' = [phase EXCEPT ![c] = p]
  /\ closures' = [closures EXCEPT ![c] = Holds(p)]
  /\ active' \in [Gates -> Int]
  /\ \A g \in Gates :
       active'[g] = active[g] - (IF g \in Holds(phase[c]) THEN 1 ELSE 0)
                              + (IF g \in Holds(p) THEN 1 ELSE 0)

LEMMA MoveCounts ==
  ASSUME Inv, NEW c \in Calls, NEW p \in Phases, Moves(c, p),
         \A g \in Holds(p) \ Holds(phase[c]) : Free(g),
         NEW g \in Gates
  PROVE  /\ IsFiniteSet(Working(g)')
         /\ active'[g] = Cardinality(Working(g)')
         /\ active'[g] <= GateLimit[g]
         /\ active'[g] \in Nat
<1>1. /\ IsFiniteSet(Working(g))
      /\ active[g] = Cardinality(Working(g)) /\ active[g] \in Nat
      /\ active[g] <= GateLimit[g] /\ GateLimit[g] \in Nat
  BY GateLimitAssumption DEF Inv, WorkIsFinite, GateIsExact, TypeOK
<1>2. c \in Working(g) <=> g \in Holds(phase[c])
  BY DEF Working, Holds
<1>3. phase'[c] = p /\ \A d \in Calls \ {c} : phase'[d] = phase[d]
  BY DEF Moves, Inv, TypeOK
<1>4. Working(g)' = IF g \in Holds(p) THEN Working(g) \cup {c} ELSE Working(g) \ {c}
  BY <1>3 DEF Working, Holds
<1>5. active'[g] = active[g] - (IF g \in Holds(phase[c]) THEN 1 ELSE 0)
                             + (IF g \in Holds(p) THEN 1 ELSE 0)
  BY DEF Moves
<1>6. /\ IsFiniteSet(Working(g) \cup {c})
      /\ c \notin Working(g) =>
           Cardinality(Working(g) \cup {c}) = Cardinality(Working(g)) + 1
  BY <1>1, FS_AddElement
<1>7. /\ IsFiniteSet(Working(g) \ {c})
      /\ c \in Working(g) =>
           Cardinality(Working(g) \ {c}) = Cardinality(Working(g)) - 1
  BY <1>1, FS_RemoveElement
<1>8. c \in Working(g) => Cardinality(Working(g)) # 0
  BY <1>1, FS_EmptySet
<1>9. CASE c \in Working(g) /\ g \in Holds(p)
  <2>1. Working(g)' = Working(g)
    BY <1>4, <1>9
  <2>2. active'[g] = active[g]
    BY <1>1, <1>2, <1>5, <1>9
  <2>3. QED
    BY <1>1, <2>1, <2>2
<1>10. CASE c \in Working(g) /\ g \notin Holds(p)
  BY <1>1, <1>2, <1>4, <1>5, <1>7, <1>8, <1>10
<1>11. CASE c \notin Working(g) /\ g \in Holds(p)
  <2>1. active[g] < GateLimit[g]
    BY <1>2, <1>11 DEF Free
  <2>2. QED
    BY <1>1, <1>2, <1>4, <1>5, <1>6, <1>11, <2>1
<1>12. CASE c \notin Working(g) /\ g \notin Holds(p)
  <2>1. Working(g)' = Working(g)
    BY <1>4, <1>12
  <2>2. active'[g] = active[g]
    BY <1>1, <1>2, <1>5, <1>12
  <2>3. QED
    BY <1>1, <2>1, <2>2
<1>13. QED
  BY <1>9, <1>10, <1>11, <1>12

LEMMA MoveInv ==
  ASSUME Inv, NEW c \in Calls, NEW p \in Phases, Moves(c, p), UNCHANGED now,
         \A g \in Holds(p) \ Holds(phase[c]) : Free(g),
         client' \in [Calls -> Clients \cup {"nobody"}],
         account' \in [Calls -> Accounts \cup {"nobody"}],
         gone' \subseteq ScanCalls,
         answer' \in [Calls -> {"none", "200", "429", "error"}]
  PROVE  Inv'
<1>1. \A g \in Gates : /\ IsFiniteSet(Working(g)')
                       /\ active'[g] = Cardinality(Working(g)')
                       /\ active'[g] <= GateLimit[g]
                       /\ active'[g] \in Nat
  BY MoveCounts
<1>2. /\ active' \in [Gates -> Nat]
      /\ closures' \in [Calls -> SUBSET Gates]
      /\ phase' \in [Calls -> Phases]
  BY <1>1 DEF Moves, Inv, TypeOK, Phases, Holds
<1>3. TypeOK'
  BY <1>2 DEF Inv, TypeOK, Phases
<1>4. ClosuresMatch'
  BY DEF Moves, Inv, TypeOK, ClosuresMatch
<1>5. WorkIsFinite' /\ GateIsExact'
  BY <1>1 DEF WorkIsFinite, GateIsExact
<1>6. QED
  BY <1>3, <1>4, <1>5 DEF Inv

LEMMA InitInv == Init => Inv
<1> SUFFICES ASSUME Init PROVE Inv
  OBVIOUS
<1>1. TypeOK
  BY DEF Init, TypeOK
<1>2. ClosuresMatch
  BY PhaseHolds DEF Init, ClosuresMatch
<1>3. \A g \in Gates : Working(g) = {}
  BY PhaseHolds DEF Init, Working, Holds
<1>4. \A g \in Gates : active[g] = 0 /\ GateLimit[g] \in Nat \ {0}
  BY GateLimitAssumption DEF Init
<1>5. WorkIsFinite /\ GateIsExact
  BY <1>3, <1>4, FS_EmptySet DEF WorkIsFinite, GateIsExact
<1>6. QED
  BY <1>1, <1>2, <1>5 DEF Inv

-----------------------------------------------------------------------------
(* The gates *)

\* A request is turned away, or enters the gate g with phase p.
LEMMA EnterMoves ==
  ASSUME Inv, NEW c \in Calls, phase[c] = "idle", NEW g \in Gates, NEW p \in Phases,
         Holds(p) = {g},
         \/ Free(g) /\ Acquire(c, g) /\ Goto(c, p) /\ UNCHANGED answer
         \/ TooMany(c)
  PROVE  /\ \E q \in {p, "done"} : Moves(c, q) /\ \A h \in Holds(q) : Free(h)
         /\ answer' \in [Calls -> {"none", "200", "429", "error"}]
<1>1. closures[c] = {} /\ Holds(phase[c]) = {}
  BY PhaseHolds DEF Inv, ClosuresMatch
<1>2. CASE Free(g) /\ Acquire(c, g) /\ Goto(c, p) /\ UNCHANGED answer
  <2>1. /\ active' \in [Gates -> Int]
        /\ \A h \in Gates : active'[h] = active[h] - 0 + (IF h = g THEN 1 ELSE 0)
    BY <1>2 DEF Acquire, Inv, TypeOK
  <2>2. Moves(c, p)
    BY <1>1, <1>2, <2>1 DEF Moves, Acquire, Goto
  <2>3. QED
    BY <1>2, <2>2 DEF Inv, TypeOK
<1>3. CASE TooMany(c)
  <2>1. /\ active' \in [Gates -> Int]
        /\ \A h \in Gates : active'[h] = active[h] - 0 + 0
    BY <1>3 DEF TooMany, gateVars, Inv, TypeOK
  <2>2. closures' = [closures EXCEPT ![c] = {}]
    BY <1>1, <1>3 DEF TooMany, gateVars, Inv, TypeOK
  <2>3. Moves(c, "done")
    BY <1>1, <1>3, <2>1, <2>2, PhaseHolds DEF Moves, TooMany, End, Goto
  <2>4. QED
    BY <1>3, <2>3, PhaseHolds DEF TooMany, End, Inv, TypeOK
<1>4. QED
  BY <1>2, <1>3

\* A call ends and calls the release() of gates gs, those it holds among them.
LEMMA LeaveMoves ==
  ASSUME Inv, NEW c \in Calls, NEW gs \in SUBSET Gates, Holds(phase[c]) \subseteq gs,
         Release(c, gs), Goto(c, "done")
  PROVE  Moves(c, "done")
<1>1. closures[c] = Holds(phase[c])
  BY DEF Inv, ClosuresMatch
<1>2. gs \cap closures[c] = Holds(phase[c]) /\ closures[c] \ gs = {}
  BY <1>1
<1>3. /\ active' \in [Gates -> Int]
      /\ \A g \in Gates :
           active'[g] = active[g] - (IF g \in Holds(phase[c]) THEN 1 ELSE 0) + 0
  <2>1. \A g \in Gates : active[g] \in Nat
    BY DEF Inv, TypeOK
  <2>2. QED
    BY <1>2, <2>1 DEF Release
<1>4. closures' = [closures EXCEPT ![c] = {}]
  BY <1>2 DEF Release, Inv, TypeOK
<1>5. QED
  BY <1>3, <1>4, PhaseHolds DEF Moves, Goto

-----------------------------------------------------------------------------
(* The handlers *)

LEMMA EnterInv ==
  ASSUME Inv, NEW c \in Calls, NEW ip \in Clients,
         \/ Issue(c, ip) \/ Scan(c, ip)
         \/ \E name \in Accounts : Login(c, ip, name)
  PROVE  Inv'
<1>1. /\ UNCHANGED <<now, gone>>
      /\ client' \in [Calls -> Clients \cup {"nobody"}]
      /\ account' \in [Calls -> Accounts \cup {"nobody"}]
  BY DEF Issue, Login, Scan, Inv, TypeOK
<1>2. \E g \in Gates, p \in Phases :
        /\ phase[c] = "idle" /\ Holds(p) = {g}
        /\ \/ Free(g) /\ Acquire(c, g) /\ Goto(c, p) /\ UNCHANGED answer
           \/ TooMany(c)
  <2>1. CASE Issue(c, ip)
    BY <2>1, PhaseHolds DEF Issue, Gates
  <2>2. CASE \E name \in Accounts : Login(c, ip, name)
    BY <2>2, PhaseHolds DEF Login, Gates
  <2>3. CASE Scan(c, ip)
    BY <2>3, PhaseHolds DEF Scan, Gates
  <2>4. QED
    BY <2>1, <2>2, <2>3
<1>3. PICK q \in Phases : Moves(c, q) /\ \A h \in Holds(q) : Free(h)
  BY <1>2, EnterMoves, PhaseHolds
<1>4. answer' \in [Calls -> {"none", "200", "429", "error"}]
  BY <1>2, EnterMoves
<1>5. QED
  BY <1>1, <1>3, <1>4, MoveInv DEF Inv, TypeOK

LEMMA LeaveInv ==
  ASSUME Inv, NEW c \in Calls,
         \/ IssueEnds(c) \/ Authenticated(c) \/ NotAuthenticated(c)
         \/ ScanEnds(c) \/ SummaryEnds(c)
  PROVE  Inv'
<1>1. \E gs \in SUBSET Gates : Holds(phase[c]) \subseteq gs /\ Release(c, gs)
  BY PhaseHolds DEF IssueEnds, Authenticated, NotAuthenticated, ScanEnds,
                    SummaryEnds, Gates
<1>2. /\ Goto(c, "done") /\ UNCHANGED <<now, client, account, gone>>
      /\ \E result \in {"none", "200", "error"} :
           answer' = [answer EXCEPT ![c] = result]
  BY DEF IssueEnds, Authenticated, NotAuthenticated, ScanEnds, SummaryEnds, End
<1>3. Moves(c, "done")
  BY <1>1, <1>2, LeaveMoves
<1>4. QED
  BY <1>2, <1>3, MoveInv, PhaseHolds DEF Inv, TypeOK

\* A call goes on with its work, or from one gate's to that of the next.
LEMMA WorkInv ==
  ASSUME Inv, NEW c \in Calls, Issued(c) \/ Summarize(c)
  PROVE  Inv'
<1>1. UNCHANGED <<now, client, account, gone, answer>>
  BY DEF Issued, Summarize
<1>2. CASE Issued(c)
  <2>1. /\ active' \in [Gates -> Int]
        /\ \A g \in Gates :
             active'[g] = active[g] - (IF g \in {"issue"} THEN 1 ELSE 0)
                                    + (IF g \in {"issue"} THEN 1 ELSE 0)
    BY <1>2 DEF Issued, gateVars, Inv, TypeOK
  <2>2. closures' = [closures EXCEPT ![c] = {"issue"}]
    BY <1>2, PhaseHolds DEF Issued, gateVars, Inv, TypeOK, ClosuresMatch
  <2>3. Moves(c, "verifying") /\ Holds("verifying") \ Holds(phase[c]) = {}
    BY <1>2, <2>1, <2>2, PhaseHolds DEF Moves, Issued, Goto
  <2>4. QED
    BY <1>1, <2>3, MoveInv, PhaseHolds DEF Inv, TypeOK
<1>3. CASE Summarize(c)
  <2>1. /\ active' \in [Gates -> Int]
        /\ \A g \in Gates :
             active'[g] = active[g] - (IF g \in {"scan"} THEN 1 ELSE 0)
                                    + (IF g \in {"ai"} THEN 1 ELSE 0)
    BY <1>3 DEF Summarize, Inv, TypeOK, Gates
  <2>2. Moves(c, "summarizing")
    BY <1>3, <2>1, PhaseHolds DEF Moves, Summarize, Goto
  <2>3. \A g \in Holds("summarizing") : Free(g)
    BY <1>3, PhaseHolds DEF Summarize
  <2>4. QED
    BY <1>1, <2>2, <2>3, MoveInv, PhaseHolds DEF Inv, TypeOK
<1>4. QED
  BY <1>2, <1>3

\* A step that touches neither calls nor gates.
LEMMA QuietInv ==
  ASSUME Inv, UNCHANGED <<active, closures, phase, client, account, answer>>,
         now' \in Nat, gone' \subseteq ScanCalls
  PROVE  Inv'
<1>1. \A g \in Gates : Working(g)' = Working(g)
  BY DEF Working
<1>2. TypeOK' /\ ClosuresMatch'
  BY DEF Inv, TypeOK, ClosuresMatch
<1>3. WorkIsFinite' /\ GateIsExact'
  BY <1>1 DEF Inv, WorkIsFinite, GateIsExact
<1>4. QED
  BY <1>2, <1>3 DEF Inv

LEMMA NextInv == Inv /\ [Next]_vars => Inv'
<1> SUFFICES ASSUME Inv, [Next]_vars PROVE Inv'
  OBVIOUS
<1>1. CASE Tick \/ UNCHANGED vars
  BY <1>1, QuietInv DEF Tick, vars, gateVars, Inv, TypeOK
<1>2. ASSUME NEW c \in IssueCalls,
             (\E ip \in Clients : Issue(c, ip)) \/ Issued(c) \/ IssueEnds(c)
      PROVE  Inv'
  <2>1. c \in Calls
    BY DEF Calls
  <2>2. CASE \E ip \in Clients : Issue(c, ip)
    BY <2>1, <2>2, EnterInv
  <2>3. QED
    BY <1>2, <2>1, <2>2, WorkInv, LeaveInv
<1>3. ASSUME NEW c \in LoginCalls,
             \/ \E ip \in Clients, name \in Accounts : Login(c, ip, name)
             \/ Authenticated(c) \/ NotAuthenticated(c)
      PROVE  Inv'
  BY <1>3, EnterInv, LeaveInv DEF Calls
<1>4. ASSUME NEW c \in ScanCalls,
             \/ \E ip \in Clients : Scan(c, ip)
             \/ Summarize(c) \/ ScanEnds(c) \/ SummaryEnds(c)
      PROVE  Inv'
  BY <1>4, EnterInv, WorkInv, LeaveInv DEF Calls
<1>5. ASSUME NEW c \in ScanCalls, ClientGone(c)
      PROVE  Inv'
  BY <1>5, QuietInv DEF ClientGone, gateVars, Inv, TypeOK
<1>6. QED
  BY <1>1, <1>2, <1>3, <1>4, <1>5 DEF Next

\* Admission keeps the inductive invariant.
THEOREM Invariance == Spec => []Inv
<1>1. Init => Inv
  BY InitInv
<1>2. Inv /\ [Next]_vars => Inv'
  BY NextInv
<1>3. QED
  BY <1>1, <1>2, PTL DEF Spec

\* Whatever the requests, clients and limits, a gate counts exactly the calls
\* that do its work, and never lets more than its limit do it.
THEOREM GatesAreExact == Spec => []GateIsExact
<1>1. Inv => GateIsExact
  BY DEF Inv
<1>2. QED
  BY <1>1, Invariance, PTL

-----------------------------------------------------------------------------
(* Induction over the natural numbers, for the recursion of Keep: the      *)
(* library's theorem takes a predicate, which is written here as a set.    *)

LEMMA Smallest ==
  ASSUME NEW T \in SUBSET Nat, T # {}
  PROVE  \E n \in T : \A m \in T : n <= m
<1> DEFINE R == OpToRel(<, Nat)
<1>1. IsWellFoundedOn(R, Nat)
  BY NatLessThanWellFounded
<1>2. \A p, q \in Nat : p < q => <<p, q>> \in R
  BY DEF OpToRel
<1> HIDE DEF R
<1>3. \E n \in T : \A m \in T : ~ (<<m, n>> \in R)
  BY <1>1, WFMin
<1>4. PICK n \in T : \A m \in T : ~ (<<m, n>> \in R)
  BY <1>3
<1>5. \A m \in T : ~ (m < n)
  BY <1>2, <1>4
<1>6. n \in Nat /\ \A m \in T : m \in Nat
  OBVIOUS
<1>7. QED
  BY <1>5, <1>6

\* What holds of 0, and of n + 1 whenever of n, holds up to N.
LEMMA NatUpTo ==
  ASSUME NEW N \in Nat, NEW T \in SUBSET (0..N), 0 \in T,
         \A n \in 0..(N - 1) : n \in T => n + 1 \in T
  PROVE  T = 0..N
<1> DEFINE M == (0..N) \ T
<1>1. SUFFICES ASSUME M # {} PROVE FALSE
  OBVIOUS
<1>2. M \in SUBSET Nat
  OBVIOUS
<1>3. PICK n \in M : \A m \in M : n <= m
  BY <1>1, <1>2, Smallest
<1>4. n \in 1..N
  BY <1>3
<1>5. n - 1 \in 0..(N - 1) /\ (n - 1) + 1 = n /\ ~ (n <= n - 1)
  BY <1>4
<1>6. n - 1 \in T
  BY <1>3, <1>5
<1>7. QED
  BY <1>3, <1>5, <1>6

-----------------------------------------------------------------------------
(* Keep: what it returns are the entries at the given positions, in their  *)
(* order.                                                                  *)

\* f counts up to n: what is kept of the first i entries.
Keeps(f, n, s, at) ==
  \A i \in 0..n : f[i] = IF i = 0 THEN <<>>
                         ELSE IF i \in at THEN Append(f[i - 1], s[i]) ELSE f[i - 1]

LEMMA KeepsExists ==
  ASSUME NEW S, NEW s \in Seq(S), NEW at
  PROVE  \E f \in [0..Len(s) -> Seq(S)] : Keeps(f, Len(s), s, at)
<1> DEFINE N == Len(s)
           T == {n \in 0..N : \E f \in [0..n -> Seq(S)] : Keeps(f, n, s, at)}
<1>1. N \in Nat
  BY LenProperties
<1>2. 0 \in T
  <2>1. <<>> \in Seq(S)
    BY EmptySeq
  <2>2. [i \in 0..0 |-> <<>>] \in [0..0 -> Seq(S)]
    BY <2>1
  <2>3. Keeps([i \in 0..0 |-> <<>>], 0, s, at)
    BY DEF Keeps
  <2>4. \E f \in [0..0 -> Seq(S)] : Keeps(f, 0, s, at)
    BY <2>2, <2>3, Zenon
  <2>5. QED
    BY <1>1, <2>4
<1>3. ASSUME NEW n \in 0..(N - 1), n \in T
      PROVE  n + 1 \in T
  <2>1. PICK f \in [0..n -> Seq(S)] : Keeps(f, n, s, at)
    BY <1>3
  <2>2. n \in Nat /\ n + 1 \in 1..N /\ (n + 1) - 1 = n
    BY <1>1
  <2>3. s[n + 1] \in S
    BY <2>2, ElementOfSeq
  <2> DEFINE next == IF n + 1 \in at THEN Append(f[n], s[n + 1]) ELSE f[n]
             g == [i \in 0..(n + 1) |-> IF i = n + 1 THEN next ELSE f[i]]
  <2>4. f[n] \in Seq(S)
    BY <2>2
  <2>5. next \in Seq(S)
    BY <2>3, <2>4, AppendProperties
  <2> HIDE DEF next
  <2>6. g \in [0..(n + 1) -> Seq(S)]
    BY <2>2, <2>5
  <2>7. /\ \A i \in 0..n : g[i] = f[i]
        /\ g[n + 1] = next
    BY <2>2
  <2> HIDE DEF g
  <2>8. ASSUME NEW i \in 0..(n + 1)
        PROVE  g[i] = IF i = 0 THEN <<>>
                      ELSE IF i \in at THEN Append(g[i - 1], s[i]) ELSE g[i - 1]
    <3>1. CASE i = n + 1
      BY <2>2, <2>7, <3>1 DEF next
    <3>2. CASE i \in 0..n
      <4>1. i # 0 => i - 1 \in 0..n
        BY <2>2, <3>2
      <4>2. QED
        BY <2>1, <2>7, <3>2, <4>1 DEF Keeps
    <3>3. QED
      BY <2>2, <3>1, <3>2
  <2>9. Keeps(g, n + 1, s, at)
    BY <2>8 DEF Keeps
  <2>10. QED
    BY <1>1, <2>2, <2>6, <2>9
<1> HIDE DEF T
<1>4. T \in SUBSET (0..N)
  BY DEF T
<1>5. T = 0..N
  BY <1>1, <1>2, <1>3, <1>4, NatUpTo
<1>6. N \in T
  BY <1>1, <1>5
<1>7. QED
  BY <1>6 DEF T

LEMMA KeepIs ==
  ASSUME NEW S, NEW s \in Seq(S), NEW at
  PROVE  \E f : Keeps(f, Len(s), s, at) /\ Keep(s, at) = f[Len(s)]
<1> DEFINE Body(f) == [i \in 0..Len(s) |->
                         IF i = 0 THEN <<>>
                         ELSE IF i \in at THEN Append(f[i - 1], s[i]) ELSE f[i - 1]]
<1>1. PICK f \in [0..Len(s) -> Seq(S)] : Keeps(f, Len(s), s, at)
  BY KeepsExists
<1>2. f = Body(f)
  BY <1>1 DEF Keeps
<1> DEFINE kept == CHOOSE g : g = Body(g)
<1>3. kept = Body(kept)
  BY <1>2
<1>4. Keep(s, at) = kept[Len(s)]
  BY DEF Keep
<1> HIDE DEF kept
<1>5. Keeps(kept, Len(s), s, at)
  BY <1>3 DEF Keeps
<1>6. QED
  BY <1>4, <1>5


\* t has the entries of s at the positions at up to n, and pos tells which.
Places(pos, t, n, s, at) ==
  /\ pos \in [1..Len(t) -> at \cap (1..n)]
  /\ \A i, j \in 1..Len(t) : i < j => pos[i] < pos[j]
  /\ \A a \in at \cap (1..n) : \E i \in 1..Len(t) : pos[i] = a
  /\ \A i \in 1..Len(t) : t[i] = s[pos[i]]

LEMMA PlacesMore ==
  ASSUME NEW S, NEW s \in Seq(S), NEW at, NEW n \in Nat, n + 1 \in 1..Len(s), n + 1 \in at,
         NEW t \in Seq(S), NEW pos, Places(pos, t, n, s, at)
  PROVE  /\ Append(t, s[n + 1]) \in Seq(S)
         /\ \E q : Places(q, Append(t, s[n + 1]), n + 1, s, at)
<1> DEFINE u == Append(t, s[n + 1])
           q == [i \in 1..(Len(t) + 1) |-> IF i = Len(t) + 1 THEN n + 1 ELSE pos[i]]
<1>1. s[n + 1] \in S
  BY ElementOfSeq
<1>2. /\ Len(t) \in Nat /\ Len(u) = Len(t) + 1
      /\ u[Len(t) + 1] = s[n + 1] /\ \A i \in 1..Len(t) : u[i] = t[i]
      /\ u \in Seq(S)
  BY <1>1, AppendProperties, LenProperties
<1> HIDE DEF u
<1>3. /\ \A i \in 1..Len(t) : q[i] = pos[i] /\ pos[i] \in at \cap (1..n)
      /\ q[Len(t) + 1] = n + 1
  BY <1>2 DEF Places
<1>4. q \in [1..Len(u) -> at \cap (1..(n + 1))]
  <2>1. \A i \in 1..(Len(t) + 1) : i \in 1..Len(t) \/ i = Len(t) + 1
    BY <1>2
  <2>2. /\ n + 1 \in at \cap (1..(n + 1))
        /\ \A m \in at \cap (1..n) : m \in at \cap (1..(n + 1))
    OBVIOUS
  <2>3. \A i \in 1..(Len(t) + 1) : q[i] \in at \cap (1..(n + 1))
    BY <1>3, <2>1, <2>2
  <2>4. q \in [1..(Len(t) + 1) -> at \cap (1..(n + 1))]
    BY <2>3
  <2>5. QED
    BY <1>2, <2>4
<1> HIDE DEF q
<1>5. ASSUME NEW i \in 1..Len(u), NEW j \in 1..Len(u), i < j
      PROVE  q[i] < q[j]
  <2>1. i \in 1..Len(t)
    BY <1>2, <1>5
  <2>2. CASE j = Len(t) + 1
    BY <1>3, <2>1, <2>2
  <2>3. CASE j \in 1..Len(t)
    BY <1>3, <1>5, <2>1, <2>3 DEF Places
  <2>4. QED
    BY <1>2, <2>2, <2>3
<1>6. ASSUME NEW a \in at \cap (1..(n + 1))
      PROVE  \E i \in 1..Len(u) : q[i] = a
  <2>1. CASE a = n + 1
    BY <1>2, <1>3, <2>1
  <2>2. CASE a \in 1..n
    <3>1. PICK i \in 1..Len(t) : pos[i] = a
      BY <2>2 DEF Places
    <3>2. i \in 1..Len(u) /\ q[i] = a
      BY <1>2, <1>3, <3>1
    <3>3. QED
      BY <3>2
  <2>3. QED
    BY <2>1, <2>2
<1>7. ASSUME NEW i \in 1..Len(u)
      PROVE  u[i] = s[q[i]]
  <2>1. CASE i = Len(t) + 1
    BY <1>2, <1>3, <2>1
  <2>2. CASE i \in 1..Len(t)
    BY <1>2, <1>3, <2>2 DEF Places
  <2>3. QED
    BY <1>2, <2>1, <2>2
<1>8. Places(q, u, n + 1, s, at)
  BY <1>4, <1>5, <1>6, <1>7 DEF Places
<1>9. QED
  BY <1>2, <1>8 DEF u

LEMMA KeepPositions ==
  ASSUME NEW S, NEW s \in Seq(S), NEW at
  PROVE  /\ Keep(s, at) \in Seq(S)
         /\ \E pos : Places(pos, Keep(s, at), Len(s), s, at)
<1>1. PICK f : Keeps(f, Len(s), s, at) /\ Keep(s, at) = f[Len(s)]
  BY KeepIs
<1> DEFINE N == Len(s)
           Good(n) == f[n] \in Seq(S) /\ \E pos : Places(pos, f[n], n, s, at)
           T == {n \in 0..N : Good(n)}
<1>2. N \in Nat
  BY LenProperties
<1>3. Good(0)
  <2>1. f[0] = <<>>
    BY <1>1, <1>2 DEF Keeps
  <2>2. <<>> \in Seq(S) /\ Len(<<>>) = 0
    BY EmptySeq
  <2>3. [i \in 1..0 |-> 0] \in [1..0 -> at \cap (1..0)]
    OBVIOUS
  <2>4. Places([i \in 1..0 |-> 0], <<>>, 0, s, at)
    BY <2>2, <2>3 DEF Places
  <2>5. QED
    BY <2>1, <2>2, <2>4
<1>4. ASSUME NEW n \in 0..(N - 1), Good(n)
      PROVE  Good(n + 1)
  <2>1. n \in Nat /\ n + 1 \in 1..N /\ n + 1 \in 0..N /\ (n + 1) - 1 = n /\ n + 1 # 0
    BY <1>2
  <2>2. f[n + 1] = IF n + 1 \in at THEN Append(f[n], s[n + 1]) ELSE f[n]
    BY <1>1, <2>1 DEF Keeps
  <2>3. f[n] \in Seq(S)
    BY <1>4
  <2>4. PICK pos : Places(pos, f[n], n, s, at)
    BY <1>4
  <2>5. CASE n + 1 \in at
    <3>1. /\ Append(f[n], s[n + 1]) \in Seq(S)
          /\ \E q : Places(q, Append(f[n], s[n + 1]), n + 1, s, at)
      BY <2>1, <2>3, <2>4, <2>5, PlacesMore
    <3>2. QED
      BY <2>2, <2>5, <3>1
  <2>6. CASE n + 1 \notin at
    <3>1. at \cap (1..(n + 1)) = at \cap (1..n)
      BY <2>1, <2>6
    <3>2. Places(pos, f[n], n + 1, s, at)
      BY <2>4, <3>1 DEF Places
    <3>3. f[n + 1] = f[n]
      BY <2>2, <2>6
    <3>4. QED
      BY <2>3, <3>2, <3>3
  <2>7. QED
    BY <2>5, <2>6
<1> HIDE DEF Good
<1>5. 0 \in T /\ T \in SUBSET (0..N) /\ \A n \in 0..(N - 1) : n \in T => n + 1 \in T
  BY <1>2, <1>3, <1>4
<1> HIDE DEF T
<1>6. T = 0..N
  BY <1>2, <1>5, NatUpTo
<1>7. Good(N)
  BY <1>2, <1>6 DEF T
<1>8. QED
  BY <1>1, <1>7 DEF Good


LEMMA IntervalSize ==
  ASSUME NEW n \in Nat
  PROVE  IsFiniteSet(1..n) /\ Cardinality(1..n) = n
BY FS_Interval

\* As many as an injection leaves room for.
LEMMA NoMoreThan ==
  ASSUME NEW n \in Nat, NEW X, IsFiniteSet(X), NEW f \in [1..n -> X],
         \A i, j \in 1..n : f[i] = f[j] => i = j
  PROVE  n <= Cardinality(X)
<1>1. f \in Injection(1..n, X)
  BY DEF Injection, IsInjective
<1>2. Cardinality(1..n) <= Cardinality(X)
  BY <1>1, FS_Injection
<1>3. Cardinality(1..n) = n
  BY IntervalSize
<1>4. QED
  BY <1>2, <1>3

LEMMA KeepIsPart ==
  ASSUME NEW S, NEW s \in Seq(S), NEW at \in SUBSET (1..Len(s))
  PROVE  /\ Keep(s, at) \in Seq(S)
         /\ \A i \in 1..Len(Keep(s, at)) : \E a \in at : Keep(s, at)[i] = s[a]
         /\ \A a \in at : \E i \in 1..Len(Keep(s, at)) : Keep(s, at)[i] = s[a]
         /\ \A i, j \in 1..Len(Keep(s, at)) :
              i < j => \E a, b \in at : a < b /\ Keep(s, at)[i] = s[a] /\ Keep(s, at)[j] = s[b]
         /\ Len(Keep(s, at)) <= Len(s)
         /\ at # 1..Len(s) => Len(Keep(s, at)) < Len(s)
<1> DEFINE t == Keep(s, at)
<1>1. t \in Seq(S) /\ \E pos : Places(pos, t, Len(s), s, at)
  BY KeepPositions
<1> HIDE DEF t
<1>2. PICK pos : Places(pos, t, Len(s), s, at)
  BY <1>1
<1>3. Len(t) \in Nat /\ Len(s) \in Nat
  BY <1>1, LenProperties
<1>4. at \cap (1..Len(s)) = at
  OBVIOUS
<1>5. /\ pos \in [1..Len(t) -> at]
      /\ \A i, j \in 1..Len(t) : i < j => pos[i] < pos[j]
      /\ \A a \in at : \E i \in 1..Len(t) : pos[i] = a
      /\ \A i \in 1..Len(t) : t[i] = s[pos[i]]
  BY <1>2, <1>4 DEF Places
<1>6. \A i, j \in 1..Len(t) : pos[i] = pos[j] => i = j
  <2>1. SUFFICES ASSUME NEW i \in 1..Len(t), NEW j \in 1..Len(t), i # j
                 PROVE  pos[i] # pos[j]
    OBVIOUS
  <2>2. i < j \/ j < i
    BY <1>3, <2>1
  <2>3. pos[i] \in at /\ pos[j] \in at /\ (pos[i] < pos[j] \/ pos[j] < pos[i])
    BY <1>5, <2>2
  <2>4. \A a \in at : a \in Nat
    BY <1>3
  <2>5. pos[i] \in Nat /\ pos[j] \in Nat
    BY <2>3, <2>4
  <2>6. \A a, b \in Nat : a < b \/ b < a => a # b
    OBVIOUS
  <2>7. QED
    BY <2>3, <2>5, <2>6
<1>7. IsFiniteSet(1..Len(s)) /\ Cardinality(1..Len(s)) = Len(s)
  BY <1>3, IntervalSize
<1>8. /\ IsFiniteSet(at) /\ Cardinality(at) <= Len(s) /\ Cardinality(at) \in Nat
      /\ at # 1..Len(s) => Cardinality(at) # Len(s)
  BY <1>7, FS_Subset, FS_CardinalityType
<1>9. Len(t) <= Cardinality(at)
  BY <1>3, <1>5, <1>6, <1>8, NoMoreThan
<1>10. Len(t) <= Len(s) /\ (at # 1..Len(s) => Len(t) < Len(s))
  BY <1>3, <1>8, <1>9
<1>11. \A i \in 1..Len(t) : \E a \in at : t[i] = s[a]
  BY <1>5
<1>12. \A a \in at : \E i \in 1..Len(t) : t[i] = s[a]
  BY <1>5
<1>13. \A i, j \in 1..Len(t) :
         i < j => \E a, b \in at : a < b /\ t[i] = s[a] /\ t[j] = s[b]
  BY <1>5
<1>14. QED
  BY <1>1, <1>10, <1>11, <1>12, <1>13 DEF t

-----------------------------------------------------------------------------
(* The entries of a limiter, as a map from keys to entries.                *)

EntriesOf(ks) == [key : ks, count : Nat, resetAt : Nat]

WellFormed(es, ks) ==
  /\ es \in Seq(EntriesOf(ks))
  /\ \A i, j \in 1..Len(es) : es[i].key = es[j].key => i = j

LEMMA EntryIs ==
  ASSUME NEW ks, NEW es, WellFormed(es, ks), NEW i \in 1..Len(es)
  PROVE  /\ es[i] \in EntriesOf(ks)
         /\ Has(es, es[i].key)
         /\ Entry(es, es[i].key) = es[i]
<1>1. es[i] \in EntriesOf(ks)
  BY ElementOfSeq DEF WellFormed
<1>2. Has(es, es[i].key)
  BY DEF Has
<1> DEFINE c == CHOOSE j \in 1..Len(es) : es[j].key = es[i].key
<1>3. c \in 1..Len(es) /\ es[c].key = es[i].key
  OBVIOUS
<1>4. Entry(es, es[i].key) = es[c]
  BY DEF Entry
<1> HIDE DEF c
<1>5. c = i
  BY <1>3 DEF WellFormed
<1>6. QED
  BY <1>1, <1>2, <1>4, <1>5

LEMMA HasEntry ==
  ASSUME NEW ks, NEW es, WellFormed(es, ks), NEW k, Has(es, k)
  PROVE  /\ Entry(es, k) \in EntriesOf(ks)
         /\ Entry(es, k).key = k
         /\ \E i \in 1..Len(es) : es[i].key = k /\ es[i] = Entry(es, k)
<1>1. PICK i \in 1..Len(es) : es[i].key = k
  BY DEF Has
<1>2. es[i] \in EntriesOf(ks) /\ Entry(es, es[i].key) = es[i]
  BY EntryIs
<1>3. QED
  BY <1>1, <1>2

LEMMA KeepEntries ==
  ASSUME NEW ks, NEW es, WellFormed(es, ks), NEW at \in SUBSET (1..Len(es))
  PROVE  /\ WellFormed(Keep(es, at), ks)
         /\ \A k : Has(Keep(es, at), k) <=> \E a \in at : es[a].key = k
         /\ \A k : Has(Keep(es, at), k) =>
                     Has(es, k) /\ Entry(Keep(es, at), k) = Entry(es, k)
<1> DEFINE t == Keep(es, at)
<1>1. es \in Seq(EntriesOf(ks))
  BY DEF WellFormed
<1>2. /\ t \in Seq(EntriesOf(ks))
      /\ \A i \in 1..Len(t) : \E a \in at : t[i] = es[a]
      /\ \A a \in at : \E i \in 1..Len(t) : t[i] = es[a]
      /\ \A i, j \in 1..Len(t) :
           i < j => \E a, b \in at : a < b /\ t[i] = es[a] /\ t[j] = es[b]
  BY <1>1, KeepIsPart
<1> HIDE DEF t
<1>3. Len(t) \in Nat
  BY <1>2, LenProperties
<1>4. ASSUME NEW i \in 1..Len(t), NEW j \in 1..Len(t), i < j
      PROVE  t[i].key # t[j].key
  <2>1. PICK a \in at, b \in at : a < b /\ t[i] = es[a] /\ t[j] = es[b]
    BY <1>2, <1>4
  <2>2. a \in 1..Len(es) /\ b \in 1..Len(es) /\ a # b
    BY <2>1
  <2>3. QED
    BY <2>1, <2>2 DEF WellFormed
<1>5. \A i, j \in 1..Len(t) : t[i].key = t[j].key => i = j
  <2>1. SUFFICES ASSUME NEW i \in 1..Len(t), NEW j \in 1..Len(t), i # j
                 PROVE  t[i].key # t[j].key
    OBVIOUS
  <2>2. i < j \/ j < i
    BY <1>3, <2>1
  <2>3. QED
    BY <1>4, <2>2
<1>6. WellFormed(t, ks)
  BY <1>2, <1>5 DEF WellFormed
<1>7. ASSUME NEW k
      PROVE  Has(t, k) <=> \E a \in at : es[a].key = k
  <2>1. ASSUME NEW i \in 1..Len(t), t[i].key = k
        PROVE  \E a \in at : es[a].key = k
    BY <1>2, <2>1
  <2>2. ASSUME NEW a \in at, es[a].key = k
        PROVE  \E i \in 1..Len(t) : t[i].key = k
    <3>1. PICK i \in 1..Len(t) : t[i] = es[a]
      BY <1>2
    <3>2. QED
      BY <2>2, <3>1
  <2>3. QED
    BY <2>1, <2>2 DEF Has
<1>8. ASSUME NEW k, Has(t, k)
      PROVE  Has(es, k) /\ Entry(t, k) = Entry(es, k)
  <2>1. PICK i \in 1..Len(t) : t[i].key = k
    BY <1>8 DEF Has
  <2>2. PICK a \in at : t[i] = es[a]
    BY <1>2
  <2>3. Entry(t, t[i].key) = t[i]
    BY <1>6, EntryIs
  <2>4. a \in 1..Len(es)
    OBVIOUS
  <2>5. Has(es, es[a].key) /\ Entry(es, es[a].key) = es[a]
    BY <2>4, EntryIs
  <2>6. QED
    BY <2>1, <2>2, <2>3, <2>5
<1>9. QED
  BY <1>6, <1>7, <1>8 DEF t

\* What is pruned has expired.
LEMMA PruneIs ==
  ASSUME NEW ks, NEW es, WellFormed(es, ks), NEW t
  PROVE  /\ WellFormed(PruneExpired(es, t), ks)
         /\ \A k : Has(PruneExpired(es, t), k) =>
                     Has(es, k) /\ Entry(PruneExpired(es, t), k) = Entry(es, k)
         /\ \A k : Has(es, k) /\ IsOpen(Entry(es, k), t) => Has(PruneExpired(es, t), k)
         /\ Len(PruneExpired(es, t)) <= Len(es)
<1> DEFINE at == {i \in 1..Len(es) : i > Inspected \/ IsOpen(es[i], t)}
<1>1. at \in SUBSET (1..Len(es)) /\ PruneExpired(es, t) = Keep(es, at)
  BY DEF PruneExpired
<1>2. \A i \in 1..Len(es) : IsOpen(es[i], t) => i \in at
  OBVIOUS
<1> HIDE DEF at
<1>3. /\ WellFormed(Keep(es, at), ks)
      /\ \A k : Has(Keep(es, at), k) <=> \E a \in at : es[a].key = k
      /\ \A k : Has(Keep(es, at), k) =>
                  Has(es, k) /\ Entry(Keep(es, at), k) = Entry(es, k)
  BY <1>1, KeepEntries
<1>4. Len(Keep(es, at)) <= Len(es)
  BY <1>1, KeepIsPart DEF WellFormed
<1>5. ASSUME NEW k, Has(es, k), IsOpen(Entry(es, k), t)
      PROVE  Has(Keep(es, at), k)
  <2>1. PICK i \in 1..Len(es) : es[i].key = k /\ es[i] = Entry(es, k)
    BY <1>5, HasEntry
  <2>2. i \in at
    BY <1>2, <1>5, <2>1
  <2>3. QED
    BY <1>3, <2>1, <2>2
<1>6. QED
  BY <1>1, <1>3, <1>4, <1>5

LEMMA WithoutIs ==
  ASSUME NEW ks, NEW es, WellFormed(es, ks), NEW key
  PROVE  /\ WellFormed(Without(es, key), ks)
         /\ \A k : Has(Without(es, key), k) <=> Has(es, k) /\ k # key
         /\ \A k : Has(Without(es, key), k) => Entry(Without(es, key), k) = Entry(es, k)
         /\ Len(Without(es, key)) <= Len(es)
         /\ Has(es, key) => Len(Without(es, key)) < Len(es)
<1> DEFINE at == {i \in 1..Len(es) : es[i].key # key}
<1>1. at \in SUBSET (1..Len(es)) /\ Without(es, key) = Keep(es, at)
  BY DEF Without
<1>2. /\ \A k : (\E a \in at : es[a].key = k) <=> Has(es, k) /\ k # key
      /\ Has(es, key) => at # 1..Len(es)
  BY DEF Has
<1> HIDE DEF at
<1>3. /\ WellFormed(Keep(es, at), ks)
      /\ \A k : Has(Keep(es, at), k) <=> \E a \in at : es[a].key = k
      /\ \A k : Has(Keep(es, at), k) =>
                  Has(es, k) /\ Entry(Keep(es, at), k) = Entry(es, k)
  BY <1>1, KeepEntries
<1>4. /\ Len(Keep(es, at)) <= Len(es)
      /\ at # 1..Len(es) => Len(Keep(es, at)) < Len(es)
  BY <1>1, KeepIsPart DEF WellFormed
<1>5. QED
  BY <1>1, <1>2, <1>3, <1>4


LEMMA AppendIs ==
  ASSUME NEW ks, NEW es, WellFormed(es, ks), NEW e \in EntriesOf(ks), ~Has(es, e.key)
  PROVE  /\ WellFormed(Append(es, e), ks)
         /\ Has(Append(es, e), e.key) /\ Entry(Append(es, e), e.key) = e
         /\ \A k : Has(Append(es, e), k) <=> Has(es, k) \/ k = e.key
         /\ \A k : Has(es, k) => Entry(Append(es, e), k) = Entry(es, k)
         /\ Len(Append(es, e)) = Len(es) + 1
<1> DEFINE t == Append(es, e)
<1>1. es \in Seq(EntriesOf(ks)) /\ Len(es) \in Nat
  BY LenProperties DEF WellFormed
<1>2. /\ t \in Seq(EntriesOf(ks)) /\ Len(t) = Len(es) + 1
      /\ \A i \in 1..Len(es) : t[i] = es[i]
      /\ t[Len(es) + 1] = e
  BY <1>1, AppendProperties
<1> HIDE DEF t
<1>3. \A i \in 1..Len(t) : i \in 1..Len(es) \/ i = Len(es) + 1
  BY <1>1, <1>2
<1>4. Len(es) + 1 \in 1..Len(t) /\ \A i \in 1..Len(es) : i \in 1..Len(t)
  BY <1>1, <1>2
<1>5. \A i \in 1..Len(es) : es[i].key # e.key
  BY DEF Has
<1>6. \A i, j \in 1..Len(t) : t[i].key = t[j].key => i = j
  BY <1>2, <1>3, <1>5 DEF WellFormed
<1>7. WellFormed(t, ks)
  BY <1>2, <1>6 DEF WellFormed
<1>8. Has(t, e.key) /\ Entry(t, e.key) = e
  BY <1>2, <1>4, <1>7, EntryIs
<1>9. ASSUME NEW k
      PROVE  Has(t, k) <=> Has(es, k) \/ k = e.key
  <2>1. ASSUME Has(t, k), k # e.key
        PROVE  Has(es, k)
    BY <1>2, <1>3, <2>1 DEF Has
  <2>2. ASSUME Has(es, k)
        PROVE  Has(t, k)
    BY <1>2, <1>4, <2>2 DEF Has
  <2>3. QED
    BY <1>8, <2>1, <2>2
<1>10. ASSUME NEW k, Has(es, k)
       PROVE  Entry(t, k) = Entry(es, k)
  <2>1. PICK i \in 1..Len(es) : es[i].key = k /\ es[i] = Entry(es, k)
    BY <1>10, HasEntry
  <2>2. Entry(t, t[i].key) = t[i]
    BY <1>4, <1>7, EntryIs
  <2>3. QED
    BY <1>2, <2>1, <2>2
<1>11. QED
  BY <1>2, <1>7, <1>8, <1>9, <1>10 DEF t

LEMMA TouchIs ==
  ASSUME NEW ks, NEW es, WellFormed(es, ks), NEW e \in EntriesOf(ks), Has(es, e.key)
  PROVE  /\ WellFormed(Touch(es, e), ks)
         /\ Entry(Touch(es, e), e.key) = e
         /\ \A k : Has(Touch(es, e), k) <=> Has(es, k)
         /\ \A k : Has(es, k) /\ k # e.key => Entry(Touch(es, e), k) = Entry(es, k)
         /\ Len(Touch(es, e)) <= Len(es)
<1> DEFINE w == Without(es, e.key)
<1>1. /\ WellFormed(w, ks)
      /\ \A k : Has(w, k) <=> Has(es, k) /\ k # e.key
      /\ \A k : Has(w, k) => Entry(w, k) = Entry(es, k)
      /\ Len(w) < Len(es)
  BY WithoutIs
<1>2. Touch(es, e) = Append(w, e)
  BY DEF Touch
<1> HIDE DEF w
<1>3. /\ WellFormed(Append(w, e), ks)
      /\ Entry(Append(w, e), e.key) = e
      /\ \A k : Has(Append(w, e), k) <=> Has(w, k) \/ k = e.key
      /\ \A k : Has(w, k) => Entry(Append(w, e), k) = Entry(w, k)
      /\ Len(Append(w, e)) = Len(w) + 1
  BY <1>1, AppendIs
<1>4. Len(w) \in Nat /\ Len(es) \in Nat
  BY <1>1, LenProperties DEF WellFormed
<1>5. Len(w) + 1 <= Len(es)
  BY <1>1, <1>4
<1>6. QED
  BY <1>1, <1>2, <1>3, <1>5

LEMMA MakeRoomIs ==
  ASSUME NEW ks, NEW es, WellFormed(es, ks), NEW most \in Nat \ {0}
  PROVE  /\ WellFormed(MakeRoom(es, most), ks)
         /\ \A k : Has(MakeRoom(es, most), k) =>
                     Has(es, k) /\ Entry(MakeRoom(es, most), k) = Entry(es, k)
         /\ Len(MakeRoom(es, most)) <= most - 1
         /\ Len(es) <= most - 1 => \A k : Has(es, k) => Has(MakeRoom(es, most), k)
         /\ \A i, j \in 1..Len(es) :
              i < j /\ Has(MakeRoom(es, most), es[i].key) => Has(MakeRoom(es, most), es[j].key)
<1> DEFINE d == Most(0, Len(es) - (most - 1))
           t == MakeRoom(es, most)
<1>1. es \in Seq(EntriesOf(ks)) /\ Len(es) \in Nat
  BY LenProperties DEF WellFormed
<1>2. /\ d \in Nat /\ d <= Len(es) /\ Len(es) - d <= most - 1
      /\ Len(es) <= most - 1 => d = 0
  BY <1>1 DEF Most
<1>3. t = SubSeq(es, 1 + d, Len(es))
  BY DEF MakeRoom
<1> HIDE DEF d, t
<1>4. \A i \in (1 + d)..Len(es) : i \in 1..Len(es)
  BY <1>1, <1>2
<1>5. \A i \in (1 + d)..Len(es) : es[i] \in EntriesOf(ks)
  BY <1>1, <1>4, ElementOfSeq
<1>6. 1 + d \in Int /\ Len(es) \in Int /\ Len(es) - (1 + d) + 1 = Len(es) - d
  BY <1>1, <1>2
<1>7. /\ t \in Seq(EntriesOf(ks))
      /\ Len(t) = IF 1 + d <= Len(es) THEN Len(es) - (1 + d) + 1 ELSE 0
      /\ \A i \in 1..(Len(es) - (1 + d) + 1) : t[i] = es[(1 + d) + i - 1]
  BY <1>3, <1>5, <1>6, SubSeqProperties
<1>8. Len(t) = Len(es) - d
  BY <1>1, <1>2, <1>7
<1>9. \A i \in 1..Len(t) : i + d \in 1..Len(es) /\ t[i] = es[i + d]
  <2>1. SUFFICES ASSUME NEW i \in 1..Len(t)
                 PROVE  i + d \in 1..Len(es) /\ t[i] = es[i + d]
    OBVIOUS
  <2>2. /\ i \in 1..(Len(es) - (1 + d) + 1) /\ i + d \in 1..Len(es)
        /\ (1 + d) + i - 1 = i + d
    BY <1>1, <1>2, <1>8
  <2>3. QED
    BY <1>7, <2>2
<1>10. \A a \in 1..Len(es) : a > d => a - d \in 1..Len(t) /\ (a - d) + d = a
  BY <1>1, <1>2, <1>8
<1>11. \A a \in 1..Len(es) : a > d => Has(t, es[a].key)
  <2>1. SUFFICES ASSUME NEW a \in 1..Len(es), a > d
                 PROVE  Has(t, es[a].key)
    OBVIOUS
  <2>2. a - d \in 1..Len(t) /\ t[a - d] = es[a]
    BY <1>9, <1>10, <2>1
  <2>3. QED
    BY <2>2 DEF Has
<1>12. \A i, j \in 1..Len(t) : t[i].key = t[j].key => i = j
  <2>1. SUFFICES ASSUME NEW i \in 1..Len(t), NEW j \in 1..Len(t), t[i].key = t[j].key
                 PROVE  i = j
    OBVIOUS
  <2>2. i + d = j + d
    BY <1>9, <2>1 DEF WellFormed
  <2>3. QED
    BY <1>2, <1>8, <2>2
<1>13. WellFormed(t, ks)
  BY <1>7, <1>12 DEF WellFormed
<1>14. ASSUME NEW i \in 1..Len(t)
       PROVE  /\ i + d \in 1..Len(es) /\ i + d > d /\ es[i + d].key = t[i].key
              /\ Has(es, t[i].key) /\ Entry(t, t[i].key) = Entry(es, t[i].key)
  <2>1. i + d \in 1..Len(es) /\ t[i] = es[i + d]
    BY <1>9
  <2>2. i + d > d
    BY <1>2, <1>8
  <2>3. Entry(t, t[i].key) = t[i]
    BY <1>13, EntryIs
  <2>4. Has(es, es[i + d].key) /\ Entry(es, es[i + d].key) = es[i + d]
    BY <2>1, EntryIs
  <2>5. QED
    BY <2>1, <2>2, <2>3, <2>4
<1>15. \A k : Has(t, k) => Has(es, k) /\ Entry(t, k) = Entry(es, k)
  BY <1>14 DEF Has
<1>16. ASSUME Len(es) <= most - 1, NEW k, Has(es, k)
       PROVE  Has(t, k)
  <2>1. PICK a \in 1..Len(es) : es[a].key = k
    BY <1>16 DEF Has
  <2>2. a > d
    BY <1>2, <1>16
  <2>3. QED
    BY <1>11, <2>1, <2>2
<1>17. ASSUME NEW i \in 1..Len(es), NEW j \in 1..Len(es), i < j, Has(t, es[i].key)
       PROVE  Has(t, es[j].key)
  <2>1. PICK a \in 1..Len(t) : t[a].key = es[i].key
    BY <1>17 DEF Has
  <2>2. a + d \in 1..Len(es) /\ a + d > d /\ es[a + d].key = es[i].key
    BY <1>14, <2>1
  <2>3. i > d
    BY <2>2 DEF WellFormed
  <2>4. j > d
    BY <1>2, <1>17, <2>3
  <2>5. QED
    BY <1>11, <2>4
<1>18. Len(t) <= most - 1
  BY <1>1, <1>2, <1>8
<1>19. QED
  BY <1>13, <1>15, <1>16, <1>17, <1>18 DEF t


LEMMA KeysFit ==
  ASSUME NEW ks, IsFiniteSet(ks), NEW es, WellFormed(es, ks), NEW key \in ks, ~Has(es, key)
  PROVE  Len(es) <= Cardinality(ks) - 1
<1> DEFINE f == [i \in 1..Len(es) |-> es[i].key]
<1>1. Len(es) \in Nat
  BY LenProperties DEF WellFormed
<1>2. \A i \in 1..Len(es) : es[i].key \in ks \ {key}
  BY EntryIs DEF Has, EntriesOf
<1>3. f \in [1..Len(es) -> ks \ {key}]
  BY <1>2
<1>4. \A i, j \in 1..Len(es) : f[i] = f[j] => i = j
  BY DEF WellFormed
<1> HIDE DEF f
<1>5. IsFiniteSet(ks \ {key}) /\ Cardinality(ks \ {key}) = Cardinality(ks) - 1
  BY FS_RemoveElement
<1>6. QED
  BY <1>1, <1>3, <1>4, <1>5, NoMoreThan

LimiterOptions == [limit : Nat \ {0}, window : Nat \ {0}, maxKeys : Nat \ {0}]

\* What an answer a to a request of key at t does to the other entries es.
OthersStay(a, es, ks, key) ==
  /\ WellFormed(a.entries, ks)
  /\ Has(a.entries, key)
  /\ \A k : k # key /\ Has(a.entries, k) =>
              Has(es, k) /\ Entry(a.entries, k) = Entry(es, k)

OpenStay(a, es, t) ==
  \A k : Has(es, k) /\ IsOpen(Entry(es, k), t) => Has(a.entries, k)

\* The request is counted by the open entry of its key, or refused.
CountsRequest(a, es, key, t, o) ==
  IF Entry(es, key).count >= o.limit
  THEN /\ a.allowed = FALSE
       /\ Entry(a.entries, key) = Entry(es, key)
       /\ a.retryAfter = RetryAfter(Entry(es, key).resetAt, t, o.window)
  ELSE /\ a.allowed = TRUE
       /\ Entry(a.entries, key) =
            [Entry(es, key) EXCEPT !.count = Entry(es, key).count + 1]

\* The request opens a window.
OpensWindow(a, key, t, o) ==
  /\ a.allowed = TRUE
  /\ Entry(a.entries, key) = [key |-> key, count |-> 1, resetAt |-> t + o.window]

LEMMA ConsumeCounted ==
  ASSUME NEW ks, NEW es, WellFormed(es, ks), NEW key \in ks, NEW t \in Nat,
         NEW o \in LimiterOptions, Has(es, key) /\ IsOpen(Entry(es, key), t)
  PROVE  /\ OthersStay(Consume(es, key, t, o), es, ks, key)
         /\ OpenStay(Consume(es, key, t, o), es, t)
         /\ CountsRequest(Consume(es, key, t, o), es, key, t, o)
         /\ Len(Consume(es, key, t, o).entries) <= Len(es)
<1> DEFINE a == Consume(es, key, t, o)
            p == PruneExpired(es, t)
           old == Entry(es, key)
           more == [old EXCEPT !.count = old.count + 1]
<1>1. /\ WellFormed(p, ks)
      /\ \A k : Has(p, k) => Has(es, k) /\ Entry(p, k) = Entry(es, k)
      /\ \A k : Has(es, k) /\ IsOpen(Entry(es, k), t) => Has(p, k)
      /\ Len(p) <= Len(es)
  BY PruneIs
<1>2. Has(p, key) /\ Entry(p, key) = old
  BY <1>1
<1>3. old \in EntriesOf(ks) /\ old.key = key
  BY HasEntry
<1>4. /\ more \in EntriesOf(ks) /\ more.key = key
  BY <1>3 DEF EntriesOf
<1>5. a = IF old.count >= o.limit
          THEN Refuse(Touch(p, old), RetryAfter(old.resetAt, t, o.window))
          ELSE Admit(Touch(p, more))
  BY <1>2 DEF Consume, IsFull
<1>6. Len(p) \in Nat /\ Len(es) \in Nat
  BY <1>1, LenProperties DEF WellFormed
<1> HIDE DEF p, a
<1>7. ASSUME NEW e \in EntriesOf(ks), e.key = key, NEW n, n = Touch(p, e)
      PROVE  /\ WellFormed(n, ks) /\ Len(n) <= Len(es)
             /\ Has(n, key) /\ Entry(n, key) = e
             /\ \A k : k # key /\ Has(n, k) => Has(es, k) /\ Entry(n, k) = Entry(es, k)
             /\ \A k : Has(es, k) /\ IsOpen(Entry(es, k), t) => Has(n, k)
  <2>1. /\ WellFormed(n, ks)
        /\ Entry(n, key) = e
        /\ \A k : Has(n, k) <=> Has(p, k)
        /\ \A k : Has(p, k) /\ k # key => Entry(n, k) = Entry(p, k)
        /\ Len(n) <= Len(p)
    BY <1>1, <1>2, <1>7, TouchIs
  <2>2. Len(n) \in Nat
    BY <2>1, LenProperties DEF WellFormed
  <2>3. Len(n) <= Len(es)
    BY <1>1, <1>6, <2>1, <2>2
  <2>4. QED
    BY <1>1, <1>2, <2>1, <2>3
<1> HIDE DEF more, old
<1>8. CASE old.count >= o.limit
  <2>1. /\ a.entries = Touch(p, old) /\ a.allowed = FALSE
        /\ a.retryAfter = RetryAfter(old.resetAt, t, o.window)
    BY <1>5, <1>8 DEF Refuse
  <2>2. /\ WellFormed(a.entries, ks) /\ Len(a.entries) <= Len(es)
        /\ Has(a.entries, key) /\ Entry(a.entries, key) = old
        /\ \A k : k # key /\ Has(a.entries, k) =>
                    Has(es, k) /\ Entry(a.entries, k) = Entry(es, k)
        /\ \A k : Has(es, k) /\ IsOpen(Entry(es, k), t) => Has(a.entries, k)
    BY <1>3, <1>7, <2>1
  <2>3. CountsRequest(a, es, key, t, o)
    BY <1>8, <2>1, <2>2 DEF CountsRequest, old
  <2>4. QED
    BY <2>2, <2>3 DEF OthersStay, OpenStay, a
<1>9. CASE ~ (old.count >= o.limit)
  <2>1. a.entries = Touch(p, more) /\ a.allowed = TRUE
    BY <1>5, <1>9 DEF Admit
  <2>2. /\ WellFormed(a.entries, ks) /\ Len(a.entries) <= Len(es)
        /\ Has(a.entries, key) /\ Entry(a.entries, key) = more
        /\ \A k : k # key /\ Has(a.entries, k) =>
                    Has(es, k) /\ Entry(a.entries, k) = Entry(es, k)
        /\ \A k : Has(es, k) /\ IsOpen(Entry(es, k), t) => Has(a.entries, k)
    BY <1>4, <1>7, <2>1
  <2>3. more = [Entry(es, key) EXCEPT !.count = Entry(es, key).count + 1]
    BY DEF old, more
  <2>4. CountsRequest(a, es, key, t, o)
    BY <1>9, <2>1, <2>2, <2>3 DEF CountsRequest, old
  <2>5. QED
    BY <2>2, <2>4 DEF OthersStay, OpenStay, a
<1>10. QED
  BY <1>8, <1>9

\* A request that opens a window; what had to go to make room for it.
LEMMA ConsumeOpens ==
  ASSUME NEW ks, NEW es, WellFormed(es, ks), NEW key \in ks, NEW t \in Nat,
         NEW o \in LimiterOptions, ~ (Has(es, key) /\ IsOpen(Entry(es, key), t))
  PROVE  /\ OthersStay(Consume(es, key, t, o), es, ks, key)
         /\ OpensWindow(Consume(es, key, t, o), key, t, o)
         /\ Len(Consume(es, key, t, o).entries) <= o.maxKeys
         /\ IsFiniteSet(ks) /\ Cardinality(ks) <= o.maxKeys =>
              OpenStay(Consume(es, key, t, o), es, t)
<1> DEFINE a == Consume(es, key, t, o)
           p == PruneExpired(es, t)
           w == Without(p, key)
           m == MakeRoom(w, o.maxKeys)
           e == [key |-> key, count |-> 1, resetAt |-> t + o.window]
<1>1. /\ WellFormed(p, ks)
      /\ \A k : Has(p, k) => Has(es, k) /\ Entry(p, k) = Entry(es, k)
      /\ \A k : Has(es, k) /\ IsOpen(Entry(es, k), t) => Has(p, k)
  BY PruneIs
<1>2. ~ (Has(p, key) /\ IsOpen(Entry(p, key), t))
  BY <1>1
<1>3. a = Admit(Append(m, e))
  BY <1>2 DEF Consume
<1>4. a.entries = Append(m, e) /\ a.allowed = TRUE
  BY <1>3 DEF Admit
<1>5. o.maxKeys \in Nat \ {0} /\ e \in EntriesOf(ks) /\ e.key = key
  BY DEF LimiterOptions, EntriesOf
<1> HIDE DEF p, e, a
<1>6. /\ WellFormed(w, ks)
      /\ \A k : Has(w, k) <=> Has(p, k) /\ k # key
      /\ \A k : Has(w, k) => Entry(w, k) = Entry(p, k)
  BY <1>1, WithoutIs
<1> HIDE DEF w
<1>7. /\ WellFormed(m, ks)
      /\ \A k : Has(m, k) => Has(w, k) /\ Entry(m, k) = Entry(w, k)
      /\ Len(m) <= o.maxKeys - 1
      /\ Len(w) <= o.maxKeys - 1 => \A k : Has(w, k) => Has(m, k)
  BY <1>5, <1>6, MakeRoomIs
<1> HIDE DEF m
<1>8. Len(m) \in Nat
  BY <1>7, LenProperties DEF WellFormed
<1>9. /\ WellFormed(Append(m, e), ks)
      /\ Has(Append(m, e), key) /\ Entry(Append(m, e), key) = e
      /\ \A k : Has(Append(m, e), k) <=> Has(m, k) \/ k = key
      /\ \A k : Has(m, k) => Entry(Append(m, e), k) = Entry(m, k)
      /\ Len(Append(m, e)) = Len(m) + 1
  BY <1>5, <1>6, <1>7, AppendIs
<1>10. Len(Append(m, e)) <= o.maxKeys
  BY <1>5, <1>7, <1>8, <1>9
<1>11. ASSUME NEW k, k # key, Has(Append(m, e), k)
       PROVE  Has(es, k) /\ Entry(Append(m, e), k) = Entry(es, k)
  BY <1>1, <1>6, <1>7, <1>9, <1>11
<1>12. ASSUME IsFiniteSet(ks), Cardinality(ks) <= o.maxKeys,
              NEW k, Has(es, k), IsOpen(Entry(es, k), t)
       PROVE  Has(Append(m, e), k)
  <2>1. CASE k = key
    BY <1>9, <2>1
  <2>2. CASE k # key
    <3>1. Has(w, k)
      BY <1>1, <1>6, <1>12, <2>2
    <3>2. Len(w) <= Cardinality(ks) - 1
      BY <1>6, <1>12, KeysFit
    <3>3. Len(w) \in Nat /\ Cardinality(ks) \in Nat
      BY <1>6, <1>12, LenProperties, FS_CardinalityType DEF WellFormed
    <3>4. Len(w) <= o.maxKeys - 1
      BY <1>5, <1>12, <3>2, <3>3
    <3>5. QED
      BY <1>7, <1>9, <3>1, <3>4
  <2>3. QED
    BY <2>1, <2>2
<1>13. OthersStay(a, es, ks, key)
  BY <1>4, <1>9, <1>11 DEF OthersStay
<1>14. OpensWindow(a, key, t, o)
  BY <1>4, <1>9 DEF OpensWindow, e
<1>15. IsFiniteSet(ks) /\ Cardinality(ks) <= o.maxKeys => OpenStay(a, es, t)
  BY <1>4, <1>12 DEF OpenStay
<1>16. Len(a.entries) <= o.maxKeys
  BY <1>4, <1>10
<1>17. QED
  BY <1>13, <1>14, <1>15, <1>16 DEF a


-----------------------------------------------------------------------------
(* What an entry tells of the admissions of its key, pairs whose second    *)
(* component is a time.                                                    *)

Timed(times) == IsFiniteSet(times) /\ \A x \in times : x[2] \in Nat

Opened(e, o) == e.resetAt - o.window

From(times, t) == {x \in times : x[2] >= t}
After(times, t) == {x \in times : x[2] > t}
Earlier(times, t, w) == {x \in times : x[2] < t /\ x[2] + w > t}
Young(times, t, w) == {x \in times : x[2] + w > t}

\* The admissions since the window of e opened are at most as many as it
\* counts, and one of them was at its opening.  Of those that are younger than
\* a window when it opens, one may be missing: the window before it had ended,
\* and so its first admission is too old.
WindowHolds(times, e, o, t) ==
  /\ e.count \in 1..o.limit
  /\ Opened(e, o) <= t
  /\ \A x \in times : x[2] <= t /\ x[2] < e.resetAt
  /\ Cardinality(From(times, Opened(e, o))) <= e.count
  /\ Cardinality(After(times, Opened(e, o))) <= e.count - 1
  /\ Cardinality(Earlier(times, Opened(e, o), o.window)) <= o.limit - 1

\* No entry counts, and so a window may open.
Rests(times, o, t) ==
  /\ \A x \in times : x[2] < t
  /\ Cardinality(Young(times, t, o.window)) <= o.limit - 1

Tracks(times, es, k, o, t) ==
  /\ Timed(times)
  /\ IF Has(es, k) THEN WindowHolds(times, Entry(es, k), o, t) ELSE Rests(times, o, t)

LEMMA PartOf ==
  ASSUME NEW A, NEW B, IsFiniteSet(B), A \subseteq B
  PROVE  /\ IsFiniteSet(A) /\ Cardinality(A) \in Nat /\ Cardinality(B) \in Nat
         /\ Cardinality(A) <= Cardinality(B)
BY FS_Subset, FS_CardinalityType

LEMMA PartsFinite ==
  ASSUME NEW times, Timed(times), NEW t, NEW w
  PROVE  /\ IsFiniteSet(From(times, t)) /\ Cardinality(From(times, t)) \in Nat
         /\ IsFiniteSet(After(times, t)) /\ Cardinality(After(times, t)) \in Nat
         /\ IsFiniteSet(Earlier(times, t, w)) /\ Cardinality(Earlier(times, t, w)) \in Nat
         /\ IsFiniteSet(Young(times, t, w)) /\ Cardinality(Young(times, t, w)) \in Nat
<1>1. /\ From(times, t) \subseteq times /\ After(times, t) \subseteq times
      /\ Earlier(times, t, w) \subseteq times /\ Young(times, t, w) \subseteq times
  BY DEF From, After, Earlier, Young
<1>2. QED
  BY <1>1, PartOf DEF Timed

\* Once the window of its entry has ended, a key rests.
LEMMA EndedRests ==
  ASSUME NEW o \in LimiterOptions, NEW t \in Nat, NEW times, Timed(times),
         NEW e, e.count \in Nat, e.resetAt \in Nat, WindowHolds(times, e, o, t), e.resetAt <= t
  PROVE  Rests(times, o, t)
<1> DEFINE b == Opened(e, o)
<1>1. o.window \in Nat \ {0} /\ o.limit \in Nat \ {0}
  BY DEF LimiterOptions
<1>2. b \in Int /\ b + o.window <= t
  BY <1>1 DEF Opened
<1> HIDE DEF b
<1>3. Young(times, t, o.window) \subseteq After(times, b)
  BY <1>1, <1>2 DEF Young, After, Timed
<1>4. Cardinality(Young(times, t, o.window)) <= Cardinality(After(times, b))
  BY <1>3, PartsFinite, PartOf
<1>5. /\ Cardinality(After(times, b)) <= e.count - 1 /\ e.count <= o.limit
      /\ \A x \in times : x[2] < e.resetAt
  BY DEF WindowHolds, b
<1>6. /\ Cardinality(Young(times, t, o.window)) \in Nat
      /\ Cardinality(After(times, b)) \in Nat
  BY PartsFinite
<1>7. Cardinality(Young(times, t, o.window)) <= o.limit - 1
  BY <1>1, <1>4, <1>5, <1>6
<1>8. \A x \in times : x[2] < t
  BY <1>5 DEF Timed
<1>9. QED
  BY <1>7, <1>8 DEF Rests

\* However it stands, a key has less than twice its limit in the last window.
LEMMA TracksBounded ==
  ASSUME NEW o \in LimiterOptions, NEW t \in Nat, NEW times, NEW es, NEW ks, NEW k,
         WellFormed(es, ks), Tracks(times, es, k, o, t)
  PROVE  Cardinality(Young(times, t, o.window)) <= 2 * o.limit - 1
<1>1. o.window \in Nat \ {0} /\ o.limit \in Nat \ {0} /\ Timed(times)
  BY DEF LimiterOptions, Tracks
<1>2. Cardinality(Young(times, t, o.window)) \in Nat
  BY <1>1, PartsFinite
<1>3. CASE Rests(times, o, t)
  BY <1>1, <1>2, <1>3 DEF Rests
<1>4. CASE Has(es, k)
  <2> DEFINE e == Entry(es, k)
             b == Opened(e, o)
             A == From(times, b)
             B == Earlier(times, b, o.window)
  <2>1. e \in EntriesOf(ks)
    BY <1>4, HasEntry
  <2>2. WindowHolds(times, e, o, t)
    BY <1>4 DEF Tracks
  <2> HIDE DEF e
  <2>3. b \in Int /\ b <= t
    BY <1>1, <2>1, <2>2 DEF Opened, EntriesOf, WindowHolds
  <2>4. /\ Cardinality(A) <= e.count /\ Cardinality(B) <= o.limit - 1
        /\ e.count \in 1..o.limit
    BY <2>2 DEF WindowHolds
  <2>5. /\ IsFiniteSet(A) /\ IsFiniteSet(B)
        /\ Cardinality(A) \in Nat /\ Cardinality(B) \in Nat
    BY <1>1, PartsFinite
  <2> HIDE DEF b
  <2>6. Young(times, t, o.window) \subseteq A \cup B
    BY <1>1, <2>3 DEF Young, Earlier, From, Timed
  <2> HIDE DEF A, B
  <2>7. /\ IsFiniteSet(A \cup B)
        /\ Cardinality(A \cup B) = Cardinality(A) + Cardinality(B) - Cardinality(A \cap B)
    BY <2>5, FS_Union
  <2>8. Cardinality(A \cap B) \in Nat
    BY <2>5, PartOf
  <2>9. Cardinality(Young(times, t, o.window)) <= Cardinality(A \cup B)
    BY <2>6, <2>7, PartOf
  <2>10. QED
    BY <1>1, <1>2, <2>4, <2>5, <2>7, <2>8, <2>9
<1>5. QED
  BY <1>3, <1>4 DEF Tracks

\* A smaller history is no harder to hold.
LEMMA FewerHold ==
  ASSUME NEW o \in LimiterOptions, NEW t \in Nat, NEW times, Timed(times),
         NEW fewer \in SUBSET times
  PROVE  /\ Timed(fewer)
         /\ \A e : e.count \in Nat /\ WindowHolds(times, e, o, t) => WindowHolds(fewer, e, o, t)
         /\ Rests(times, o, t) => Rests(fewer, o, t)
<1>1. o.limit \in Nat
  BY DEF LimiterOptions
<1>2. Timed(fewer)
  BY FS_Subset DEF Timed
<1>3. \A b, w : /\ From(fewer, b) \subseteq From(times, b)
                /\ After(fewer, b) \subseteq After(times, b)
                /\ Earlier(fewer, b, w) \subseteq Earlier(times, b, w)
                /\ Young(fewer, b, w) \subseteq Young(times, b, w)
  BY DEF From, After, Earlier, Young
<1>4. \A b, w :
        /\ IsFiniteSet(From(times, b)) /\ IsFiniteSet(After(times, b))
        /\ IsFiniteSet(Earlier(times, b, w)) /\ IsFiniteSet(Young(times, b, w))
  BY PartsFinite
<1>5. \A A, B : IsFiniteSet(B) /\ A \subseteq B =>
        /\ Cardinality(A) <= Cardinality(B)
        /\ Cardinality(A) \in Nat /\ Cardinality(B) \in Nat
  BY PartOf
<1>6. \A b, w :
        /\ Cardinality(From(fewer, b)) <= Cardinality(From(times, b))
        /\ Cardinality(From(fewer, b)) \in Nat /\ Cardinality(From(times, b)) \in Nat
        /\ Cardinality(After(fewer, b)) <= Cardinality(After(times, b))
        /\ Cardinality(After(fewer, b)) \in Nat /\ Cardinality(After(times, b)) \in Nat
        /\ Cardinality(Earlier(fewer, b, w)) <= Cardinality(Earlier(times, b, w))
        /\ Cardinality(Earlier(fewer, b, w)) \in Nat
        /\ Cardinality(Earlier(times, b, w)) \in Nat
        /\ Cardinality(Young(fewer, b, w)) <= Cardinality(Young(times, b, w))
        /\ Cardinality(Young(fewer, b, w)) \in Nat
        /\ Cardinality(Young(times, b, w)) \in Nat
  BY <1>3, <1>4, <1>5
<1>7. ASSUME NEW e, e.count \in Nat, WindowHolds(times, e, o, t)
      PROVE  WindowHolds(fewer, e, o, t)
  <2> DEFINE b == Opened(e, o)
  <2>1. /\ Cardinality(From(times, b)) <= e.count
        /\ Cardinality(After(times, b)) <= e.count - 1
        /\ Cardinality(Earlier(times, b, o.window)) <= o.limit - 1
        /\ e.count \in 1..o.limit /\ b <= t
        /\ \A x \in times : x[2] <= t /\ x[2] < e.resetAt
    BY <1>7 DEF WindowHolds
  <2> HIDE DEF b
  <2>2. Cardinality(From(fewer, b)) <= e.count
    BY <1>6, <1>7, <2>1
  <2>3. Cardinality(After(fewer, b)) <= e.count - 1
    BY <1>6, <1>7, <2>1
  <2>4. Cardinality(Earlier(fewer, b, o.window)) <= o.limit - 1
    BY <1>1, <1>6, <2>1
  <2>5. QED
    BY <2>1, <2>2, <2>3, <2>4 DEF WindowHolds, b
<1>8. ASSUME Rests(times, o, t)
      PROVE  Rests(fewer, o, t)
  <2>1. Cardinality(Young(times, t, o.window)) <= o.limit - 1 /\ \A x \in times : x[2] < t
    BY <1>8 DEF Rests
  <2>2. Cardinality(Young(fewer, t, o.window)) <= o.limit - 1
    BY <1>1, <1>6, <2>1
  <2>3. QED
    BY <2>1, <2>2 DEF Rests
<1>9. QED
  BY <1>2, <1>7, <1>8


LEMMA OneMore ==
  ASSUME NEW A, IsFiniteSet(A), NEW x
  PROVE  /\ IsFiniteSet(A \cup {x}) /\ Cardinality(A) \in Nat
         /\ Cardinality(A \cup {x}) \in Nat
         /\ Cardinality(A \cup {x}) <= Cardinality(A) + 1
<1>1. IsFiniteSet(A \cup {x}) /\ Cardinality(A) \in Nat /\ Cardinality(A \cup {x}) \in Nat
  BY FS_AddElement, FS_CardinalityType
<1>2. Cardinality(A \cup {x}) = IF x \in A THEN Cardinality(A) ELSE Cardinality(A) + 1
  BY FS_AddElement
<1>3. QED
  BY <1>1, <1>2

\* The admission that opens a window.
LEMMA OpeningHolds ==
  ASSUME NEW o \in LimiterOptions, NEW t \in Nat, NEW times, Timed(times), Rests(times, o, t),
         NEW x, x[2] = t, NEW e, e.count = 1, e.resetAt = t + o.window
  PROVE  Timed(times \cup {x}) /\ WindowHolds(times \cup {x}, e, o, t)
<1> DEFINE more == times \cup {x}
<1>1. o.window \in Nat \ {0} /\ o.limit \in Nat \ {0}
  BY DEF LimiterOptions
<1>2. Opened(e, o) = t
  BY <1>1 DEF Opened
<1>3. \A y \in times : y[2] \in Nat /\ y[2] < t
  BY DEF Timed, Rests
<1>4. IsFiniteSet(more) /\ \A y \in more : y[2] \in Nat
  BY <1>3, OneMore DEF Timed
<1>5. From(more, t) \subseteq {} \cup {x} /\ After(more, t) \subseteq {}
  BY <1>3 DEF From, After
<1>6. IsFiniteSet({}) /\ Cardinality({}) = 0
  BY FS_EmptySet
<1>7. IsFiniteSet({} \cup {x}) /\ Cardinality({} \cup {x}) \in Nat /\ Cardinality({} \cup {x}) <= 1
  BY <1>6, OneMore
<1>8. Cardinality(From(more, t)) <= 1 /\ Cardinality(After(more, t)) <= 0
  <2>1. /\ Cardinality(From(more, t)) <= Cardinality({} \cup {x})
        /\ Cardinality(From(more, t)) \in Nat
    BY <1>5, <1>7, PartOf
  <2>2. Cardinality(After(more, t)) <= Cardinality({})
    BY <1>5, <1>6, PartOf
  <2>3. QED
    BY <1>6, <1>7, <2>1, <2>2
<1>9. Earlier(more, t, o.window) \subseteq Young(times, t, o.window)
  BY <1>3 DEF Earlier, Young
<1>10. /\ Cardinality(Earlier(more, t, o.window)) <= Cardinality(Young(times, t, o.window))
       /\ Cardinality(Earlier(more, t, o.window)) \in Nat
       /\ Cardinality(Young(times, t, o.window)) \in Nat
  BY <1>9, PartsFinite, PartOf
<1>11. Cardinality(Earlier(more, t, o.window)) <= o.limit - 1
  BY <1>1, <1>10 DEF Rests
<1>12. \A y \in more : y[2] <= t /\ y[2] < e.resetAt
  BY <1>1, <1>3
<1>13. e.count \in 1..o.limit
  BY <1>1
<1> HIDE DEF more
<1>14. WindowHolds(more, e, o, t)
  BY <1>2, <1>8, <1>11, <1>12, <1>13 DEF WindowHolds
<1>15. QED
  BY <1>4, <1>14 DEF Timed, more

\* An admission that an open entry counts.
LEMMA CountingHolds ==
  ASSUME NEW o \in LimiterOptions, NEW t \in Nat, NEW times, Timed(times),
         NEW e, e.count \in Nat, e.resetAt \in Nat, WindowHolds(times, e, o, t),
         e.resetAt > t, ~ (e.count >= o.limit),
         NEW x, x[2] = t, NEW f, f.count = e.count + 1, f.resetAt = e.resetAt
  PROVE  Timed(times \cup {x}) /\ WindowHolds(times \cup {x}, f, o, t)
<1> DEFINE more == times \cup {x}
           b == Opened(e, o)
           B == Earlier(times, b, o.window)
<1>1. o.window \in Nat \ {0} /\ o.limit \in Nat \ {0}
  BY DEF LimiterOptions
<1>2. Opened(f, o) = b
  BY DEF Opened
<1>3. b \in Int
  BY <1>1 DEF Opened
<1>4. /\ b <= t /\ e.count \in 1..o.limit
      /\ \A y \in times : y[2] <= t /\ y[2] < e.resetAt
      /\ Cardinality(From(times, b)) <= e.count
      /\ Cardinality(After(times, b)) <= e.count - 1
      /\ Cardinality(B) <= o.limit - 1
  BY DEF WindowHolds
<1> HIDE DEF b
<1>5. IsFiniteSet(more) /\ \A y \in more : y[2] \in Nat
  BY OneMore DEF Timed
<1>6. /\ From(more, b) \subseteq From(times, b) \cup {x}
      /\ After(more, b) \subseteq After(times, b) \cup {x}
  BY DEF From, After
<1>7. Earlier(more, b, o.window) \subseteq B
  BY <1>3, <1>4 DEF Earlier
<1>8. /\ IsFiniteSet(From(times, b)) /\ IsFiniteSet(After(times, b)) /\ IsFiniteSet(B)
  BY PartsFinite
<1>9. Cardinality(From(more, b)) <= e.count + 1
  <2>1. /\ Cardinality(From(more, b)) <= Cardinality(From(times, b) \cup {x})
        /\ Cardinality(From(more, b)) \in Nat
        /\ Cardinality(From(times, b) \cup {x}) \in Nat
    BY <1>6, <1>8, OneMore, PartOf
  <2>2. /\ Cardinality(From(times, b) \cup {x}) <= Cardinality(From(times, b)) + 1
        /\ Cardinality(From(times, b)) \in Nat
    BY <1>8, OneMore
  <2>3. QED
    BY <1>4, <2>1, <2>2
<1>10. Cardinality(After(more, b)) <= e.count
  <2>1. /\ Cardinality(After(more, b)) <= Cardinality(After(times, b) \cup {x})
        /\ Cardinality(After(more, b)) \in Nat
        /\ Cardinality(After(times, b) \cup {x}) \in Nat
    BY <1>6, <1>8, OneMore, PartOf
  <2>2. /\ Cardinality(After(times, b) \cup {x}) <= Cardinality(After(times, b)) + 1
        /\ Cardinality(After(times, b)) \in Nat
    BY <1>8, OneMore
  <2>3. QED
    BY <1>4, <2>1, <2>2
<1>11. Cardinality(Earlier(more, b, o.window)) <= o.limit - 1
  <2>1. /\ Cardinality(Earlier(more, b, o.window)) <= Cardinality(B)
        /\ Cardinality(Earlier(more, b, o.window)) \in Nat /\ Cardinality(B) \in Nat
    BY <1>7, <1>8, PartOf
  <2>2. QED
    BY <1>1, <1>4, <2>1
<1>12. \A y \in more : y[2] <= t /\ y[2] < f.resetAt
  BY <1>4
<1>13. f.count \in 1..o.limit
  BY <1>1, <1>4
<1> HIDE DEF more, B
<1>14. f.count - 1 = e.count
  OBVIOUS
<1>15. WindowHolds(more, f, o, t)
  BY <1>2, <1>4, <1>9, <1>10, <1>11, <1>12, <1>13, <1>14 DEF WindowHolds
<1>16. QED
  BY <1>5, <1>15 DEF Timed, more

\* Time passes.
LEMMA TimeHolds ==
  ASSUME NEW o \in LimiterOptions, NEW t \in Nat, NEW times, NEW es, NEW ks, NEW k,
         WellFormed(es, ks), Tracks(times, es, k, o, t)
  PROVE  Tracks(times, es, k, o, t + 1)
<1>1. o.window \in Nat \ {0} /\ o.limit \in Nat \ {0} /\ Timed(times)
  BY DEF LimiterOptions, Tracks
<1>2. ASSUME Rests(times, o, t)
      PROVE  Rests(times, o, t + 1)
  <2>1. Young(times, t + 1, o.window) \subseteq Young(times, t, o.window)
    BY <1>1 DEF Young, Timed
  <2>2. /\ Cardinality(Young(times, t + 1, o.window)) <= Cardinality(Young(times, t, o.window))
        /\ Cardinality(Young(times, t + 1, o.window)) \in Nat
        /\ Cardinality(Young(times, t, o.window)) \in Nat
    BY <1>1, <2>1, PartsFinite, PartOf
  <2>3. Cardinality(Young(times, t + 1, o.window)) <= o.limit - 1
    BY <1>1, <1>2, <2>2 DEF Rests
  <2>4. \A x \in times : x[2] < t + 1
    BY <1>1, <1>2 DEF Rests, Timed
  <2>5. QED
    BY <2>3, <2>4 DEF Rests
<1>3. ASSUME NEW e \in EntriesOf(ks), WindowHolds(times, e, o, t)
      PROVE  WindowHolds(times, e, o, t + 1)
  <2>1. Opened(e, o) \in Int
    BY <1>1 DEF Opened, EntriesOf
  <2>2. Opened(e, o) <= t + 1
    BY <1>3, <2>1 DEF WindowHolds
  <2>3. \A x \in times : x[2] <= t + 1
    BY <1>1, <1>3 DEF WindowHolds, Timed
  <2>4. QED
    BY <1>3, <2>2, <2>3 DEF WindowHolds
<1>4. Has(es, k) => Entry(es, k) \in EntriesOf(ks)
  BY HasEntry
<1>5. QED
  BY <1>2, <1>3, <1>4 DEF Tracks


\* A key whose entry stays, or goes when it has expired.
LEMMA OthersHold ==
  ASSUME NEW o \in LimiterOptions, NEW t \in Nat, NEW times, NEW es, NEW ks, NEW k,
         WellFormed(es, ks), Tracks(times, es, k, o, t), NEW after,
         Has(after, k) => Has(es, k) /\ Entry(after, k) = Entry(es, k),
         Has(es, k) /\ IsOpen(Entry(es, k), t) => Has(after, k)
  PROVE  Tracks(times, after, k, o, t)
<1>1. CASE Has(after, k)
  BY <1>1 DEF Tracks
<1>2. CASE ~ Has(after, k) /\ ~ Has(es, k)
  BY <1>2 DEF Tracks
<1>3. CASE ~ Has(after, k) /\ Has(es, k)
  <2> DEFINE e == Entry(es, k)
  <2>1. e \in EntriesOf(ks)
    BY <1>3, HasEntry
  <2>2. Timed(times) /\ WindowHolds(times, e, o, t)
    BY <1>3 DEF Tracks
  <2>3. ~ (e.resetAt > t)
    BY <1>3 DEF IsOpen
  <2> HIDE DEF e
  <2>4. e.count \in Nat /\ e.resetAt \in Nat /\ e.resetAt <= t
    BY <2>1, <2>3 DEF EntriesOf
  <2>5. Rests(times, o, t)
    BY <2>2, <2>4, EndedRests
  <2>6. QED
    BY <1>3, <2>2, <2>5 DEF Tracks
<1>4. QED
  BY <1>1, <1>2, <1>3

LEMMA TracksFewer ==
  ASSUME NEW o \in LimiterOptions, NEW t \in Nat, NEW times, NEW es, NEW ks, NEW k,
         WellFormed(es, ks), Tracks(times, es, k, o, t), NEW fewer \in SUBSET times
  PROVE  Tracks(fewer, es, k, o, t)
<1>1. Has(es, k) => Entry(es, k).count \in Nat
  BY HasEntry DEF EntriesOf
<1>2. QED
  BY <1>1, FewerHold DEF Tracks

\* The key that asks: x is its admission, if it is admitted.
LEMMA AskingHolds ==
  ASSUME NEW o \in LimiterOptions, NEW t \in Nat, NEW times, NEW es, NEW ks, NEW key \in ks,
         WellFormed(es, ks), Tracks(times, es, key, o, t),
         NEW a, a = Consume(es, key, t, o), NEW x, x[2] = t
  PROVE  IF a.allowed THEN Tracks(times \cup {x}, a.entries, key, o, t)
                      ELSE Tracks(times, a.entries, key, o, t)
<1> DEFINE old == Entry(es, key)
           new == Entry(a.entries, key)
<1>1. Timed(times) /\ o.window \in Nat \ {0}
  BY DEF Tracks, LimiterOptions
<1>2. CASE Has(es, key) /\ IsOpen(old, t)
  <2>1. /\ old \in EntriesOf(ks) /\ WindowHolds(times, old, o, t)
        /\ old.resetAt > t
    BY <1>2, HasEntry DEF Tracks, IsOpen
  <2>2. /\ Has(a.entries, key)
        /\ IF old.count >= o.limit
           THEN a.allowed = FALSE /\ new = old
           ELSE a.allowed = TRUE /\ new = [old EXCEPT !.count = old.count + 1]
    <3>1. Has(es, key) /\ IsOpen(Entry(es, key), t)
      BY <1>2
    <3>2. OthersStay(a, es, ks, key) /\ CountsRequest(a, es, key, t, o)
      BY <3>1, ConsumeCounted
    <3>3. QED
      BY <3>2 DEF OthersStay, CountsRequest
  <2> HIDE DEF old, new
  <2>3. CASE old.count >= o.limit
    BY <1>1, <2>1, <2>2, <2>3 DEF Tracks, new
  <2>4. CASE ~ (old.count >= o.limit)
    <3>1. /\ new.count = old.count + 1 /\ new.resetAt = old.resetAt
          /\ old.count \in Nat /\ old.resetAt \in Nat
      BY <2>1, <2>2, <2>4 DEF EntriesOf
    <3>2. Timed(times \cup {x}) /\ WindowHolds(times \cup {x}, new, o, t)
      BY <1>1, <2>1, <2>4, <3>1, CountingHolds
    <3>3. a.allowed = TRUE
      BY <2>2, <2>4
    <3>4. QED
      BY <2>2, <3>2, <3>3 DEF Tracks, new
  <2>5. QED
    BY <2>3, <2>4
<1>3. CASE ~ (Has(es, key) /\ IsOpen(old, t))
  <2>1. /\ Has(a.entries, key) /\ a.allowed = TRUE
        /\ new = [key |-> key, count |-> 1, resetAt |-> t + o.window]
    <3>1. ~ (Has(es, key) /\ IsOpen(Entry(es, key), t))
      BY <1>3
    <3>2. OthersStay(a, es, ks, key) /\ OpensWindow(a, key, t, o)
      BY <3>1, ConsumeOpens
    <3>3. QED
      BY <3>2 DEF OthersStay, OpensWindow
  <2>2. Rests(times, o, t)
    <3>1. CASE ~ Has(es, key)
      BY <3>1 DEF Tracks
    <3>2. CASE Has(es, key)
      <4>1. old \in EntriesOf(ks) /\ WindowHolds(times, old, o, t) /\ ~ (old.resetAt > t)
        BY <1>3, <3>2, HasEntry DEF Tracks, IsOpen
      <4> HIDE DEF old
      <4>2. old.count \in Nat /\ old.resetAt \in Nat /\ old.resetAt <= t
        BY <4>1 DEF EntriesOf
      <4>3. QED
        BY <1>1, <4>1, <4>2, EndedRests
    <3>3. QED
      BY <3>1, <3>2
  <2>3. new.count = 1 /\ new.resetAt = t + o.window
    BY <2>1
  <2> HIDE DEF new
  <2>4. Timed(times \cup {x}) /\ WindowHolds(times \cup {x}, new, o, t)
    BY <1>1, <2>2, <2>3, OpeningHolds
  <2>5. QED
    BY <2>1, <2>4 DEF Tracks, new
<1>4. QED
  BY <1>2, <1>3

\* The keys that do not ask: they lose their entry when it has expired, or
\* when it has to make room.
LEMMA WaitingHolds ==
  ASSUME NEW o \in LimiterOptions, NEW t \in Nat, NEW times, NEW es, NEW ks, NEW key \in ks,
         WellFormed(es, ks), NEW k, k # key, Tracks(times, es, k, o, t),
         NEW a, a = Consume(es, key, t, o),
         Has(es, k) /\ IsOpen(Entry(es, k), t) => Has(a.entries, k)
  PROVE  Tracks(times, a.entries, k, o, t)
<1>1. OthersStay(a, es, ks, key)
  BY ConsumeCounted, ConsumeOpens
<1>2. Has(a.entries, k) => Has(es, k) /\ Entry(a.entries, k) = Entry(es, k)
  BY <1>1 DEF OthersStay
<1>3. QED
  BY <1>2, OthersHold


-----------------------------------------------------------------------------
(* The order of the entries.                                               *)

\* The entry of x comes before that of y.
InOrder(es, x, y) ==
  \E i, j \in 1..Len(es) : i < j /\ es[i].key = x /\ es[j].key = y

LEMMA OrderIsTotal ==
  ASSUME NEW ks, NEW es, WellFormed(es, ks), NEW x, NEW y
  PROVE  /\ Has(es, x) /\ Has(es, y) /\ x # y => InOrder(es, x, y) \/ InOrder(es, y, x)
         /\ ~ (InOrder(es, x, y) /\ InOrder(es, y, x))
         /\ InOrder(es, x, y) => Has(es, x) /\ Has(es, y) /\ x # y
<1>1. Len(es) \in Nat
  BY LenProperties DEF WellFormed
<1>2. ASSUME Has(es, x), Has(es, y), x # y
      PROVE  InOrder(es, x, y) \/ InOrder(es, y, x)
  <2>1. PICK i \in 1..Len(es) : es[i].key = x
    BY <1>2 DEF Has
  <2>2. PICK j \in 1..Len(es) : es[j].key = y
    BY <1>2 DEF Has
  <2>3. i < j \/ j < i
    BY <1>1, <1>2, <2>1, <2>2
  <2>4. QED
    BY <2>1, <2>2, <2>3 DEF InOrder
<1>3. ASSUME InOrder(es, x, y), InOrder(es, y, x)
      PROVE  FALSE
  <2>1. PICK i \in 1..Len(es), j \in 1..Len(es) : i < j /\ es[i].key = x /\ es[j].key = y
    BY <1>3 DEF InOrder
  <2>2. PICK m \in 1..Len(es), n \in 1..Len(es) : m < n /\ es[m].key = y /\ es[n].key = x
    BY <1>3 DEF InOrder
  <2>3. i = n /\ j = m
    BY <2>1, <2>2 DEF WellFormed
  <2>4. QED
    BY <1>1, <2>1, <2>2, <2>3
<1>4. ASSUME InOrder(es, x, y)
      PROVE  Has(es, x) /\ Has(es, y) /\ x # y
  <2>1. PICK i \in 1..Len(es), j \in 1..Len(es) : i < j /\ es[i].key = x /\ es[j].key = y
    BY <1>4 DEF InOrder
  <2>2. i # j
    BY <1>1, <2>1
  <2>3. QED
    BY <2>1, <2>2 DEF Has, WellFormed
<1>5. QED
  BY <1>2, <1>3, <1>4

LEMMA KeepOrder ==
  ASSUME NEW ks, NEW es, WellFormed(es, ks), NEW at \in SUBSET (1..Len(es)), NEW x, NEW y
  PROVE  /\ InOrder(Keep(es, at), x, y) => InOrder(es, x, y)
         /\ Has(Keep(es, at), x) /\ Has(Keep(es, at), y) /\ InOrder(es, x, y) =>
              InOrder(Keep(es, at), x, y)
<1> DEFINE t == Keep(es, at)
<1>1. \A i, j \in 1..Len(t) :
        i < j => \E a, b \in at : a < b /\ t[i] = es[a] /\ t[j] = es[b]
  BY KeepIsPart DEF WellFormed
<1>2. WellFormed(t, ks)
  BY KeepEntries
<1> HIDE DEF t
<1>3. ASSUME NEW u, NEW v, InOrder(t, u, v)
      PROVE  InOrder(es, u, v)
  <2>1. PICK i \in 1..Len(t), j \in 1..Len(t) : i < j /\ t[i].key = u /\ t[j].key = v
    BY <1>3 DEF InOrder
  <2>2. PICK a \in at, b \in at : a < b /\ t[i] = es[a] /\ t[j] = es[b]
    BY <1>1, <2>1
  <2>3. a \in 1..Len(es) /\ b \in 1..Len(es)
    OBVIOUS
  <2>4. QED
    BY <2>1, <2>2, <2>3 DEF InOrder
<1>4. ASSUME Has(t, x), Has(t, y), InOrder(es, x, y)
      PROVE  InOrder(t, x, y)
  <2>1. x # y /\ ~ InOrder(es, y, x)
    BY <1>4, OrderIsTotal
  <2>2. InOrder(t, x, y) \/ InOrder(t, y, x)
    BY <1>2, <1>4, <2>1, OrderIsTotal
  <2>3. QED
    BY <1>3, <2>1, <2>2
<1>5. QED
  BY <1>3, <1>4 DEF t

LEMMA AppendOrder ==
  ASSUME NEW ks, NEW es, WellFormed(es, ks), NEW e \in EntriesOf(ks), NEW x, NEW y,
         InOrder(Append(es, e), x, y)
  PROVE  InOrder(es, x, y) \/ (Has(es, x) /\ y = e.key)
<1> DEFINE t == Append(es, e)
<1>1. es \in Seq(EntriesOf(ks)) /\ Len(es) \in Nat
  BY LenProperties DEF WellFormed
<1>2. /\ Len(t) = Len(es) + 1 /\ t[Len(es) + 1] = e
      /\ \A i \in 1..Len(es) : t[i] = es[i]
  BY <1>1, AppendProperties
<1>3. PICK i \in 1..Len(t), j \in 1..Len(t) : i < j /\ t[i].key = x /\ t[j].key = y
  BY DEF InOrder
<1> HIDE DEF t
<1>4. i \in 1..Len(es)
  BY <1>1, <1>2, <1>3
<1>5. Has(es, x)
  BY <1>2, <1>3, <1>4 DEF Has
<1>6. CASE j = Len(es) + 1
  BY <1>2, <1>3, <1>5, <1>6
<1>7. CASE j \in 1..Len(es)
  BY <1>2, <1>3, <1>4, <1>7 DEF InOrder
<1>8. QED
  BY <1>1, <1>2, <1>6, <1>7

LEMMA MakeRoomOrder ==
  ASSUME NEW ks, NEW es, WellFormed(es, ks), NEW most \in Nat \ {0}, NEW x, NEW y
  PROVE  /\ InOrder(MakeRoom(es, most), x, y) => InOrder(es, x, y)
         /\ InOrder(es, x, y) /\ Has(MakeRoom(es, most), x) => Has(MakeRoom(es, most), y)
<1> DEFINE t == MakeRoom(es, most)
<1>1. /\ WellFormed(t, ks)
      /\ \A k : Has(t, k) => Has(es, k)
      /\ \A i, j \in 1..Len(es) : i < j /\ Has(t, es[i].key) => Has(t, es[j].key)
  BY MakeRoomIs
<1>2. Most(0, Len(es) - (most - 1)) \in Nat /\ Len(es) \in Nat
  BY LenProperties DEF WellFormed, Most
<1> DEFINE d == Most(0, Len(es) - (most - 1))
<1>3. t = SubSeq(es, 1 + d, Len(es))
  BY DEF MakeRoom
<1> HIDE DEF t, d
<1>4. \A i \in (1 + d)..Len(es) : es[i] \in EntriesOf(ks)
  <2>1. \A i \in (1 + d)..Len(es) : i \in 1..Len(es)
    BY <1>2 DEF d
  <2>2. QED
    BY <2>1, EntryIs
<1>5. 1 + d \in Int /\ Len(es) \in Int
  BY <1>2 DEF d
<1>6. /\ Len(t) = IF 1 + d <= Len(es) THEN Len(es) - (1 + d) + 1 ELSE 0
      /\ \A i \in 1..(Len(es) - (1 + d) + 1) : t[i] = es[(1 + d) + i - 1]
  BY <1>3, <1>4, <1>5, SubSeqProperties
<1>7. ASSUME NEW i \in 1..Len(t)
      PROVE  i + d \in 1..Len(es) /\ t[i] = es[i + d]
  <2>1. /\ i \in 1..(Len(es) - (1 + d) + 1) /\ i + d \in 1..Len(es)
        /\ (1 + d) + i - 1 = i + d
    BY <1>2, <1>6 DEF d
  <2>2. QED
    BY <1>6, <2>1
<1>8. ASSUME InOrder(t, x, y)
      PROVE  InOrder(es, x, y)
  <2>1. PICK i \in 1..Len(t), j \in 1..Len(t) : i < j /\ t[i].key = x /\ t[j].key = y
    BY <1>8 DEF InOrder
  <2>2. i + d < j + d
    BY <1>2, <1>6, <2>1 DEF d
  <2>3. i + d \in 1..Len(es) /\ j + d \in 1..Len(es) /\ t[i] = es[i + d] /\ t[j] = es[j + d]
    BY <1>7
  <2>4. QED
    BY <2>1, <2>2, <2>3 DEF InOrder
<1>9. InOrder(es, x, y) /\ Has(t, x) => Has(t, y)
  BY <1>1 DEF InOrder
<1>10. QED
  BY <1>8, <1>9 DEF t

\* After a request of key the others have their order and key comes last; of
\* two open entries whose keys did not ask, the later one stays with the other.
LEMMA ConsumeOrder ==
  ASSUME NEW ks, NEW es, WellFormed(es, ks), NEW key \in ks, NEW t \in Nat,
         NEW o \in LimiterOptions, NEW x, NEW y,
         NEW a, a = Consume(es, key, t, o)
  PROVE  /\ InOrder(a.entries, x, y) => x # key /\ (y = key \/ InOrder(es, x, y))
         /\ /\ InOrder(es, x, y) /\ x # key /\ y # key
            /\ IsOpen(Entry(es, x), t) /\ IsOpen(Entry(es, y), t)
            /\ Has(a.entries, x)
            => Has(a.entries, y)
<1> DEFINE p == PruneExpired(es, t)
           w == Without(p, key)
           m == MakeRoom(w, o.maxKeys)
           fresh == [key |-> key, count |-> 1, resetAt |-> t + o.window]
           atP == {i \in 1..Len(es) : i > Inspected \/ IsOpen(es[i], t)}
           atW == {i \in 1..Len(p) : p[i].key # key}
<1>1. /\ WellFormed(p, ks)
      /\ \A k : Has(p, k) => Has(es, k) /\ Entry(p, k) = Entry(es, k)
      /\ \A k : Has(es, k) /\ IsOpen(Entry(es, k), t) => Has(p, k)
  BY PruneIs
<1>2. p = Keep(es, atP) /\ atP \in SUBSET (1..Len(es))
  BY DEF PruneExpired
<1>3. w = Keep(p, atW) /\ atW \in SUBSET (1..Len(p))
  BY DEF Without
<1> HIDE DEF p, atP, atW
<1>4. /\ WellFormed(w, ks)
      /\ \A k : Has(w, k) <=> Has(p, k) /\ k # key
  BY <1>1, WithoutIs
<1> HIDE DEF w
<1>5. o.maxKeys \in Nat \ {0} /\ fresh \in EntriesOf(ks) /\ fresh.key = key
  BY DEF LimiterOptions, EntriesOf
<1>6. /\ WellFormed(m, ks)
      /\ \A k : Has(m, k) => Has(w, k)
      /\ InOrder(m, x, y) => InOrder(w, x, y)
      /\ InOrder(w, x, y) /\ Has(m, x) => Has(m, y)
  BY <1>4, <1>5, MakeRoomIs, MakeRoomOrder
<1> HIDE DEF m, fresh
<1>7. InOrder(w, x, y) => InOrder(p, x, y)
  BY <1>1, <1>3, KeepOrder
<1>8. InOrder(p, x, y) => InOrder(es, x, y)
  BY <1>2, KeepOrder
<1>9. CASE Has(es, key) /\ IsOpen(Entry(es, key), t)
  <2> DEFINE old == Entry(es, key)
             more == [old EXCEPT !.count = old.count + 1]
  <2>1. Has(p, key) /\ Entry(p, key) = old /\ old \in EntriesOf(ks) /\ old.key = key
    BY <1>1, <1>9, HasEntry
  <2>2. more \in EntriesOf(ks) /\ more.key = key
    BY <2>1 DEF EntriesOf
  <2>3. a.entries = Touch(p, old) \/ a.entries = Touch(p, more)
    BY <1>9, <2>1 DEF Consume, Admit, Refuse, p
  <2> HIDE DEF old, more
  <2>4. PICK e \in EntriesOf(ks) : e.key = key /\ a.entries = Append(w, e)
    BY <2>1, <2>2, <2>3 DEF Touch, w
  <2>5. InOrder(a.entries, x, y) => InOrder(w, x, y) \/ (Has(w, x) /\ y = key)
    BY <1>4, <2>4, AppendOrder
  <2>6. InOrder(w, x, y) => Has(w, x)
    BY <1>4, OrderIsTotal
  <2>7. InOrder(a.entries, x, y) => x # key /\ (y = key \/ InOrder(es, x, y))
    BY <1>4, <1>7, <1>8, <2>5, <2>6
  <2>8. OpenStay(a, es, t)
    BY <1>9, ConsumeCounted
  <2>9. InOrder(es, x, y) => Has(es, y)
    BY OrderIsTotal
  <2>10. QED
    BY <2>7, <2>8, <2>9 DEF OpenStay
<1>10. CASE ~ (Has(es, key) /\ IsOpen(Entry(es, key), t))
  <2>1. ~ (Has(p, key) /\ IsOpen(Entry(p, key), t))
    BY <1>1, <1>10
  <2>2. a.entries = Append(m, fresh)
    BY <2>1 DEF Consume, Admit, p, w, m, fresh
  <2>3. InOrder(a.entries, x, y) => InOrder(m, x, y) \/ (Has(m, x) /\ y = key)
    BY <1>5, <1>6, <2>2, AppendOrder
  <2>4. InOrder(m, x, y) => Has(m, x)
    BY <1>6, OrderIsTotal
  <2>5. InOrder(a.entries, x, y) => x # key /\ (y = key \/ InOrder(es, x, y))
    BY <1>4, <1>6, <1>7, <1>8, <2>3, <2>4
  <2>6. ~ Has(m, key)
    BY <1>4, <1>6
  <2>7. \A k : Has(a.entries, k) <=> Has(m, k) \/ k = key
    BY <1>5, <1>6, <2>2, <2>6, AppendIs
  <2>8. ASSUME InOrder(es, x, y), x # key, y # key,
               IsOpen(Entry(es, x), t), IsOpen(Entry(es, y), t), Has(a.entries, x)
        PROVE  Has(a.entries, y)
    <3>1. Has(es, x) /\ Has(es, y)
      BY <2>8, OrderIsTotal
    <3>2. Has(p, x) /\ Has(p, y)
      BY <1>1, <2>8, <3>1
    <3>3. InOrder(p, x, y)
      BY <1>2, <2>8, <3>2, KeepOrder
    <3>4. Has(w, x) /\ Has(w, y)
      BY <1>4, <2>8, <3>2
    <3>5. InOrder(w, x, y)
      BY <1>1, <1>3, <3>3, <3>4, KeepOrder
    <3>6. Has(m, x)
      BY <2>7, <2>8
    <3>7. QED
      BY <1>6, <2>7, <3>5, <3>6
  <2>9. QED
    BY <2>5, <2>8
<1>11. QED
  BY <1>9, <1>10


-----------------------------------------------------------------------------
(* What Retry-After promises.                                              *)

LEMMA RoundUp ==
  ASSUME NEW n \in Nat, NEW s \in Nat \ {0}
  PROVE  /\ (n + s - 1) \div s \in Nat
         /\ ((n + s - 1) \div s) * s >= n
<1> DEFINE q == (n + s - 1) \div s
           r == (n + s - 1) % s
<1>1. n + s - 1 = q * s + r /\ r < s /\ q \in Int /\ r \in Int
  OBVIOUS
<1>2. q \in Nat
  OBVIOUS
<1>3. QED
  BY <1>1, <1>2


LEMMA RetryAfterIs ==
  ASSUME NEW reset \in Nat, NEW t \in Nat, NEW w \in Nat \ {0}, reset > t, reset - t <= w
  PROVE  /\ RetryAfter(reset, t, w) \in Nat
         /\ RetryAfter(reset, t, w) * Second >= reset - t
<1> DEFINE n == reset - t
           q == (n + Second - 1) \div Second
<1>1. n \in Nat \ {0} /\ Second \in Nat \ {0}
  BY SecondAssumption
<1>2. Least(w, Most(1, reset - t)) = n
  BY <1>1 DEF Least, Most
<1>3. RetryAfter(reset, t, w) = Most(1, q)
  BY <1>2 DEF RetryAfter
<1>4. q \in Nat /\ q * Second >= n
  BY <1>1, RoundUp
<1> HIDE DEF q
<1>5. CASE q >= 1
  <2>1. Most(1, q) = q
    BY <1>4, <1>5 DEF Most
  <2>2. QED
    BY <1>3, <1>4, <2>1
<1>6. CASE ~ (q >= 1)
  <2>1. q = 0
    BY <1>4, <1>6
  <2>2. QED
    BY <1>1, <1>4, <2>1
<1>7. QED
  BY <1>5, <1>6

-----------------------------------------------------------------------------
(* The invariant of a limiter.                                             *)

\* In s, every x comes before every y.
Precedes(s, x, y) ==
  \A m, n \in 1..Len(s) : s[m] = x /\ s[n] = y => m < n

\* Every admission of the current window has its own number.
Numbered(times, e, o) == \A x \in times : x[2] >= Opened(e, o) => x[1] <= e.count

\* What a key was told holds of its entry.
Told(k) == retryAt[k] # 0 /\ Has(entries, k) => Entry(entries, k).resetAt <= retryAt[k]

EntriesInOrder == \A x, y \in Keys : InOrder(entries, x, y) => Precedes(lastUse, x, y)

LimiterInv ==
  /\ clock \in Nat
  /\ WellFormed(entries, Keys) /\ Len(entries) <= MaxKeys
  /\ recent \in [Keys -> SUBSET ((1..Limit) \X Nat)]
  /\ lastUse \in Seq(Keys)
  /\ retryAt \in [Keys -> Nat]
  /\ \A k \in Keys : Tracks(recent[k], entries, k, Options, clock)
  /\ \A k \in Keys : Has(entries, k) => Numbered(recent[k], Entry(entries, k), Options)
  /\ \A k \in Keys : Told(k)
  /\ EntriesInOrder

LEMMA OptionsAre ==
  /\ Options \in LimiterOptions
  /\ Options.limit = Limit /\ Options.window = Window /\ Options.maxKeys = MaxKeys
BY OptionsAssumption DEF Options, LimiterOptions

\* Who asked in which order, when k asks again.
Used(s, k) == Append(Keep(s, {i \in 1..Len(s) : s[i] # k}), k)

\* The last request comes last, the others keep their order.
LEMMA UseOrder ==
  ASSUME NEW s \in Seq(Keys), NEW k \in Keys, NEW u, u = Used(s, k)
  PROVE  /\ u \in Seq(Keys)
         /\ \A x : x # k => Precedes(u, x, k)
         /\ \A x, y : x # k /\ y # k /\ Precedes(s, x, y) => Precedes(u, x, y)
<1> DEFINE at == {i \in 1..Len(s) : s[i] # k}
           t == Keep(s, at)
<1>1. /\ t \in Seq(Keys)
      /\ \E pos : Places(pos, t, Len(s), s, at)
  BY KeepPositions
<1>2. PICK pos : Places(pos, t, Len(s), s, at)
  BY <1>1
<1>3. Len(t) \in Nat /\ Len(s) \in Nat
  BY <1>1, LenProperties
<1>4. /\ u \in Seq(Keys) /\ Len(u) = Len(t) + 1 /\ u[Len(t) + 1] = k
      /\ \A i \in 1..Len(t) : u[i] = t[i]
  BY <1>1, AppendProperties DEF Used
<1>5. \A i \in 1..Len(t) : pos[i] \in at /\ pos[i] \in 1..Len(s) /\ t[i] = s[pos[i]]
  BY <1>2 DEF Places
<1>6. \A i \in 1..Len(t) : t[i] # k
  BY <1>5
<1>7. \A i, j \in 1..Len(t) : i < j => pos[i] < pos[j]
  BY <1>2 DEF Places
<1> HIDE DEF t, at
<1>8. ASSUME NEW x, x # k, NEW m \in 1..Len(u), NEW n \in 1..Len(u), u[m] = x, u[n] = k
      PROVE  m < n
  <2>1. m \in 1..Len(t)
    BY <1>3, <1>4, <1>8
  <2>2. n \notin 1..Len(t)
    BY <1>4, <1>6, <1>8
  <2>3. QED
    BY <1>3, <1>4, <2>1, <2>2
<1>9. ASSUME NEW x, NEW y, x # k, y # k, Precedes(s, x, y),
             NEW m \in 1..Len(u), NEW n \in 1..Len(u), u[m] = x, u[n] = y
      PROVE  m < n
  <2>1. m \in 1..Len(t) /\ n \in 1..Len(t)
    BY <1>3, <1>4, <1>9
  <2>2. s[pos[m]] = x /\ s[pos[n]] = y /\ pos[m] \in 1..Len(s) /\ pos[n] \in 1..Len(s)
    BY <1>4, <1>5, <1>9, <2>1
  <2>3. pos[m] < pos[n]
    BY <1>9, <2>2 DEF Precedes
  <2>4. ~ (pos[n] < pos[m]) /\ pos[m] # pos[n]
    BY <1>3, <2>2, <2>3
  <2>5. ~ (n < m) /\ m # n
    BY <1>7, <2>1, <2>4
  <2>6. QED
    BY <1>3, <2>1, <2>5
<1>10. ASSUME NEW x, x # k
       PROVE  Precedes(u, x, k)
  BY <1>8, <1>10 DEF Precedes
<1>11. ASSUME NEW x, NEW y, x # k, y # k, Precedes(s, x, y)
       PROVE  Precedes(u, x, y)
  <2>1. \A m, n \in 1..Len(u) : u[m] = x /\ u[n] = y => m < n
    BY <1>9, <1>11
  <2>2. QED
    BY <2>1 DEF Precedes
<1>12. QED
  BY <1>4, <1>10, <1>11


\* A key without entry and without admissions.
LEMMA NothingTracks ==
  ASSUME NEW o \in LimiterOptions, NEW t, NEW es, NEW k, ~ Has(es, k)
  PROVE  Tracks({}, es, k, o, t)
<1>1. IsFiniteSet({}) /\ Cardinality({}) = 0
  BY FS_EmptySet
<1>2. Young({}, t, o.window) = {} /\ o.limit \in Nat \ {0}
  BY DEF Young, LimiterOptions
<1>3. Cardinality(Young({}, t, o.window)) <= o.limit - 1
  BY <1>1, <1>2
<1>4. Rests({}, o, t) /\ Timed({})
  BY <1>1, <1>3 DEF Rests, Timed
<1>5. QED
  BY <1>4 DEF Tracks

LEMMA LimiterStarts == LimiterInit => LimiterInv
<1> SUFFICES ASSUME LimiterInit PROVE LimiterInv
  OBVIOUS
<1> USE DEF LimiterInit
<1>1. <<>> \in Seq(EntriesOf(Keys)) /\ <<>> \in Seq(Keys) /\ Len(<<>>) = 0
  BY EmptySeq
<1>2. WellFormed(entries, Keys) /\ Len(entries) <= MaxKeys
  BY <1>1, OptionsAssumption DEF WellFormed
<1>3. \A k : ~ Has(entries, k)
  BY <1>1 DEF Has
<1>4. \A k \in Keys : Tracks(recent[k], entries, k, Options, clock)
  BY <1>3, OptionsAre, NothingTracks
<1>5. EntriesInOrder
  BY <1>1 DEF EntriesInOrder, InOrder
<1>6. QED
  BY <1>1, <1>2, <1>3, <1>4, <1>5 DEF LimiterInv, Told

\* A request of k: what it does to the entries, and to the history of k.
LEMMA RequestIs ==
  ASSUME LimiterInv, NEW k \in Keys, Request(k),
         NEW a, a = Consume(entries, k, clock, Options)
  PROVE  /\ entries' = a.entries /\ clock' = clock
         /\ OthersStay(a, entries, Keys, k)
         /\ Len(entries') <= MaxKeys
         /\ \A j \in Keys \ {k} : recent'[j] \subseteq recent[j] /\ retryAt'[j] = retryAt[j]
         /\ \A j \in Keys : j \in Forgotten(a.entries) => recent'[j] = {}
         /\ IF a.allowed
            THEN /\ recent'[k] \subseteq recent[k] \cup {<<Entry(a.entries, k).count, clock>>}
                 /\ retryAt'[k] = 0
            ELSE /\ recent'[k] \subseteq recent[k]
                 /\ retryAt'[k] = clock + a.retryAfter * Second
         /\ recent' = [j \in Keys |-> recent'[j]]
         /\ retryAt' = [j \in Keys |-> retryAt'[j]]
<1>1. /\ WellFormed(entries, Keys) /\ clock \in Nat /\ Len(entries) <= MaxKeys
      /\ recent \in [Keys -> SUBSET ((1..Limit) \X Nat)] /\ retryAt \in [Keys -> Nat]
  BY DEF LimiterInv
<1>2. /\ Options \in LimiterOptions /\ Options.maxKeys = MaxKeys /\ MaxKeys \in Nat
  BY OptionsAre, OptionsAssumption
<1>3. OthersStay(a, entries, Keys, k)
  BY <1>1, <1>2, ConsumeCounted, ConsumeOpens
<1> DEFINE admitted == <<Entry(a.entries, k).count, clock>>
           known == [recent EXCEPT ![k] = IF a.allowed THEN @ \cup {admitted} ELSE @]
<1>4. /\ entries' = a.entries /\ clock' = clock
      /\ recent' = [j \in Keys |-> IF j \in Forgotten(a.entries) THEN {} ELSE Last(known[j])]
      /\ retryAt' = [retryAt EXCEPT ![k] =
                       IF a.allowed THEN 0 ELSE clock + a.retryAfter * Second]
  BY DEF Request
<1>5. Len(a.entries) <= MaxKeys
  <2>1. CASE Has(entries, k) /\ IsOpen(Entry(entries, k), clock)
    <3>1. Len(a.entries) <= Len(entries)
      BY <1>1, <1>2, <2>1, ConsumeCounted
    <3>2. Len(a.entries) \in Nat /\ Len(entries) \in Nat
      BY <1>1, <1>3, LenProperties DEF OthersStay, WellFormed
    <3>3. QED
      BY <1>1, <1>2, <3>1, <3>2
  <2>2. CASE ~ (Has(entries, k) /\ IsOpen(Entry(entries, k), clock))
    BY <1>1, <1>2, <2>2, ConsumeOpens
  <2>3. QED
    BY <2>1, <2>2
<1>6. ASSUME NEW j \in Keys
      PROVE  /\ recent'[j] \subseteq known[j]
             /\ j \in Forgotten(a.entries) => recent'[j] = {}
  BY <1>4 DEF Last
<1>7. /\ \A j \in Keys \ {k} : known[j] = recent[j] /\ retryAt'[j] = retryAt[j]
      /\ known[k] = IF a.allowed THEN recent[k] \cup {admitted} ELSE recent[k]
      /\ retryAt'[k] = IF a.allowed THEN 0 ELSE clock + a.retryAfter * Second
      /\ recent' = [j \in Keys |-> recent'[j]]
      /\ retryAt' = [j \in Keys |-> retryAt'[j]]
  BY <1>1, <1>4
<1> HIDE DEF known
<1>8. IF a.allowed
      THEN /\ recent'[k] \subseteq recent[k] \cup {admitted}
           /\ retryAt'[k] = 0
      ELSE /\ recent'[k] \subseteq recent[k]
           /\ retryAt'[k] = clock + a.retryAfter * Second
  BY <1>6, <1>7
<1>9. \A j \in Keys \ {k} : recent'[j] \subseteq recent[j] /\ retryAt'[j] = retryAt[j]
  BY <1>6, <1>7
<1>10. QED
  BY <1>3, <1>4, <1>5, <1>6, <1>7, <1>8, <1>9


LEMMA RequestTracks ==
  ASSUME LimiterInv, NEW k \in Keys, Request(k), NEW j \in Keys
  PROVE  Tracks(recent[j], entries, j, Options, clock)'
<1> DEFINE a == Consume(entries, k, clock, Options)
           x == <<Entry(a.entries, k).count, clock>>
<1>1. /\ entries' = a.entries /\ clock' = clock
      /\ OthersStay(a, entries, Keys, k)
      /\ \A i \in Keys \ {k} : recent'[i] \subseteq recent[i]
      /\ \A i \in Keys : i \in Forgotten(a.entries) => recent'[i] = {}
      /\ IF a.allowed THEN recent'[k] \subseteq recent[k] \cup {x}
                      ELSE recent'[k] \subseteq recent[k]
  BY RequestIs
<1>2. /\ WellFormed(entries, Keys) /\ clock \in Nat
      /\ Tracks(recent[j], entries, j, Options, clock)
  BY DEF LimiterInv
<1>3. Options \in LimiterOptions /\ x[2] = clock
  BY OptionsAre
<1>4. WellFormed(a.entries, Keys)
  BY <1>1 DEF OthersStay
<1> HIDE DEF x
<1>5. SUFFICES Tracks(recent'[j], a.entries, j, Options, clock)
  <2>1. Options' = Options
    BY DEF Options
  <2>2. QED
    BY <1>1, <2>1 DEF Tracks, WindowHolds, Rests, Timed, Opened, From, After, Earlier, Young, Has, Entry
<1>6. CASE j = k
  <2>1. IF a.allowed THEN Tracks(recent[k] \cup {x}, a.entries, k, Options, clock)
                     ELSE Tracks(recent[k], a.entries, k, Options, clock)
    BY <1>2, <1>3, <1>6, AskingHolds
  <2> HIDE DEF a
  <2>2. CASE a.allowed
    BY <1>1, <1>2, <1>3, <1>4, <1>6, <2>1, <2>2, TracksFewer
  <2>3. CASE ~ a.allowed
    BY <1>1, <1>2, <1>3, <1>4, <1>6, <2>1, <2>3, TracksFewer
  <2>4. QED
    BY <2>2, <2>3
<1>7. CASE j # k /\ (Counts(j) => Has(a.entries, j))
  <2>1. Has(entries, j) /\ IsOpen(Entry(entries, j), clock) => Has(a.entries, j)
    BY <1>7 DEF Counts
  <2>2. Tracks(recent[j], a.entries, j, Options, clock)
    BY <1>2, <1>3, <1>7, <2>1, WaitingHolds
  <2>3. recent'[j] \in SUBSET recent[j]
    BY <1>1, <1>7
  <2> HIDE DEF a
  <2>4. QED
    BY <1>2, <1>3, <1>4, <2>2, <2>3, TracksFewer
<1>8. CASE j # k /\ Counts(j) /\ ~ Has(a.entries, j)
  <2>1. j \in Forgotten(a.entries)
    BY <1>8 DEF Forgotten
  <2>2. recent'[j] = {}
    BY <1>1, <2>1
  <2>3. Tracks({}, a.entries, j, Options, clock)
    BY <1>3, <1>8, NothingTracks
  <2>4. QED
    BY <2>2, <2>3
<1>9. QED
  BY <1>6, <1>7, <1>8


LEMMA RequestNumbers ==
  ASSUME LimiterInv, NEW k \in Keys, Request(k)
  PROVE  /\ recent' \in [Keys -> SUBSET ((1..Limit) \X Nat)]
         /\ \A j \in Keys :
              Has(entries, j)' => Numbered(recent[j], Entry(entries, j), Options)'
         /\ \A j \in Keys : Told(j)'
         /\ retryAt' \in [Keys -> Nat]
<1> DEFINE a == Consume(entries, k, clock, Options)
           new == Entry(a.entries, k)
           x == <<new.count, clock>>
           old == Entry(entries, k)
<1>1. /\ entries' = a.entries /\ clock' = clock
      /\ OthersStay(a, entries, Keys, k)
      /\ \A i \in Keys \ {k} : recent'[i] \subseteq recent[i] /\ retryAt'[i] = retryAt[i]
      /\ IF a.allowed THEN recent'[k] \subseteq recent[k] \cup {x} /\ retryAt'[k] = 0
                      ELSE /\ recent'[k] \subseteq recent[k]
                           /\ retryAt'[k] = clock + a.retryAfter * Second
      /\ recent' = [j \in Keys |-> recent'[j]]
      /\ retryAt' = [j \in Keys |-> retryAt'[j]]
  BY RequestIs
<1>2. /\ WellFormed(entries, Keys) /\ clock \in Nat
      /\ recent \in [Keys -> SUBSET ((1..Limit) \X Nat)] /\ retryAt \in [Keys -> Nat]
      /\ Tracks(recent[k], entries, k, Options, clock)
      /\ \A j \in Keys : Has(entries, j) => Numbered(recent[j], Entry(entries, j), Options)
      /\ \A j \in Keys : Told(j)
  BY DEF LimiterInv
<1>3. Options \in LimiterOptions /\ Options.limit = Limit /\ Options.window = Window
  BY OptionsAre
<1>4. Limit \in Nat \ {0} /\ Window \in Nat \ {0} /\ Second \in Nat \ {0}
  BY OptionsAssumption, SecondAssumption
<1>5. Has(a.entries, k)
  BY <1>1 DEF OthersStay
<1> HIDE DEF a
\* The key that asks.
<1>6. /\ a.allowed => new.count \in 1..Limit
      /\ Numbered(recent'[k], new, Options)
      /\ ~ a.allowed => /\ clock + a.retryAfter * Second \in Nat
                        /\ new.resetAt <= clock + a.retryAfter * Second
  <2>1. CASE Has(entries, k) /\ IsOpen(old, clock)
    <3>1. /\ old \in EntriesOf(Keys) /\ old.resetAt > clock
          /\ WindowHolds(recent[k], old, Options, clock)
      BY <1>2, <2>1, HasEntry DEF Tracks, IsOpen
    <3>2. Numbered(recent[k], old, Options)
      BY <1>2, <2>1
    <3>3. CountsRequest(a, entries, k, clock, Options)
      BY <1>2, <1>3, <2>1, ConsumeCounted DEF a
    <3>4. /\ Timed(recent[k]) /\ old.count \in Nat /\ old.resetAt \in Nat
          /\ \A y \in recent[k] : y \in (1..Limit) \X Nat
      BY <1>2, <3>1 DEF Tracks, EntriesOf
    <3>5. CASE old.count >= Limit
      <4>1. /\ a.allowed = FALSE /\ new = old
            /\ a.retryAfter = RetryAfter(old.resetAt, clock, Window)
        BY <1>3, <3>3, <3>5 DEF CountsRequest
      <4>2. recent'[k] \subseteq recent[k]
        BY <1>1, <4>1
      <4>3. Numbered(recent'[k], new, Options)
        BY <3>2, <4>1, <4>2 DEF Numbered
      <4>4. old.resetAt - clock <= Window
        BY <1>2, <1>3, <1>4, <3>1, <3>4 DEF WindowHolds, Opened
      <4> HIDE DEF old, new
      <4>5. /\ a.retryAfter \in Nat /\ a.retryAfter * Second >= old.resetAt - clock
        BY <1>2, <1>4, <3>1, <3>4, <4>1, <4>4, RetryAfterIs
      <4>6. a.retryAfter * Second \in Nat
        BY <1>4, <4>5
      <4> DEFINE wait == a.retryAfter * Second
      <4>7. wait \in Nat /\ wait >= old.resetAt - clock
        BY <4>5, <4>6
      <4> HIDE DEF wait
      <4>8. clock + wait \in Nat /\ old.resetAt <= clock + wait
        BY <1>2, <3>4, <4>7
      <4>9. QED
        BY <4>1, <4>3, <4>8 DEF wait
    <3>6. CASE ~ (old.count >= Limit)
      <4>1. a.allowed = TRUE /\ new = [old EXCEPT !.count = old.count + 1]
        BY <1>3, <3>3, <3>6 DEF CountsRequest
      <4>2. new.count = old.count + 1 /\ new.resetAt = old.resetAt
        BY <3>1, <4>1 DEF EntriesOf
      <4>3. recent'[k] \subseteq recent[k] \cup {x}
        BY <1>1, <4>1
      <4>4. Opened(new, Options) = Opened(old, Options)
        BY <4>2 DEF Opened
      <4> HIDE DEF old, new
      <4>5. Numbered(recent'[k], new, Options)
        <5>1. SUFFICES ASSUME NEW y \in recent'[k], y[2] >= Opened(new, Options)
                       PROVE  y[1] <= new.count
          BY DEF Numbered
        <5>2. CASE y = x
          BY <3>4, <4>2, <5>2
        <5>3. CASE y \in recent[k]
          <6>1. y[1] \in Nat /\ y[1] <= old.count
            BY <3>2, <3>4, <4>4, <5>1, <5>3 DEF Numbered
          <6>2. QED
            BY <3>4, <4>2, <6>1
        <5>4. QED
          BY <4>3, <5>2, <5>3
      <4>6. new.count \in 1..Limit
        BY <1>4, <3>4, <3>6, <4>2
      <4>7. QED
        BY <4>1, <4>5, <4>6
    <3>7. QED
      BY <3>5, <3>6
  <2>2. CASE ~ (Has(entries, k) /\ IsOpen(old, clock))
    <3>1. OpensWindow(a, k, clock, Options)
      BY <1>2, <1>3, <2>2, ConsumeOpens DEF a
    <3>2. a.allowed = TRUE /\ new.count = 1 /\ new.resetAt = clock + Window
      BY <1>3, <3>1 DEF OpensWindow
    <3>3. recent'[k] \subseteq recent[k] \cup {x}
      BY <1>1, <3>2
    <3>4. Opened(new, Options) = clock
      BY <1>2, <1>3, <1>4, <3>2 DEF Opened
    <3>5. \A y \in recent[k] : y[2] \in Nat /\ y[2] < clock
      <4>1. CASE ~ Has(entries, k)
        BY <1>2, <4>1 DEF Tracks, Rests, Timed
      <4>2. CASE Has(entries, k)
        <5>1. /\ old \in EntriesOf(Keys) /\ ~ (old.resetAt > clock)
              /\ Timed(recent[k]) /\ WindowHolds(recent[k], old, Options, clock)
          BY <1>2, <2>2, <4>2, HasEntry DEF Tracks, IsOpen
        <5>2. old.count \in Nat /\ old.resetAt \in Nat /\ old.resetAt <= clock
          BY <1>2, <5>1 DEF EntriesOf
        <5> HIDE DEF old
        <5>3. Rests(recent[k], Options, clock)
          BY <1>2, <1>3, <5>1, <5>2, EndedRests
        <5>4. QED
          BY <5>1, <5>3 DEF Rests, Timed
      <4>3. QED
        BY <4>1, <4>2
    <3> HIDE DEF new
    <3>6. Numbered(recent'[k], new, Options)
      <4>1. SUFFICES ASSUME NEW y \in recent'[k], y[2] >= Opened(new, Options)
                     PROVE  y[1] <= new.count
        BY DEF Numbered
      <4>2. y \notin recent[k]
        BY <1>2, <3>4, <3>5, <4>1
      <4>3. y = x
        BY <3>3, <4>2
      <4>4. QED
        BY <3>2, <4>3
    <3>7. QED
      BY <1>4, <3>2, <3>6
  <2>3. QED
    BY <2>1, <2>2
<1>7. ASSUME NEW j \in Keys
      PROVE  recent'[j] \subseteq (1..Limit) \X Nat
  <2>1. CASE j # k
    BY <1>1, <1>2, <2>1
  <2>2. CASE j = k
    <3>1. a.allowed => x \in (1..Limit) \X Nat
      BY <1>2, <1>6
    <3> HIDE DEF x
    <3>2. recent[k] \subseteq (1..Limit) \X Nat
      BY <1>2
    <3>3. QED
      BY <1>1, <2>2, <3>1, <3>2
  <2>3. QED
    BY <2>1, <2>2
<1>8. ASSUME NEW j \in Keys
      PROVE  /\ retryAt'[j] \in Nat
             /\ Has(a.entries, j) => /\ Numbered(recent'[j], Entry(a.entries, j), Options)
                                     /\ retryAt'[j] # 0 =>
                                          Entry(a.entries, j).resetAt <= retryAt'[j]
  <2>1. CASE j = k
    BY <1>1, <1>6, <2>1
  <2>2. CASE j # k
    <3>1. Has(a.entries, j) => Has(entries, j) /\ Entry(a.entries, j) = Entry(entries, j)
      BY <1>1, <2>2 DEF OthersStay
    <3>2. recent'[j] \subseteq recent[j] /\ retryAt'[j] = retryAt[j]
      BY <1>1, <2>2
    <3>3. QED
      BY <1>2, <3>1, <3>2 DEF Numbered, Told
  <2>3. QED
    BY <2>1, <2>2
<1>9. /\ recent' \in [Keys -> SUBSET ((1..Limit) \X Nat)]
      /\ retryAt' \in [Keys -> Nat]
  BY <1>1, <1>7, <1>8
<1>10. ASSUME NEW j \in Keys
       PROVE  /\ Has(entries, j)' => Numbered(recent[j], Entry(entries, j), Options)'
              /\ Told(j)'
  <2>1. Has(entries, j)' <=> Has(a.entries, j)
    BY <1>1 DEF Has
  <2>2. Entry(entries, j)' = Entry(a.entries, j)
    BY <1>1 DEF Entry
  <2>3. Opened(Entry(entries, j), Options)' = Opened(Entry(a.entries, j), Options)
    BY <2>2 DEF Opened, Options
  <2>4. QED
    BY <1>8, <2>1, <2>2, <2>3 DEF Numbered, Told
<1>11. QED
  BY <1>9, <1>10


LEMMA RequestOrder ==
  ASSUME LimiterInv, NEW k \in Keys, Request(k)
  PROVE  lastUse' \in Seq(Keys) /\ EntriesInOrder'
<1> DEFINE a == Consume(entries, k, clock, Options)
<1>1. entries' = a.entries
  BY RequestIs
<1>2. WellFormed(entries, Keys) /\ clock \in Nat /\ lastUse \in Seq(Keys) /\ EntriesInOrder
  BY DEF LimiterInv
<1>3. lastUse' = Used(lastUse, k)
  BY DEF Request, Used
<1>4. /\ lastUse' \in Seq(Keys)
      /\ \A x : x # k => Precedes(lastUse', x, k)
      /\ \A x, y : x # k /\ y # k /\ Precedes(lastUse, x, y) => Precedes(lastUse', x, y)
  BY <1>2, <1>3, UseOrder
<1>5. ASSUME NEW x \in Keys, NEW y \in Keys, InOrder(a.entries, x, y)
      PROVE  Precedes(lastUse', x, y)
  <2>1. x # k /\ (y = k \/ InOrder(entries, x, y))
    BY <1>2, <1>5, OptionsAre, ConsumeOrder
  <2>2. CASE y = k
    BY <1>4, <2>1, <2>2
  <2>3. CASE y # k
    BY <1>2, <1>4, <2>1, <2>3 DEF EntriesInOrder
  <2>4. QED
    BY <2>2, <2>3
<1> HIDE DEF a
<1>6. \A x, y \in Keys : InOrder(entries, x, y)' => Precedes(lastUse', x, y)
  BY <1>1, <1>5 DEF InOrder
<1>7. QED
  BY <1>4, <1>6 DEF EntriesInOrder, Precedes

LEMMA RequestInv ==
  ASSUME LimiterInv, NEW k \in Keys, Request(k)
  PROVE  LimiterInv'
<1> DEFINE a == Consume(entries, k, clock, Options)
<1>1. /\ entries' = a.entries /\ clock' = clock /\ Len(entries') <= MaxKeys
      /\ OthersStay(a, entries, Keys, k)
  BY RequestIs
<1>2. WellFormed(entries, Keys)'
  BY <1>1 DEF OthersStay, WellFormed
<1>3. clock' \in Nat
  BY <1>1 DEF LimiterInv
<1>4. QED
  BY <1>1, <1>2, <1>3, RequestTracks, RequestNumbers, RequestOrder DEF LimiterInv

LEMMA ResetInv ==
  ASSUME LimiterInv, NEW k \in Keys, ResetKey(k)
  PROVE  LimiterInv'
<1> DEFINE w == Without(entries, k)
<1>1. /\ clock \in Nat /\ WellFormed(entries, Keys) /\ Len(entries) <= MaxKeys
      /\ recent \in [Keys -> SUBSET ((1..Limit) \X Nat)]
      /\ lastUse \in Seq(Keys) /\ retryAt \in [Keys -> Nat]
      /\ \A j \in Keys : Tracks(recent[j], entries, j, Options, clock)
      /\ \A j \in Keys : Has(entries, j) => Numbered(recent[j], Entry(entries, j), Options)
      /\ \A j \in Keys : Told(j)
      /\ EntriesInOrder
  BY DEF LimiterInv
<1>2. /\ entries' = w /\ clock' = clock /\ lastUse' = lastUse /\ retryAt' = retryAt
      /\ recent' = [recent EXCEPT ![k] = {}]
  BY DEF ResetKey, Reset
<1>3. /\ WellFormed(w, Keys)
      /\ \A j : Has(w, j) <=> Has(entries, j) /\ j # k
      /\ \A j : Has(w, j) => Entry(w, j) = Entry(entries, j)
      /\ Len(w) <= Len(entries)
  BY <1>1, WithoutIs
<1>4. \A x, y : InOrder(w, x, y) => InOrder(entries, x, y)
  BY <1>1, KeepOrder DEF Without
<1> HIDE DEF w
<1>5. recent' \in [Keys -> SUBSET ((1..Limit) \X Nat)]
  BY <1>1, <1>2
<1>6. recent'[k] = {} /\ \A j \in Keys \ {k} : recent'[j] = recent[j]
  BY <1>1, <1>2
<1>7. Len(w) <= MaxKeys
  <2>1. Len(w) \in Nat /\ Len(entries) \in Nat /\ MaxKeys \in Nat
    BY <1>1, <1>3, LenProperties, OptionsAssumption DEF WellFormed
  <2>2. QED
    BY <1>1, <1>3, <2>1
<1>8. ASSUME NEW j \in Keys
      PROVE  Tracks(recent'[j], w, j, Options, clock)
  <2>1. CASE j = k
    BY <1>3, <1>6, <2>1, OptionsAre, NothingTracks
  <2>2. CASE j # k
    <3>1. Tracks(recent[j], entries, j, Options, clock)
      BY <1>1
    <3>2. /\ Has(w, j) => Has(entries, j) /\ Entry(w, j) = Entry(entries, j)
          /\ Has(entries, j) => Has(w, j)
      BY <1>3, <2>2
    <3>3. Tracks(recent[j], w, j, Options, clock)
      BY <3>1, <3>2 DEF Tracks
    <3>4. QED
      BY <1>6, <2>2, <3>3
  <2>3. QED
    BY <2>1, <2>2
<1>9. ASSUME NEW j \in Keys, Has(w, j)
      PROVE  /\ Numbered(recent'[j], Entry(w, j), Options)
             /\ retryAt[j] # 0 => Entry(w, j).resetAt <= retryAt[j]
  <2>1. j # k /\ Has(entries, j) /\ Entry(w, j) = Entry(entries, j)
    BY <1>3, <1>9
  <2>2. Numbered(recent[j], Entry(entries, j), Options) /\ Told(j)
    BY <1>1, <2>1
  <2>3. QED
    BY <1>6, <2>1, <2>2 DEF Told
<1>10. ASSUME NEW j \in Keys
       PROVE  /\ Tracks(recent[j], entries, j, Options, clock)'
              /\ Has(entries, j)' => Numbered(recent[j], Entry(entries, j), Options)'
              /\ Told(j)'
  <2>1. (Has(entries, j)' <=> Has(w, j)) /\ Entry(entries, j)' = Entry(w, j)
    BY <1>2 DEF Has, Entry
  <2>2. Options' = Options
    BY DEF Options
  <2>3. QED
    BY <1>2, <1>8, <1>9, <2>1, <2>2
       DEF Tracks, WindowHolds, Rests, Timed, Opened, From, After, Earlier, Young, Numbered, Told
<1>11. EntriesInOrder'
  <2>1. \A x, y \in Keys : InOrder(w, x, y) => Precedes(lastUse, x, y)
    BY <1>1, <1>4 DEF EntriesInOrder
  <2>2. QED
    BY <1>2, <2>1 DEF EntriesInOrder, InOrder, Precedes
<1>12. WellFormed(entries, Keys)' /\ (Len(entries) <= MaxKeys)'
  BY <1>2, <1>3, <1>7 DEF WellFormed
<1>13. QED
  BY <1>1, <1>2, <1>5, <1>10, <1>11, <1>12 DEF LimiterInv

\* What is said of the entries does not depend on the clock.
LEMMA EntriesStay ==
  ASSUME UNCHANGED <<entries, recent, lastUse, retryAt>>
  PROVE  /\ \A j : Told(j)' = Told(j)
         /\ \A j : Has(entries, j)' = Has(entries, j)
         /\ \A j : Numbered(recent[j], Entry(entries, j), Options)'
                     = Numbered(recent[j], Entry(entries, j), Options)
         /\ EntriesInOrder' = EntriesInOrder
<1>1. \A j : Has(entries, j)' = Has(entries, j) /\ Entry(entries, j)' = Entry(entries, j)
  BY DEF Has, Entry
<1>2. \A j : Told(j)' = Told(j)
  BY <1>1 DEF Told
<1>3. \A j : Numbered(recent[j], Entry(entries, j), Options)'
               = Numbered(recent[j], Entry(entries, j), Options)
  BY <1>1 DEF Numbered, Opened, Options
<1>4. \A x, y : InOrder(entries, x, y)' = InOrder(entries, x, y)
  BY DEF InOrder
<1>5. \A x, y : Precedes(lastUse, x, y)' = Precedes(lastUse, x, y)
  BY DEF Precedes
<1>6. EntriesInOrder' = EntriesInOrder
  BY <1>4, <1>5 DEF EntriesInOrder
<1>7. QED
  BY <1>1, <1>2, <1>3, <1>6

LEMMA ClockInv ==
  ASSUME LimiterInv, ClockTick
  PROVE  LimiterInv'
<1>1. /\ clock' = clock + 1 /\ entries' = entries /\ recent' = recent
      /\ lastUse' = lastUse /\ retryAt' = retryAt /\ clock \in Nat
  BY DEF ClockTick, LimiterInv
<1>2. ASSUME NEW j \in Keys
      PROVE  Tracks(recent[j], entries, j, Options, clock)'
  <2>1. Tracks(recent[j], entries, j, Options, clock + 1)
    BY <1>1, OptionsAre, TimeHolds DEF LimiterInv
  <2>2. Options' = Options
    BY DEF Options
  <2>3. QED
    BY <1>1, <2>1, <2>2
       DEF Tracks, WindowHolds, Rests, Timed, Opened, From, After, Earlier, Young, Has, Entry
<1>3. ASSUME NEW j \in Keys
      PROVE  /\ Has(entries, j)' => Numbered(recent[j], Entry(entries, j), Options)'
             /\ Told(j)'
  BY <1>1, EntriesStay DEF LimiterInv
<1>4. EntriesInOrder'
  BY <1>1, EntriesStay DEF LimiterInv
<1>5. /\ clock' \in Nat
      /\ WellFormed(entries, Keys)' /\ (Len(entries) <= MaxKeys)'
      /\ recent' \in [Keys -> SUBSET ((1..Limit) \X Nat)]
      /\ lastUse' \in Seq(Keys) /\ retryAt' \in [Keys -> Nat]
  BY <1>1 DEF LimiterInv, WellFormed
<1>6. QED
  BY <1>2, <1>3, <1>4, <1>5 DEF LimiterInv

LEMMA LimiterStutters ==
  ASSUME LimiterInv, UNCHANGED limiterVars
  PROVE  LimiterInv'
<1>1. /\ clock' = clock /\ entries' = entries /\ recent' = recent
      /\ lastUse' = lastUse /\ retryAt' = retryAt
  BY DEF limiterVars
<1>2. /\ clock \in Nat /\ WellFormed(entries, Keys) /\ Len(entries) <= MaxKeys
      /\ recent \in [Keys -> SUBSET ((1..Limit) \X Nat)]
      /\ lastUse \in Seq(Keys) /\ retryAt \in [Keys -> Nat]
      /\ \A j \in Keys : Tracks(recent[j], entries, j, Options, clock)
      /\ \A j \in Keys : Has(entries, j) => Numbered(recent[j], Entry(entries, j), Options)
      /\ \A j \in Keys : Told(j)
      /\ EntriesInOrder
  BY DEF LimiterInv
<1>3. ASSUME NEW j \in Keys
      PROVE  Tracks(recent[j], entries, j, Options, clock)'
  <2>1. Tracks(recent[j], entries, j, Options, clock)
    BY <1>2
  <2>2. Options' = Options
    BY DEF Options
  <2>3. QED
    BY <1>1, <2>1, <2>2
       DEF Tracks, WindowHolds, Rests, Timed, Opened, From, After, Earlier, Young, Has, Entry
<1>4. ASSUME NEW j \in Keys
      PROVE  /\ Has(entries, j)' => Numbered(recent[j], Entry(entries, j), Options)'
             /\ Told(j)'
  BY <1>1, <1>2, EntriesStay
<1>5. EntriesInOrder'
  BY <1>1, <1>2, EntriesStay
<1>6. WellFormed(entries, Keys)'
  BY <1>1, <1>2 DEF WellFormed
<1>7. QED
  BY <1>1, <1>2, <1>3, <1>4, <1>5, <1>6 DEF LimiterInv

LEMMA LimiterStep ==
  ASSUME LimiterInv, [LimiterNext]_limiterVars
  PROVE  LimiterInv'
<1>1. CASE ClockTick
  BY <1>1, ClockInv
<1>2. ASSUME NEW k \in Keys, Request(k)
      PROVE  LimiterInv'
  BY <1>2, RequestInv
<1>3. ASSUME NEW k \in Keys, ResetKey(k)
      PROVE  LimiterInv'
  BY <1>3, ResetInv
<1>4. CASE UNCHANGED limiterVars
  BY <1>4, LimiterStutters
<1>5. QED
  BY <1>1, <1>2, <1>3, <1>4 DEF LimiterNext

LEMMA LimiterInvariance == LimiterSpec => []LimiterInv
BY LimiterStarts, LimiterStep, PTL DEF LimiterSpec


-----------------------------------------------------------------------------
(* Theorems about a limiter.                                               *)

LEMMA InvTypes == LimiterInv => LimiterTypeOK
<1> SUFFICES ASSUME LimiterInv PROVE LimiterTypeOK
  OBVIOUS
<1>1. WellFormed(entries, Keys) /\ \A k \in Keys : Tracks(recent[k], entries, k, Options, clock)
  BY DEF LimiterInv
<1>2. Len(entries) \in Nat /\ entries \in Seq(EntriesOf(Keys))
  BY <1>1, LenProperties DEF WellFormed
<1>3. ASSUME NEW i \in 1..Len(entries)
      PROVE  entries[i] \in [key : Keys, count : 1..Limit, resetAt : Nat]
  <2>1. /\ entries[i] \in EntriesOf(Keys) /\ Has(entries, entries[i].key)
        /\ Entry(entries, entries[i].key) = entries[i]
    BY <1>1, EntryIs
  <2>2. entries[i].key \in Keys
    BY <2>1 DEF EntriesOf
  <2>3. Tracks(recent[entries[i].key], entries, entries[i].key, Options, clock)
    BY <1>1, <2>2
  <2>4. WindowHolds(recent[entries[i].key], entries[i], Options, clock)
    BY <2>1, <2>3 DEF Tracks
  <2>5. entries[i].count \in 1..Limit
    BY <2>4, OptionsAre DEF WindowHolds
  <2>6. QED
    BY <2>1, <2>5 DEF EntriesOf
<1>4. entries \in Seq([key : Keys, count : 1..Limit, resetAt : Nat])
  <2>1. entries = [i \in 1..Len(entries) |-> entries[i]]
    BY <1>2, LenProperties
  <2>2. [i \in 1..Len(entries) |-> entries[i]]
          \in Seq([key : Keys, count : 1..Limit, resetAt : Nat])
    BY <1>2, <1>3
  <2>3. QED
    BY <2>1, <2>2
<1>5. QED
  BY <1>1, <1>4 DEF LimiterTypeOK, LimiterInv, WellFormed

\* The variables of a limiter keep their types: it has at most one entry for a
\* key and never more than it may have, and no count passes the limit.
THEOREM LimiterTypes == LimiterSpec => []LimiterTypeOK
<1>1. QED
  BY InvTypes, LimiterInvariance, PTL

LEMMA InvBounded == LimiterInv => SlidingBound
<1> SUFFICES ASSUME LimiterInv, NEW k \in Keys
             PROVE  Cardinality(Last(recent[k])) <= 2 * Limit - 1
  BY DEF SlidingBound
<1>1. /\ WellFormed(entries, Keys) /\ clock \in Nat
      /\ Tracks(recent[k], entries, k, Options, clock)
  BY DEF LimiterInv
<1>2. Last(recent[k]) = Young(recent[k], clock, Options.window)
  BY OptionsAre DEF Last, Young
<1>3. Cardinality(Young(recent[k], clock, Options.window)) <= 2 * Options.limit - 1
  BY <1>1, OptionsAre, TracksBounded
<1>4. QED
  BY <1>2, <1>3, OptionsAre

\* Whatever the limit, the window, the clients and their requests, at no time
\* has a client twice its limit of admissions behind it that are younger than a
\* window, but for what the limiter had to forget for want of room.
THEOREM AnyWindowIsBounded == LimiterSpec => []SlidingBound
<1>1. QED
  BY InvBounded, LimiterInvariance, PTL

LEMMA InvEnough == LimiterInv => RetryIsEnough
<1> SUFFICES ASSUME LimiterInv, NEW k \in Keys, retryAt[k] # 0, clock >= retryAt[k]
             PROVE  Consume(entries, k, clock, Options).allowed
  BY DEF RetryIsEnough
<1>1. /\ WellFormed(entries, Keys) /\ clock \in Nat /\ retryAt[k] \in Nat /\ Told(k)
  BY DEF LimiterInv
<1>2. ~ (Has(entries, k) /\ IsOpen(Entry(entries, k), clock))
  <2>1. SUFFICES ASSUME Has(entries, k) PROVE ~ IsOpen(Entry(entries, k), clock)
    OBVIOUS
  <2>2. Entry(entries, k).resetAt \in Nat /\ Entry(entries, k).resetAt <= retryAt[k]
    BY <1>1, <2>1, HasEntry DEF Told, EntriesOf
  <2>3. QED
    BY <1>1, <2>2 DEF IsOpen
<1>3. OpensWindow(Consume(entries, k, clock, Options), k, clock, Options)
  BY <1>1, <1>2, OptionsAre, ConsumeOpens
<1>4. QED
  BY <1>3 DEF OpensWindow

\* A client that waits until the time it was told is admitted, whatever the
\* unit of the clock, the rounding and the other clients do.
THEOREM WaitingIsEnough == LimiterSpec => []RetryIsEnough
<1>1. QED
  BY InvEnough, LimiterInvariance, PTL

LEMMA ForgottenIsOldest ==
  ASSUME LimiterInv, NEW r \in Keys, NEW j \in Keys, NEW k \in Keys,
         Request(r), j \in Forgotten(entries'), Counts(k), Has(entries', k)
  PROVE  Precedes(lastUse', j, k)
<1> DEFINE a == Consume(entries, r, clock, Options)
<1>1. entries' = a.entries /\ OthersStay(a, entries, Keys, r)
  BY RequestIs
<1>2. WellFormed(entries, Keys) /\ clock \in Nat /\ lastUse \in Seq(Keys) /\ EntriesInOrder
  BY DEF LimiterInv
<1>3. lastUse' = Used(lastUse, r)
  BY DEF Request, Used
<1>4. /\ lastUse' \in Seq(Keys)
      /\ \A x : x # r => Precedes(lastUse', x, r)
      /\ \A x, y : x # r /\ y # r /\ Precedes(lastUse, x, y) => Precedes(lastUse', x, y)
  BY <1>2, <1>3, UseOrder
<1>5. /\ Has(entries, j) /\ IsOpen(Entry(entries, j), clock) /\ ~ Has(a.entries, j)
      /\ Has(entries, k) /\ IsOpen(Entry(entries, k), clock) /\ Has(a.entries, k)
  BY <1>1 DEF Forgotten, Counts
<1>6. j # r /\ j # k
  BY <1>1, <1>5 DEF OthersStay
<1>7. CASE k = r
  BY <1>4, <1>6, <1>7
<1>8. CASE k # r
  <2>1. ~ InOrder(entries, k, j)
    BY <1>2, <1>5, <1>6, <1>8, OptionsAre, ConsumeOrder
  <2>2. InOrder(entries, j, k)
    BY <1>2, <1>5, <1>6, <2>1, OrderIsTotal
  <2>3. Precedes(lastUse, j, k)
    BY <1>2, <2>2 DEF EntriesInOrder
  <2>4. QED
    BY <1>4, <1>6, <1>8, <2>3
<1>9. QED
  BY <1>7, <1>8

\* Of the clients whose windows last, the one that is forgotten to make room
\* asked before all that stay.
THEOREM OldestIsForgotten == LimiterSpec => ForgetsLeastRecent
<1>1. ASSUME LimiterInv, [LimiterNext]_limiterVars
      PROVE  [\A r, j, k \in Keys :
                Request(r) /\ j \in Forgotten(entries') /\ Counts(k) /\ Has(entries', k) =>
                  \A m, n \in 1..Len(lastUse') :
                    lastUse'[m] = j /\ lastUse'[n] = k => m < n]_limiterVars
  BY <1>1, ForgottenIsOldest DEF Precedes
<1>2. QED
  BY <1>1, LimiterInvariance, PTL DEF LimiterSpec, ForgetsLeastRecent

\* The history has a member of its own for each admission, so that its size is
\* a number of requests.
EachAdmissionCounts ==
  [][\A k \in Keys :
       Request(k) /\ Consume(entries, k, clock, Options).allowed =>
         <<Entry(entries', k).count, clock>> \notin recent[k]]_limiterVars

LEMMA AdmissionIsNew ==
  ASSUME LimiterInv, NEW k \in Keys, Request(k), Consume(entries, k, clock, Options).allowed
  PROVE  <<Entry(entries', k).count, clock>> \notin recent[k]
<1> DEFINE a == Consume(entries, k, clock, Options)
           old == Entry(entries, k)
           new == Entry(entries', k)
<1>1. entries' = a.entries
  BY RequestIs
<1>2. /\ WellFormed(entries, Keys) /\ clock \in Nat
      /\ Tracks(recent[k], entries, k, Options, clock)
      /\ Has(entries, k) => Numbered(recent[k], old, Options)
  BY DEF LimiterInv
<1>3. CASE Has(entries, k) /\ IsOpen(old, clock)
  <2>1. CountsRequest(a, entries, k, clock, Options)
    BY <1>2, <1>3, OptionsAre, ConsumeCounted
  <2>2. old \in EntriesOf(Keys) /\ WindowHolds(recent[k], old, Options, clock)
    BY <1>2, <1>3, HasEntry DEF Tracks
  <2>3. new = [old EXCEPT !.count = old.count + 1]
    BY <1>1, <2>1 DEF CountsRequest
  <2>4. new.count = old.count + 1 /\ old.count \in Nat
    BY <2>2, <2>3 DEF EntriesOf
  <2> HIDE DEF old, new
  <2>5. clock >= Opened(old, Options)
    <3>1. Opened(old, Options) \in Int /\ Opened(old, Options) <= clock
      BY <2>2, OptionsAre, OptionsAssumption DEF WindowHolds, EntriesOf, Opened
    <3>2. QED
      BY <1>2, <3>1
  <2>6. ASSUME <<new.count, clock>> \in recent[k]
        PROVE  FALSE
    <3>1. new.count <= old.count
      BY <1>2, <1>3, <2>5, <2>6 DEF Numbered, old
    <3>2. QED
      BY <2>4, <3>1
  <2>7. QED
    BY <2>6 DEF new
<1>4. CASE ~ (Has(entries, k) /\ IsOpen(old, clock))
  <2>1. Rests(recent[k], Options, clock)
    <3>1. CASE ~ Has(entries, k)
      BY <1>2, <3>1 DEF Tracks
    <3>2. CASE Has(entries, k)
      <4>1. /\ old \in EntriesOf(Keys) /\ ~ (old.resetAt > clock)
            /\ Timed(recent[k]) /\ WindowHolds(recent[k], old, Options, clock)
        BY <1>2, <1>4, <3>2, HasEntry DEF Tracks, IsOpen
      <4>2. old.count \in Nat /\ old.resetAt \in Nat /\ old.resetAt <= clock
        BY <1>2, <4>1 DEF EntriesOf
      <4> HIDE DEF old
      <4>3. QED
        BY <1>2, <4>1, <4>2, OptionsAre, EndedRests
    <3>3. QED
      BY <3>1, <3>2
  <2>2. ~ (clock < clock)
    BY <1>2
  <2>3. \A x \in recent[k] : x[2] # clock
    BY <2>1, <2>2 DEF Rests
  <2> HIDE DEF new
  <2>4. QED
    BY <2>3 DEF new
<1>5. QED
  BY <1>3, <1>4

\* No admission is lost in the history of a limiter.
THEOREM HistoryIsExact == LimiterSpec => EachAdmissionCounts
<1>1. ASSUME LimiterInv, [LimiterNext]_limiterVars
      PROVE  [\A k \in Keys :
                Request(k) /\ Consume(entries, k, clock, Options).allowed =>
                  <<Entry(entries', k).count, clock>> \notin recent[k]]_limiterVars
  BY <1>1, AdmissionIsNew
<1>2. QED
  BY <1>1, LimiterInvariance, PTL DEF LimiterSpec, EachAdmissionCounts

-----------------------------------------------------------------------------
(* The limiter of the accounts an administrator may log in to.             *)

\* The limiter has room for an entry of every account.
AccountsFit == IsFiniteSet(Accounts) /\ Cardinality(Accounts) <= LoginAccountOptions.maxKeys

\* The entry of an account tells of its password checks.
AccountTold(a) == Tracks(attempts[a], accountEntries, a, LoginAccountOptions, now)

AccountsHold ==
  /\ now \in Nat
  /\ WellFormed(accountEntries, Accounts)
  /\ attempts = [a \in Accounts |-> attempts[a]]
  /\ AccountsFit => \A a \in Accounts : AccountTold(a)

LEMMA AccountOptionsAre == LoginAccountOptions \in LimiterOptions
BY AccountOptionsAssumption DEF LimiterOptions

LEMMA AccountsStart == Init => AccountsHold
<1> SUFFICES ASSUME Init PROVE AccountsHold
  OBVIOUS
<1> USE DEF Init
<1>1. WellFormed(accountEntries, Accounts)
  BY EmptySeq DEF WellFormed
<1>2. \A a : ~ Has(accountEntries, a)
  BY DEF Has
<1>3. \A a \in Accounts : AccountTold(a)
  BY <1>2, AccountOptionsAre, NothingTracks DEF AccountTold
<1>4. QED
  BY <1>1, <1>3 DEF AccountsHold

\* What a step leaves of the entries and the checks, it leaves of AccountsHold.
LEMMA AccountsKeep ==
  ASSUME NEW es, NEW times, NEW t \in Nat,
         WellFormed(es, Accounts), times = [a \in Accounts |-> times[a]],
         AccountsFit => \A a \in Accounts : Tracks(times[a], es, a, LoginAccountOptions, t),
         accountEntries' = es, attempts' = times, now' = t
  PROVE  AccountsHold'
<1>1. ASSUME AccountsFit, NEW a \in Accounts
      PROVE  AccountTold(a)'
  <2>1. Tracks(times[a], es, a, LoginAccountOptions, t)
    BY <1>1
  <2>2. QED
    BY <2>1 DEF AccountTold, Tracks, WindowHolds, Rests, Timed, Opened, From, After, Earlier,
                Young, Has, Entry
<1>2. now' \in Nat /\ WellFormed(accountEntries, Accounts)'
  BY DEF WellFormed
<1>3. (attempts = [a \in Accounts |-> attempts[a]])'
  OBVIOUS
<1>4. AccountsFit' = AccountsFit
  BY DEF AccountsFit
<1>5. QED
  BY <1>1, <1>2, <1>3, <1>4 DEF AccountsHold

LEMMA AccountsRest ==
  ASSUME AccountsHold, UNCHANGED <<now, accountEntries, attempts>>
  PROVE  AccountsHold'
<1>1. /\ now \in Nat /\ WellFormed(accountEntries, Accounts)
      /\ attempts = [a \in Accounts |-> attempts[a]]
      /\ AccountsFit => \A a \in Accounts :
           Tracks(attempts[a], accountEntries, a, LoginAccountOptions, now)
  BY DEF AccountsHold, AccountTold
<1>2. QED
  BY <1>1, AccountsKeep

LEMMA AccountsTick ==
  ASSUME AccountsHold, Tick
  PROVE  AccountsHold'
<1>1. /\ now \in Nat /\ WellFormed(accountEntries, Accounts)
      /\ attempts = [a \in Accounts |-> attempts[a]]
      /\ AccountsFit => \A a \in Accounts :
           Tracks(attempts[a], accountEntries, a, LoginAccountOptions, now)
  BY DEF AccountsHold, AccountTold
<1>2. /\ accountEntries' = accountEntries /\ attempts' = attempts
      /\ now' = now + 1 /\ now + 1 \in Nat
  BY <1>1 DEF Tick, limiters
<1>3. AccountsFit => \A a \in Accounts :
        Tracks(attempts[a], accountEntries, a, LoginAccountOptions, now + 1)
  BY <1>1, AccountOptionsAre, TimeHolds
<1>4. QED
  BY <1>1, <1>2, <1>3, AccountsKeep

\* A login asks the limiter of its account, also when the password is not
\* checked after all: then the entry counts one check too many.
LEMMA AccountsAsk ==
  ASSUME AccountsHold, NEW c \in LoginCalls, NEW ip \in Clients, NEW name \in Accounts,
         Login(c, ip, name)
  PROVE  AccountsHold'
<1> DEFINE o == LoginAccountOptions
           a == Consume(accountEntries, name, now, o)
           x == <<c, now>>
<1>1. /\ now \in Nat /\ WellFormed(accountEntries, Accounts)
      /\ attempts = [b \in Accounts |-> attempts[b]]
      /\ AccountsFit => \A b \in Accounts : Tracks(attempts[b], accountEntries, b, o, now)
  BY DEF AccountsHold, AccountTold
<1>2. o \in LimiterOptions /\ x[2] = now
  BY AccountOptionsAre
<1>3. /\ accountEntries' = a.entries /\ now' = now
      /\ \/ a.allowed /\ attempts' = [attempts EXCEPT ![name] = @ \cup {x}]
         \/ attempts' = attempts
  BY DEF Login
<1>4. OthersStay(a, accountEntries, Accounts, name)
  BY <1>1, <1>2, ConsumeCounted, ConsumeOpens
<1>5. AccountsFit => OpenStay(a, accountEntries, now)
  BY <1>1, <1>2, ConsumeCounted, ConsumeOpens DEF AccountsFit
<1>6. WellFormed(a.entries, Accounts)
  BY <1>4 DEF OthersStay
<1>7. /\ attempts' = [b \in Accounts |-> attempts'[b]]
      /\ \A b \in Accounts \ {name} : attempts'[b] = attempts[b]
      /\ \/ a.allowed /\ attempts'[name] = attempts[name] \cup {x}
         \/ attempts'[name] = attempts[name]
  BY <1>1, <1>3
<1> HIDE DEF o, x
<1>8. ASSUME AccountsFit, NEW b \in Accounts
      PROVE  Tracks(attempts'[b], a.entries, b, o, now)
  <2>1. Tracks(attempts[b], accountEntries, b, o, now)
    BY <1>1, <1>8
  <2>2. CASE b = name
    <3>1. IF a.allowed THEN Tracks(attempts[b] \cup {x}, a.entries, b, o, now)
                       ELSE Tracks(attempts[b], a.entries, b, o, now)
      BY <1>1, <1>2, <2>1, <2>2, AskingHolds
    <3> HIDE DEF a
    <3>2. CASE a.allowed /\ attempts'[b] = attempts[b] \cup {x}
      BY <3>1, <3>2
    <3>3. CASE attempts'[b] = attempts[b]
      <4>1. CASE a.allowed
        <5>1. attempts[b] \in SUBSET (attempts[b] \cup {x})
          OBVIOUS
        <5>2. Tracks(attempts[b] \cup {x}, a.entries, b, o, now)
          BY <3>1, <4>1
        <5>3. Tracks(attempts[b], a.entries, b, o, now)
          BY <1>1, <1>2, <1>6, <5>1, <5>2, TracksFewer
        <5>4. QED
          BY <3>3, <5>3
      <4>2. CASE ~ a.allowed
        BY <3>1, <3>3, <4>2
      <4>3. QED
        BY <4>1, <4>2
    <3>4. QED
      BY <1>7, <2>2, <3>2, <3>3
  <2>3. CASE b # name
    <3>1. Has(accountEntries, b) /\ IsOpen(Entry(accountEntries, b), now) => Has(a.entries, b)
      BY <1>5, <1>8 DEF OpenStay
    <3>2. Tracks(attempts[b], a.entries, b, o, now)
      BY <1>1, <1>2, <2>1, <2>3, <3>1, WaitingHolds
    <3>3. attempts'[b] = attempts[b]
      BY <1>7, <2>3
    <3>4. QED
      BY <3>2, <3>3
  <2>4. QED
    BY <2>2, <2>3
<1>9. QED
  <2> HIDE DEF a
  <2>1. AccountsFit => \A b \in Accounts :
          Tracks(attempts'[b], a.entries, b, LoginAccountOptions, now)
    BY <1>8 DEF o
  <2> DEFINE times == [b \in Accounts |-> attempts'[b]]
  <2>2. /\ times = [b \in Accounts |-> times[b]] /\ attempts' = times
        /\ \A b \in Accounts : times[b] = attempts'[b]
    BY <1>7
  <2> HIDE DEF times
  <2>3. AccountsFit => \A b \in Accounts :
          Tracks(times[b], a.entries, b, LoginAccountOptions, now)
    BY <2>1, <2>2
  <2>4. QED
    BY <1>1, <1>3, <1>6, <2>2, <2>3, AccountsKeep

\* A login that succeeds: its account has neither entry nor checks any more.
LEMMA AccountsReset ==
  ASSUME AccountsHold, NEW c \in LoginCalls, Authenticated(c)
  PROVE  AccountsHold'
<1> DEFINE w == Without(accountEntries, account[c])
           times == [attempts EXCEPT ![account[c]] = {}]
<1>1. /\ now \in Nat /\ WellFormed(accountEntries, Accounts)
      /\ attempts = [b \in Accounts |-> attempts[b]]
      /\ AccountsFit => \A b \in Accounts :
           Tracks(attempts[b], accountEntries, b, LoginAccountOptions, now)
  BY DEF AccountsHold, AccountTold
<1>2. accountEntries' = w /\ attempts' = times /\ now' = now
  BY DEF Authenticated, Reset
<1>3. /\ WellFormed(w, Accounts)
      /\ \A b : Has(w, b) <=> Has(accountEntries, b) /\ b # account[c]
      /\ \A b : Has(w, b) => Entry(w, b) = Entry(accountEntries, b)
  BY <1>1, WithoutIs
<1>4. /\ times = [b \in Accounts |-> times[b]]
      /\ \A b \in Accounts : times[b] = IF b = account[c] THEN {} ELSE attempts[b]
  BY <1>1
<1> HIDE DEF w, times
<1>5. ASSUME AccountsFit, NEW b \in Accounts
      PROVE  Tracks(times[b], w, b, LoginAccountOptions, now)
  <2>1. CASE b = account[c]
    BY <1>3, <1>4, <2>1, AccountOptionsAre, NothingTracks
  <2>2. CASE b # account[c]
    <3>1. Tracks(attempts[b], accountEntries, b, LoginAccountOptions, now)
      BY <1>1, <1>5
    <3>2. /\ Has(w, b) => Has(accountEntries, b) /\ Entry(w, b) = Entry(accountEntries, b)
          /\ Has(accountEntries, b) => Has(w, b)
      BY <1>3, <2>2
    <3>3. QED
      BY <1>4, <2>2, <3>1, <3>2 DEF Tracks
  <2>3. QED
    BY <2>1, <2>2
<1>6. QED
  BY <1>1, <1>2, <1>3, <1>4, <1>5, AccountsKeep

LEMMA AccountsStep ==
  ASSUME AccountsHold, [Next]_vars
  PROVE  AccountsHold'
<1>1. CASE Tick
  BY <1>1, AccountsTick
<1>2. CASE UNCHANGED vars
  BY <1>2, AccountsRest DEF vars
<1>3. ASSUME NEW c \in IssueCalls,
             (\E ip \in Clients : Issue(c, ip)) \/ Issued(c) \/ IssueEnds(c)
      PROVE  AccountsHold'
  <2>1. UNCHANGED <<now, accountEntries, attempts>>
    BY <1>3 DEF Issue, Issued, IssueEnds, limiters
  <2>2. QED
    BY <2>1, AccountsRest
<1>4. ASSUME NEW c \in LoginCalls,
             \/ \E ip \in Clients, name \in Accounts : Login(c, ip, name)
             \/ Authenticated(c) \/ NotAuthenticated(c)
      PROVE  AccountsHold'
  <2>1. CASE NotAuthenticated(c)
    BY <2>1, AccountsRest DEF NotAuthenticated, limiters
  <2>2. QED
    BY <1>4, <2>1, AccountsAsk, AccountsReset
<1>5. ASSUME NEW c \in ScanCalls,
             \/ \E ip \in Clients : Scan(c, ip)
             \/ ClientGone(c) \/ Summarize(c) \/ ScanEnds(c) \/ SummaryEnds(c)
      PROVE  AccountsHold'
  <2>1. UNCHANGED <<now, accountEntries, attempts>>
    BY <1>5 DEF Scan, ClientGone, Summarize, ScanEnds, SummaryEnds, limiters
  <2>2. QED
    BY <2>1, AccountsRest
<1>6. QED
  BY <1>1, <1>2, <1>3, <1>4, <1>5 DEF Next

LEMMA AccountsInvariance == Spec => []AccountsHold
BY AccountsStart, AccountsStep, PTL DEF Spec

LEMMA AccountsBounded == AccountsHold => ChecksBounded
<1> SUFFICES ASSUME AccountsHold, AccountsFit, NEW a \in Accounts
             PROVE  Cardinality({t \in attempts[a] : t[2] + LoginAccountOptions.window > now})
                      <= 2 * LoginAccountOptions.limit - 1
  BY DEF ChecksBounded, AccountsFit
<1>1. /\ WellFormed(accountEntries, Accounts) /\ now \in Nat
      /\ Tracks(attempts[a], accountEntries, a, LoginAccountOptions, now)
  BY DEF AccountsHold, AccountTold
<1>2. Cardinality(Young(attempts[a], now, LoginAccountOptions.window))
        <= 2 * LoginAccountOptions.limit - 1
  BY <1>1, AccountOptionsAre, TracksBounded
<1>3. QED
  BY <1>2 DEF Young

\* However many clients take part and however many logins run at a time, an
\* account that does not log in has less than twice its limit of passwords
\* checked in any span as long as a window, for any number of accounts that the
\* limiter can remember: it never forgets an open entry then, and what a login
\* counts before another limiter or the gate refuses it only tightens the bound.
THEOREM ChecksAreBounded == Spec => []ChecksBounded
<1>1. QED
  BY AccountsBounded, AccountsInvariance, PTL

===============================================================================
