------------------------ MODULE SourceCollectionProofs ------------------------
(***************************************************************************)
(* Proofs about SourceCollection, for all commits, policies and limits.    *)
(*                                                                         *)
(* The argument: while the coverage is complete, the directories that were *)
(* read, with those queued, are all that are named in the ones read, what  *)
(* is eligible are their files, and nothing in them is hidden.  So when    *)
(* the queue is empty they are all directories, and when every batch was   *)
(* taken the files collected are all files of the commit.  Whatever makes  *)
(* the coverage incomplete, on the other hand, is a reason in the commit,  *)
(* an interruption, or a file that was not given.                          *)
(***************************************************************************)
EXTENDS SourceCollection, FiniteSetTheorems, SequenceTheorems, WellFoundedInduction, TLAPS

-----------------------------------------------------------------------------
(* Induction up to a number.                                               *)

LEMMA Smallest ==
  ASSUME NEW T \in SUBSET Nat, T # {}
  PROVE  \E n \in T : \A m \in T : n <= m
<1> DEFINE R == OpToRel(<, Nat)
<1>1. IsWellFoundedOn(R, Nat)
  BY NatLessThanWellFounded
<1>2. \A p, q \in Nat : p < q => <<p, q>> \in R
  BY DEF OpToRel
<1> HIDE DEF R
<1>3. \E n \in T : \A m \in T : ~ (<<m, n>> \in R)
  BY <1>1, WFMin
<1>4. PICK n \in T : \A m \in T : ~ (<<m, n>> \in R)
  BY <1>3
<1>5. \A m \in T : ~ (m < n)
  BY <1>2, <1>4
<1>6. n \in Nat /\ \A m \in T : m \in Nat
  OBVIOUS
<1>7. QED
  BY <1>5, <1>6

\* What holds of 0, and of n + 1 whenever of n, holds up to N.
LEMMA NatUpTo ==
  ASSUME NEW N \in Nat, NEW T \in SUBSET (0..N), 0 \in T,
         \A n \in 0..(N - 1) : n \in T => n + 1 \in T
  PROVE  T = 0..N
<1> DEFINE M == (0..N) \ T
<1>1. SUFFICES ASSUME M # {} PROVE FALSE
  OBVIOUS
<1>2. M \in SUBSET Nat
  OBVIOUS
<1>3. PICK n \in M : \A m \in M : n <= m
  BY <1>1, <1>2, Smallest
<1>4. n \in 1..N
  BY <1>3
<1>5. n - 1 \in 0..(N - 1) /\ (n - 1) + 1 = n /\ ~ (n <= n - 1)
  BY <1>4
<1>6. n - 1 \in T
  BY <1>3, <1>5
<1>7. QED
  BY <1>3, <1>5, <1>6

-----------------------------------------------------------------------------
(* The elements of a finite set in the order of their ranks.               *)

LEMMA PartIs ==
  ASSUME NEW A, NEW B, IsFiniteSet(B), A \subseteq B
  PROVE  /\ IsFiniteSet(A) /\ Cardinality(A) \in Nat /\ Cardinality(B) \in Nat
         /\ Cardinality(A) <= Cardinality(B)
BY FS_Subset, FS_CardinalityType

LEMMA InOrderIs ==
  ASSUME NEW S, IsFiniteSet(S), NEW rank \in [S -> Nat],
         \A x, y \in S : x # y => rank[x] # rank[y]
  PROVE  /\ Cardinality(S) \in Nat
         /\ InOrder(S, rank) \in [1..Cardinality(S) -> S]
         /\ \A x \in S : \E k \in 1..Cardinality(S) : InOrder(S, rank)[k] = x
         /\ \A k, m \in 1..Cardinality(S) :
              InOrder(S, rank)[k] = InOrder(S, rank)[m] => k = m
<1> DEFINE n == Cardinality(S)
           below(x) == {y \in S : rank[y] < rank[x]}
           place == [x \in S |-> Cardinality(below(x)) + 1]
           s == InOrder(S, rank)
<1>1. n \in Nat
  BY FS_CardinalityType
<1>2. ASSUME NEW x \in S
      PROVE  /\ Cardinality(below(x)) \in 0..(n - 1) /\ IsFiniteSet(below(x))
             /\ x \notin below(x)
  <2>1. x \notin below(x) /\ below(x) \subseteq S \ {x}
    OBVIOUS
  <2>2. IsFiniteSet(S \ {x}) /\ Cardinality(S \ {x}) = n - 1
    BY FS_RemoveElement
  <2>3. QED
    BY <1>1, <2>1, <2>2, PartIs
<1>3. ASSUME NEW x \in S, NEW y \in S, rank[x] < rank[y]
      PROVE  Cardinality(below(x)) < Cardinality(below(y))
  <2>1. below(x) \cup {x} \subseteq below(y)
    BY <1>3
  <2>2. Cardinality(below(x) \cup {x}) = Cardinality(below(x)) + 1
    BY <1>2, FS_AddElement
  <2>3. Cardinality(below(x) \cup {x}) <= Cardinality(below(y))
    BY <1>2, <2>1, PartIs
  <2> HIDE DEF below
  <2>4. QED
    BY <1>2, <2>2, <2>3
<1>4. ASSUME NEW x \in S, NEW y \in S, Cardinality(below(x)) = Cardinality(below(y))
      PROVE  x = y
  <2>1. Cardinality(below(x)) \in Nat /\ Cardinality(below(y)) \in Nat
    BY <1>1, <1>2
  <2>2. ~ (rank[x] < rank[y]) /\ ~ (rank[y] < rank[x])
    BY <1>3, <1>4, <2>1
  <2>3. QED
    BY <2>2
<1> DEFINE c(x) == Cardinality(below(x))
<1>5. \A x \in S : c(x) \in 0..(n - 1)
  BY <1>2
<1>6. \A x, y \in S : c(x) = c(y) => x = y
  BY <1>4
<1>7. s = [k \in 1..n |-> CHOOSE x \in S : c(x) = k - 1]
  BY DEF InOrder
<1>8. \A x \in S : place[x] = c(x) + 1
  OBVIOUS
<1> HIDE DEF below, c, s, place
<1>9. place \in Injection(S, 1..n)
  <2>1. place \in [S -> 1..n]
    BY <1>1, <1>5 DEF place, c
  <2>2. \A x, y \in S : place[x] = place[y] => x = y
    BY <1>1, <1>5, <1>6, <1>8
  <2>3. QED
    BY <2>1, <2>2 DEF Injection, IsInjective
<1>10. IsFiniteSet(1..n) /\ Cardinality(1..n) = n
  BY <1>1, FS_Interval
<1>11. place \in Surjection(S, 1..n)
  BY <1>9, <1>10, FS_Injection DEF n
<1>12. ASSUME NEW k \in 1..n
       PROVE  s[k] \in S /\ place[s[k]] = k
  <2>1. PICK x \in S : place[x] = k
    BY <1>11 DEF Surjection
  <2>2. c(x) = k - 1
    BY <1>1, <1>5, <1>8, <2>1
  <2>3. s[k] = CHOOSE y \in S : c(y) = k - 1
    BY <1>7
  <2>4. s[k] \in S /\ c(s[k]) = k - 1
    BY <2>2, <2>3
  <2>5. QED
    BY <1>8, <2>4
<1>13. ASSUME NEW x \in S
       PROVE  \E k \in 1..n : s[k] = x
  <2>1. c(x) + 1 \in 1..n
    BY <1>1, <1>5
  <2>2. place[s[c(x) + 1]] = place[x] /\ s[c(x) + 1] \in S
    BY <1>8, <1>12, <2>1
  <2>3. s[c(x) + 1] = x
    BY <1>9, <2>2 DEF Injection, IsInjective
  <2>4. QED
    BY <2>1, <2>3
<1>14. s \in [1..n -> S]
  BY <1>7, <1>12
<1>15. \A k, m \in 1..n : s[k] = s[m] => k = m
  BY <1>12
<1>16. QED
  BY <1>1, <1>13, <1>14, <1>15 DEF n, s

\* ts are the n entries of es that are trees, each once; at tells where.
TreesAt(ts, es, n, at) ==
  /\ ts = [k \in 1..n |-> es[at[k]]]
  /\ \A k, m \in 1..n : at[k] = at[m] => k = m
  /\ \A k \in 1..n : at[k] \in 1..Len(es) /\ es[at[k]].kind = "tree"
  /\ \A i \in 1..Len(es) : es[i].kind = "tree" => \E k \in 1..n : at[k] = i

LEMMA TreesAre ==
  ASSUME NEW T, NEW es \in Seq(T)
  PROVE  \E n \in Nat : \E at : TreesAt(Trees(es), es, n, at)
<1> DEFINE places == {i \in 1..Len(es) : es[i].kind = "tree"}
           rank == [i \in places |-> i]
           at == InOrder(places, rank)
           n == Cardinality(places)
<1>1. Len(es) \in Nat
  BY LenProperties
<1>2. IsFiniteSet(places)
  <2>1. IsFiniteSet(1..Len(es))
    BY <1>1, FS_Interval
  <2>2. places \subseteq 1..Len(es)
    OBVIOUS
  <2> HIDE DEF places
  <2>3. QED
    BY <2>1, <2>2, PartIs
<1>3. rank \in [places -> Nat] /\ \A x, y \in places : x # y => rank[x] # rank[y]
  BY <1>1
<1>4. Trees(es) = [k \in 1..n |-> es[at[k]]]
  BY DEF Trees
<1>5. places \subseteq 1..Len(es) /\ \A i \in places : es[i].kind = "tree"
  OBVIOUS
<1>6. \A i \in 1..Len(es) : es[i].kind = "tree" => i \in places
  OBVIOUS
<1> HIDE DEF places, rank
<1>7. /\ n \in Nat /\ at \in [1..n -> places]
      /\ \A x \in places : \E k \in 1..n : at[k] = x
      /\ \A k, m \in 1..n : at[k] = at[m] => k = m
  BY <1>2, <1>3, InOrderIs
<1> HIDE DEF at, n
<1>8. at \in [1..n -> 1..Len(es)] /\ \A k \in 1..n : es[at[k]].kind = "tree"
  BY <1>5, <1>7
<1>9. \A i \in 1..Len(es) : es[i].kind = "tree" => \E k \in 1..n : at[k] = i
  BY <1>6, <1>7
<1>10. TreesAt(Trees(es), es, n, at)
  BY <1>4, <1>7, <1>8, <1>9 DEF TreesAt
<1>11. QED
  BY <1>7, <1>10

-----------------------------------------------------------------------------
(* Taking the blobs of a batch.                                            *)

Blobs == [dir : DOMAIN commit, entry : EntryType]
Sums == [total : Nat, files : Seq(Blobs), failed : Nat, incomplete : BOOLEAN]

\* The elements of a sequence.
LEMMA Listed ==
  ASSUME NEW S, NEW s \in Seq(S)
  PROVE  /\ Len(s) \in Nat /\ DOMAIN s = 1..Len(s)
         /\ ToSet(s) = {s[i] : i \in 1..Len(s)} /\ ToSet(s) \subseteq S
         /\ \A x \in S : Append(s, x) \in Seq(S) /\ ToSet(Append(s, x)) = ToSet(s) \cup {x}
                           /\ Len(Append(s, x)) = Len(s) + 1
<1>1. /\ Len(s) \in Nat /\ DOMAIN s = 1..Len(s) /\ \A i \in 1..Len(s) : s[i] \in S
      /\ ToSet(s) = {s[i] : i \in 1..Len(s)}
  BY LenProperties, ElementOfSeq DEF ToSet
<1>2. ASSUME NEW x \in S
      PROVE  /\ Append(s, x) \in Seq(S) /\ ToSet(Append(s, x)) = ToSet(s) \cup {x}
             /\ Len(Append(s, x)) = Len(s) + 1
  <2> DEFINE t == Append(s, x)
  <2>1. /\ t \in Seq(S) /\ Len(t) = Len(s) + 1 /\ t[Len(s) + 1] = x
        /\ \A i \in 1..Len(s) : t[i] = s[i]
    BY <1>1, AppendProperties
  <2> HIDE DEF t
  <2>2. ToSet(t) = {t[i] : i \in 1..(Len(s) + 1)}
    BY <2>1, LenProperties DEF ToSet
  <2>3. ToSet(t) = ToSet(s) \cup {x}
    BY <1>1, <2>1, <2>2
  <2>4. QED
    BY <2>1, <2>3 DEF t
<1>3. QED
  BY <1>1, <1>2

\* What taking one more blob does.
Kept(more, sum, blob) ==
  /\ blob # None /\ blob \in Blobs
  /\ ToSet(more.files) = ToSet(sum.files) \cup {blob}
  /\ Len(more.files) = Len(sum.files) + 1 /\ more.failed = sum.failed
  /\ more.incomplete = sum.incomplete

NotKept(more, sum) ==
  more.files = sum.files /\ more.failed = sum.failed + 1 /\ more.incomplete = TRUE

LEMMA TakeIs ==
  ASSUME NEW sum \in Sums, NEW blob \in Blobs \cup {None},
         NEW more, more = Take(sum, blob)
  PROVE  /\ more \in Sums
         /\ sum.total <= MaxTotalBytes => more.total <= MaxTotalBytes
         /\ Kept(more, sum, blob) \/ NotKept(more, sum)
<1>1. /\ sum.total \in Nat /\ sum.files \in Seq(Blobs) /\ sum.failed \in Nat
      /\ sum.incomplete \in BOOLEAN /\ MaxTotalBytes \in Nat
  BY LimitsAssumption DEF Sums
<1>2. CASE blob = None \/ sum.total + (IF blob = None THEN 0 ELSE blob.entry.size) > MaxTotalBytes
  <2>1. more = [sum EXCEPT !.failed = sum.failed + 1, !.incomplete = TRUE]
    BY <1>2 DEF Take
  <2>2. more = [total |-> sum.total, files |-> sum.files, failed |-> sum.failed + 1,
                incomplete |-> TRUE]
    BY <2>1 DEF Sums
  <2>3. more \in Sums
    BY <1>1, <2>2 DEF Sums
  <2>4. QED
    BY <2>2, <2>3 DEF NotKept
<1>3. CASE ~ (blob = None \/ sum.total + (IF blob = None THEN 0 ELSE blob.entry.size) > MaxTotalBytes)
  <2>1. blob # None /\ ~ (sum.total + blob.entry.size > MaxTotalBytes) /\ blob \in Blobs
    BY <1>3
  <2>2. blob.entry.size \in Nat
    BY <2>1 DEF Blobs, EntryType
  <2>3. more = [sum EXCEPT !.total = sum.total + blob.entry.size,
                           !.files = Append(sum.files, blob)]
    BY <1>3 DEF Take
  <2>4. more = [total |-> sum.total + blob.entry.size, files |-> Append(sum.files, blob),
                failed |-> sum.failed, incomplete |-> sum.incomplete]
    BY <2>3 DEF Sums
  <2>5. /\ Append(sum.files, blob) \in Seq(Blobs)
        /\ ToSet(Append(sum.files, blob)) = ToSet(sum.files) \cup {blob}
        /\ Len(Append(sum.files, blob)) = Len(sum.files) + 1
    BY <1>1, <2>1, Listed
  <2>6. more.total \in Nat /\ more.total <= MaxTotalBytes
    BY <1>1, <2>1, <2>2, <2>4
  <2>7. more \in Sums
    BY <1>1, <2>2, <2>4, <2>5 DEF Sums
  <2>8. QED
    BY <2>1, <2>4, <2>5, <2>6, <2>7 DEF Kept
<1>4. QED
  BY <1>2, <1>3

\* f counts up to n: what has been taken of the first i blobs.
Takes(f, n, sum, blobs) ==
  \A i \in 0..n : f[i] = IF i = 0 THEN sum ELSE Take(f[i - 1], blobs[i])

LEMMA TakesExists ==
  ASSUME NEW sum \in Sums, NEW blobs \in Seq(Blobs \cup {None})
  PROVE  \E f \in [0..Len(blobs) -> Sums] : Takes(f, Len(blobs), sum, blobs)
<1> DEFINE N == Len(blobs)
           T == {n \in 0..N : \E f \in [0..n -> Sums] : Takes(f, n, sum, blobs)}
<1>1. N \in Nat
  BY LenProperties
<1>2. 0 \in T
  <2>1. [i \in 0..0 |-> sum] \in [0..0 -> Sums]
    OBVIOUS
  <2>2. Takes([i \in 0..0 |-> sum], 0, sum, blobs)
    BY DEF Takes
  <2>3. \E f \in [0..0 -> Sums] : Takes(f, 0, sum, blobs)
    BY <2>1, <2>2, Zenon
  <2>4. QED
    BY <1>1, <2>3
<1>3. ASSUME NEW n \in 0..(N - 1), n \in T
      PROVE  n + 1 \in T
  <2>1. PICK f \in [0..n -> Sums] : Takes(f, n, sum, blobs)
    BY <1>3
  <2>2. n \in Nat /\ n + 1 \in 1..N /\ (n + 1) - 1 = n
    BY <1>1
  <2>3. blobs[n + 1] \in Blobs \cup {None}
    BY <2>2, ElementOfSeq
  <2> DEFINE next == Take(f[n], blobs[n + 1])
             g == [i \in 0..(n + 1) |-> IF i = n + 1 THEN next ELSE f[i]]
  <2>4. f[n] \in Sums
    BY <2>2
  <2>5. next \in Sums
    BY <2>3, <2>4, TakeIs
  <2> HIDE DEF next
  <2>6. g \in [0..(n + 1) -> Sums]
    BY <2>2, <2>5
  <2>7. /\ \A i \in 0..n : g[i] = f[i]
        /\ g[n + 1] = next
    BY <2>2
  <2> HIDE DEF g
  <2>8. ASSUME NEW i \in 0..(n + 1)
        PROVE  g[i] = IF i = 0 THEN sum ELSE Take(g[i - 1], blobs[i])
    <3>1. CASE i = n + 1
      BY <2>2, <2>7, <3>1 DEF next
    <3>2. CASE i \in 0..n
      <4>1. i # 0 => i - 1 \in 0..n
        BY <2>2, <3>2
      <4>2. QED
        BY <2>1, <2>7, <3>2, <4>1 DEF Takes
    <3>3. QED
      BY <2>2, <3>1, <3>2
  <2>9. Takes(g, n + 1, sum, blobs)
    BY <2>8 DEF Takes
  <2>10. QED
    BY <1>1, <2>2, <2>6, <2>9
<1> HIDE DEF T
<1>4. T \in SUBSET (0..N)
  BY DEF T
<1>5. T = 0..N
  BY <1>1, <1>2, <1>3, <1>4, NatUpTo
<1>6. N \in T
  BY <1>1, <1>5
<1>7. QED
  BY <1>6 DEF T

\* What has been taken when k blobs were: nothing but them, each of them if the
\* coverage is complete, and a reason if it is not complete any more.
TookUpTo(now, k, sum, blobs) ==
  /\ now \in Sums
  /\ sum.total <= MaxTotalBytes => now.total <= MaxTotalBytes
  /\ ToSet(sum.files) \subseteq ToSet(now.files)
  /\ \A x \in ToSet(now.files) :
       x \in ToSet(sum.files) \/ \E i \in 1..k : x = blobs[i] /\ x # None
  /\ Len(now.files) + now.failed = Len(sum.files) + sum.failed + k
  /\ sum.failed <= now.failed
  /\ sum.incomplete => now.incomplete
  /\ now.incomplete => sum.incomplete \/ now.failed > 0
  /\ ~ now.incomplete => \A i \in 1..k : blobs[i] # None /\ blobs[i] \in ToSet(now.files)

LEMMA OneMore ==
  ASSUME NEW a \in Nat, NEW f \in Nat, NEW b \in Nat, NEW g \in Nat, NEW k \in Nat,
         a + f = b + g + k, g <= f
  PROVE  /\ (a + 1) + f = b + g + (k + 1) /\ a + (f + 1) = b + g + (k + 1)
         /\ g <= f + 1 /\ f + 1 > 0
OBVIOUS

LEMMA TookOneMore ==
  ASSUME NEW sum \in Sums, NEW blobs \in Seq(Blobs \cup {None}), NEW k \in 0..(Len(blobs) - 1),
         NEW now, TookUpTo(now, k, sum, blobs), NEW more, more = Take(now, blobs[k + 1])
  PROVE  TookUpTo(more, k + 1, sum, blobs)
<1>1. /\ Len(blobs) \in Nat /\ k \in Nat /\ k + 1 \in 1..Len(blobs)
      /\ blobs[k + 1] \in Blobs \cup {None} /\ 1..(k + 1) = (1..k) \cup {k + 1}
  BY Listed
<1>2. /\ now \in Sums
      /\ Len(now.files) + now.failed = Len(sum.files) + sum.failed + k
      /\ sum.failed <= now.failed
  BY DEF TookUpTo
<1>3. /\ more \in Sums
      /\ now.total <= MaxTotalBytes => more.total <= MaxTotalBytes
      /\ Kept(more, now, blobs[k + 1]) \/ NotKept(more, now)
  BY <1>1, <1>2, TakeIs
<1>4. /\ Len(now.files) \in Nat /\ Len(sum.files) \in Nat
      /\ now.failed \in Nat /\ sum.failed \in Nat
  BY <1>2, Listed DEF Sums
<1> DEFINE a == Len(now.files)
           f == now.failed
           b == Len(sum.files)
           g == sum.failed
<1>5. /\ (Len(now.files) + 1) + now.failed = Len(sum.files) + sum.failed + (k + 1)
      /\ Len(now.files) + (now.failed + 1) = Len(sum.files) + sum.failed + (k + 1)
      /\ sum.failed <= now.failed + 1 /\ now.failed + 1 > 0
  <2>1. /\ a + f = b + g + k /\ g <= f
        /\ a \in Nat /\ b \in Nat /\ f \in Nat /\ g \in Nat /\ k \in Nat
    BY <1>1, <1>2, <1>4
  <2> HIDE DEF a, b, f, g
  <2>2. /\ (a + 1) + f = b + g + (k + 1) /\ a + (f + 1) = b + g + (k + 1)
        /\ g <= f + 1 /\ f + 1 > 0
    BY <2>1, OneMore
  <2>3. QED
    BY <2>2 DEF a, b, f, g
<1>6. CASE Kept(more, now, blobs[k + 1])
  <2>1. /\ Len(more.files) = Len(now.files) + 1 /\ more.failed = now.failed
        /\ more.incomplete = now.incomplete /\ blobs[k + 1] # None
        /\ ToSet(more.files) = ToSet(now.files) \cup {blobs[k + 1]}
    BY <1>6 DEF Kept
  <2>2. Len(more.files) + more.failed = Len(sum.files) + sum.failed + (k + 1)
    BY <1>5, <2>1
  <2>3. \A x \in ToSet(more.files) :
          x \in ToSet(sum.files) \/ \E i \in 1..(k + 1) : x = blobs[i] /\ x # None
    BY <1>1, <2>1 DEF TookUpTo
  <2>4. ~ more.incomplete =>
          \A i \in 1..(k + 1) : blobs[i] # None /\ blobs[i] \in ToSet(more.files)
    BY <1>1, <2>1 DEF TookUpTo
  <2>5. QED
    BY <1>3, <2>1, <2>2, <2>3, <2>4 DEF TookUpTo
<1>7. CASE NotKept(more, now)
  <2>1. more.files = now.files /\ more.failed = now.failed + 1 /\ more.incomplete = TRUE
    BY <1>7 DEF NotKept
  <2>2. /\ Len(more.files) + more.failed = Len(sum.files) + sum.failed + (k + 1)
        /\ sum.failed <= more.failed /\ more.failed > 0
    BY <1>5, <2>1
  <2>3. \A x \in ToSet(more.files) :
          x \in ToSet(sum.files) \/ \E i \in 1..(k + 1) : x = blobs[i] /\ x # None
    BY <1>1, <2>1 DEF TookUpTo
  <2>4. QED
    BY <1>3, <2>1, <2>2, <2>3 DEF TookUpTo
<1>8. QED
  BY <1>3, <1>6, <1>7

LEMMA TakeAllIs ==
  ASSUME NEW sum \in Sums, NEW blobs \in Seq(Blobs \cup {None})
  PROVE  TookUpTo(TakeAll(sum, blobs), Len(blobs), sum, blobs)
<1> DEFINE N == Len(blobs)
           Body(f) == [i \in 0..N |-> IF i = 0 THEN sum ELSE Take(f[i - 1], blobs[i])]
           after == CHOOSE g : g = Body(g)
<1>1. N \in Nat
  BY LenProperties
<1>2. PICK f \in [0..N -> Sums] : Takes(f, N, sum, blobs)
  BY TakesExists
<1>3. f = Body(f)
  BY <1>2 DEF Takes
<1>4. after = Body(after)
  BY <1>3
<1>5. TakeAll(sum, blobs) = after[N]
  BY DEF TakeAll
<1> HIDE DEF after
<1>6. after[0] = sum /\ \A i \in 1..N : after[i] = Take(after[i - 1], blobs[i])
  BY <1>1, <1>4
<1> DEFINE T == {k \in 0..N : TookUpTo(after[k], k, sum, blobs)}
<1>7. 0 \in T
  <2>1. Len(sum.files) \in Nat /\ sum.failed \in Nat
    BY Listed DEF Sums
  <2>2. TookUpTo(sum, 0, sum, blobs)
    BY <2>1 DEF TookUpTo
  <2>3. QED
    BY <1>1, <1>6, <2>2
<1>8. ASSUME NEW k \in 0..(N - 1), k \in T
      PROVE  k + 1 \in T
  <2>1. k + 1 \in 1..N /\ (k + 1) - 1 = k
    BY <1>1
  <2>2. after[k + 1] = Take(after[k], blobs[k + 1])
    BY <1>6, <2>1
  <2>3. TookUpTo(after[k], k, sum, blobs)
    BY <1>8
  <2>4. TookUpTo(after[k + 1], k + 1, sum, blobs)
    BY <2>2, <2>3, TookOneMore
  <2>5. QED
    BY <2>1, <2>4
<1>9. T \in SUBSET (0..N) /\ \A k \in T : TookUpTo(after[k], k, sum, blobs)
  OBVIOUS
<1> HIDE DEF T
<1>10. T = 0..N
  BY <1>1, <1>7, <1>8, <1>9, NatUpTo
<1>11. QED
  BY <1>1, <1>5, <1>9, <1>10

-----------------------------------------------------------------------------
(* The inductive invariant.                                                *)

Before == {"metadata", "commit"}
After == {"blobs", "confirm metadata", "confirm commit", "collected", "decided"}
AllPhases == Before \cup {"tree"} \cup After \cup {"refused"}

IsTree(p) == At(commit, p).kind = "tree"
Item(p) == [dir |-> p[1], entry |-> At(commit, p)]

\* The places in the directories ds, and those whose entries are collected.
PlacesIn(ds) == {p \in Places(commit) : p[1] \in ds}
Collectable(ds) == {Item(p) : p \in {q \in PlacesIn(ds) : isSupportedPath(At(commit, q))}}

Queued == {queue[i].dir : i \in 1..Len(queue)}

\* The queue and the directories ds that were read: none twice, none but those
\* of the commit.
QueueIs(ds) ==
  /\ ds \in SUBSET DOMAIN commit
  /\ queue \in Seq([dir : DOMAIN commit, depth : Nat])
  /\ \A i, j \in 1..Len(queue) : queue[i].dir = queue[j].dir => i = j
  /\ Queued \cap ds = {}
  /\ ds \cup Queued \subseteq Directories
  /\ \A d \in ds \cup Queued :
       d = "root" \/ \E p \in PlacesIn(ds) : IsTree(p) /\ At(commit, p).name = d

\* What is read in ds, while the coverage is complete.
ReadIs(ds) ==
  /\ "root" \in ds \cup Queued
  /\ \A p \in PlacesIn(ds) : IsTree(p) => At(commit, p).name \in ds \cup Queued
  /\ \A p \in PlacesIn(ds) : ~ BlocksCoverage(At(commit, p))
  /\ Collectable(ds) \subseteq eligible

WalkIs(ds) ==
  /\ QueueIs(ds)
  /\ phase \in Before => queue = <<>> /\ ds = {}
  /\ phase \in {"tree"} \cup After /\ ~ coverageIncomplete => ReadIs(ds)
  /\ entries = Cardinality(PlacesIn(ds))
  /\ eligible \subseteq Collectable(ds)

\* What makes the coverage of a commit incomplete.
Grounds ==
  \/ \E x \in Everything : x.entry.kind \in Hidden
  \/ Cardinality(AllFiles) > MaxFiles
  \/ Cardinality(Everything) > MaxEntries

CoverageIs ==
  /\ partial \in BOOLEAN /\ coverageIncomplete \in BOOLEAN
  /\ partial => coverageIncomplete
  /\ coverageIncomplete => partial \/ failed > 0 \/ Grounds
  /\ phase \in After /\ ~ coverageIncomplete =>
       queue = <<>> /\ Cardinality(eligible) <= MaxFiles

Least(a, b) == IF a <= b THEN a ELSE b

\* The batches that were taken, and the answers of this one.
FilesAre ==
  /\ start \in Nat /\ failed \in Nat /\ files \in Seq(Blobs)
  /\ totalBytes \in 0..MaxTotalBytes
  /\ ToSet(files) \subseteq eligible
  /\ Len(files) + failed <= MaxFiles
  /\ phase \in Before \cup {"tree"} => start = 0 /\ failed = 0 /\ files = <<>> /\ answered = <<>>
  /\ phase \in After => Len(files) + failed = Least(start, Len(withinFileLimit))
  /\ phase \in After /\ ~ coverageIncomplete =>
       \A i \in 1..Len(withinFileLimit) : i <= start => withinFileLimit[i] \in ToSet(files)
  /\ phase \in After \ {"blobs"} => start >= Len(withinFileLimit)

AnswersAre ==
  phase = "blobs" =>
    \A k \in DOMAIN answered : k \in 1..Len(Batch) /\ answered[k] \in {None, Batch[k]}

Judged(policy) == createSafetyResults(policy) = {} /\ \A key \in policy : evaluateCriterion(key) = "PASS"

DecisionIs ==
  decision # None =>
    /\ phase = "decided"
    /\ \E policy \in Policies :
         decision = [policy |-> policy, says |-> IF Judged(policy) THEN "PASS" ELSE "FAIL"]

CollectionInv ==
  /\ phase \in AllPhases /\ commit \in Commits /\ changes \in 0..MaxChanges
  /\ \E ds \in SUBSET DOMAIN commit : WalkIs(ds)
  /\ CoverageIs
  /\ FilesAre
  /\ AnswersAre
  /\ DecisionIs

-----------------------------------------------------------------------------
(* A commit.                                                               *)

LEMMA CommitIs ==
  ASSUME commit \in Commits
  PROVE  /\ "root" \in DOMAIN commit
         /\ \A d \in DOMAIN commit : commit[d] \in Seq(EntryType)
         /\ IsFiniteSet(Places(commit))
         /\ \A p \in Places(commit) :
              /\ p[1] \in DOMAIN commit /\ p[2] \in 1..Len(commit[p[1]]) /\ p = <<p[1], p[2]>>
              /\ At(commit, p) = commit[p[1]][p[2]] /\ At(commit, p) \in EntryType
              /\ IsTree(p) => At(commit, p).name \in DOMAIN commit \ {"root"}
         /\ \A p, q \in Places(commit) :
              /\ IsTree(p) /\ IsTree(q) /\ At(commit, p).name = At(commit, q).name => p = q
              /\ ~ IsTree(p) /\ ~ IsTree(q) /\ At(commit, p).path = At(commit, q).path => p = q
         /\ \A d \in DOMAIN commit : \A i \in 1..Len(commit[d]) :
              <<d, i>> \in Places(commit) /\ At(commit, <<d, i>>) = commit[d][i]
<1>1. /\ "root" \in DOMAIN commit
      /\ \A d \in DOMAIN commit : commit[d] \in Seq(EntryType)
      /\ IsFiniteSet(Places(commit))
      /\ \A p \in Places(commit) : IsTree(p) => At(commit, p).name \in DOMAIN commit \ {"root"}
      /\ \A p, q \in Places(commit) :
           p # q => /\ IsTree(p) /\ IsTree(q) => At(commit, p).name # At(commit, q).name
                    /\ ~ IsTree(p) /\ ~ IsTree(q) => At(commit, p).path # At(commit, q).path
  BY CommitsAssumption DEF IsTree
<1>2. ASSUME NEW p \in Places(commit)
      PROVE  /\ p[1] \in DOMAIN commit /\ p[2] \in 1..Len(commit[p[1]]) /\ p = <<p[1], p[2]>>
             /\ At(commit, p) = commit[p[1]][p[2]] /\ At(commit, p) \in EntryType
  <2>1. PICK d \in DOMAIN commit : p \in {d} \X (1..Len(commit[d]))
    BY DEF Places
  <2>2. p[1] = d /\ p[2] \in 1..Len(commit[d]) /\ p = <<p[1], p[2]>>
    BY <2>1
  <2>3. commit[d][p[2]] \in EntryType
    BY <1>1, <2>1, <2>2, ElementOfSeq
  <2>4. QED
    BY <2>1, <2>2, <2>3 DEF At
<1>3. ASSUME NEW d \in DOMAIN commit, NEW i \in 1..Len(commit[d])
      PROVE  <<d, i>> \in Places(commit) /\ At(commit, <<d, i>>) = commit[d][i]
  BY DEF Places, At
<1>4. QED
  BY <1>1, <1>2, <1>3

\* An entry with its directory tells its place.
LEMMA ItemIs ==
  ASSUME commit \in Commits
  PROVE  /\ \A p \in Places(commit) :
              Item(p) \in Blobs /\ Item(p).dir = p[1] /\ Item(p).entry = At(commit, p)
         /\ \A p, q \in Places(commit) : Item(p) = Item(q) => p = q
<1>1. ASSUME NEW p \in Places(commit)
      PROVE  Item(p) \in Blobs /\ Item(p).dir = p[1] /\ Item(p).entry = At(commit, p)
  BY CommitIs DEF Item, Blobs
<1>2. ASSUME NEW p \in Places(commit), NEW q \in Places(commit), Item(p) = Item(q)
      PROVE  p = q
  <2>1. At(commit, p) = At(commit, q)
    BY <1>1, <1>2
  <2>2. IsTree(p) <=> IsTree(q)
    BY <2>1 DEF IsTree
  <2>3. QED
    BY <2>1, <2>2, CommitIs
<1>3. QED
  BY <1>1, <1>2

\* The directories of a commit are the least set with the root and all trees in it.
LEMMA DirectoriesAre ==
  ASSUME commit \in Commits
  PROVE  /\ Directories \in SUBSET DOMAIN commit /\ "root" \in Directories
         /\ \A p \in PlacesIn(Directories) : IsTree(p) => At(commit, p).name \in Directories
         /\ \A ds \in SUBSET DOMAIN commit :
              /\ "root" \in ds
              /\ \A p \in PlacesIn(ds) : IsTree(p) => At(commit, p).name \in ds
              => Directories \subseteq ds
<1>1. ASSUME NEW d \in DOMAIN commit
      PROVE  ToSet(commit[d]) = {commit[d][i] : i \in 1..Len(commit[d])}
  BY CommitIs, Listed
<1>2. ASSUME NEW ds \in SUBSET DOMAIN commit
      PROVE  HasSubdirectories(ds) <=>
               "root" \in ds /\ \A p \in PlacesIn(ds) : IsTree(p) => At(commit, p).name \in ds
  <2>1. ASSUME HasSubdirectories(ds), NEW p \in PlacesIn(ds), IsTree(p)
        PROVE  At(commit, p).name \in ds
    <3>1. p \in Places(commit) /\ p[1] \in ds
      BY DEF PlacesIn
    <3>2. At(commit, p) \in ToSet(commit[p[1]])
      BY <1>1, <3>1, CommitIs
    <3>3. QED
      BY <2>1, <3>1, <3>2 DEF HasSubdirectories, IsTree
  <2>2. ASSUME "root" \in ds, \A p \in PlacesIn(ds) : IsTree(p) => At(commit, p).name \in ds,
               NEW d \in ds, NEW e \in ToSet(commit[d]), e.kind = "tree"
        PROVE  e.name \in ds
    <3>1. PICK i \in 1..Len(commit[d]) : e = commit[d][i]
      BY <1>1
    <3>2. <<d, i>> \in Places(commit) /\ At(commit, <<d, i>>) = e
      BY <3>1, CommitIs
    <3>3. <<d, i>> \in PlacesIn(ds) /\ IsTree(<<d, i>>)
      BY <2>2, <3>2 DEF PlacesIn, IsTree
    <3>4. QED
      BY <2>2, <3>2, <3>3
  <2>3. HasSubdirectories(ds) => "root" \in ds
    BY DEF HasSubdirectories
  <2>4. QED
    BY <2>1, <2>2, <2>3 DEF HasSubdirectories
<1>3. Directories \in SUBSET DOMAIN commit /\ "root" \in Directories
  BY CommitIs DEF Directories, HasSubdirectories
<1>4. ASSUME NEW p \in PlacesIn(Directories), IsTree(p)
      PROVE  At(commit, p).name \in Directories
  <2>1. p \in Places(commit) /\ p[1] \in Directories
    BY DEF PlacesIn
  <2>2. At(commit, p).name \in DOMAIN commit
    BY <1>4, <2>1, CommitIs
  <2>3. ASSUME NEW ds \in SUBSET DOMAIN commit, HasSubdirectories(ds)
        PROVE  At(commit, p).name \in ds
    <3>1. p[1] \in ds
      BY <2>1, <2>3 DEF Directories
    <3>2. p \in PlacesIn(ds)
      BY <2>1, <3>1 DEF PlacesIn
    <3>3. QED
      BY <1>2, <1>4, <2>3, <3>2
  <2>4. QED
    BY <2>2, <2>3 DEF Directories
<1>5. ASSUME NEW ds \in SUBSET DOMAIN commit, "root" \in ds,
             \A p \in PlacesIn(ds) : IsTree(p) => At(commit, p).name \in ds
      PROVE  Directories \subseteq ds
  <2>1. HasSubdirectories(ds)
    BY <1>2, <1>5
  <2>2. QED
    BY <2>1 DEF Directories
<1>6. QED
  BY <1>3, <1>4, <1>5

\* What was read is part of everything, and there is a finite number of it.
LEMMA EverythingIs ==
  ASSUME commit \in Commits, NEW ds \in SUBSET Directories
  PROVE  /\ IsFiniteSet(Everything)
         /\ \A p \in PlacesIn(ds) : Item(p) \in Everything
         /\ Everything = {Item(p) : p \in PlacesIn(Directories)}
         /\ IsFiniteSet(PlacesIn(ds)) /\ Cardinality(PlacesIn(ds)) <= Cardinality(Everything)
         /\ IsFiniteSet(Collectable(ds)) /\ Collectable(ds) \subseteq Everything
<1> DEFINE all == PlacesIn(Directories)
           item == [p \in all |-> Item(p)]
           part == [p \in PlacesIn(ds) |-> Item(p)]
<1>1. Everything = {Item(p) : p \in all}
  BY DEF Everything, PlacesIn, Item
<1>2. all \subseteq Places(commit) /\ PlacesIn(ds) \subseteq all
  BY DEF PlacesIn
<1>3. IsFiniteSet(all) /\ IsFiniteSet(PlacesIn(ds))
  BY <1>2, CommitIs, PartIs
<1>4. /\ \A p \in all : item[p] = Item(p)
      /\ \A p \in PlacesIn(ds) : part[p] = Item(p)
  OBVIOUS
<1>5. item \in Surjection(all, Everything)
  <2>1. item \in [all -> Everything]
    BY <1>1
  <2>2. \A x \in Everything : \E p \in all : item[p] = x
    BY <1>1, <1>4
  <2>3. QED
    BY <2>1, <2>2 DEF Surjection
<1>6. IsFiniteSet(Everything)
  BY <1>3, <1>5, FS_Surjection
<1>7. \A p \in PlacesIn(ds) : Item(p) \in Everything
  BY <1>1, <1>2
<1>8. part \in Injection(PlacesIn(ds), Everything)
  <2>1. part \in [PlacesIn(ds) -> Everything]
    BY <1>7
  <2>2. \A p, q \in PlacesIn(ds) : part[p] = part[q] => p = q
    BY <1>2, <1>4, ItemIs
  <2>3. QED
    BY <2>1, <2>2 DEF Injection, IsInjective
<1>9. Cardinality(PlacesIn(ds)) <= Cardinality(Everything)
  BY <1>6, <1>8, FS_Injection
<1>10. Collectable(ds) \subseteq Everything
  BY <1>7 DEF Collectable
<1>11. IsFiniteSet(Collectable(ds))
  BY <1>6, <1>10, PartIs
<1>12. QED
  BY <1>1, <1>3, <1>6, <1>7, <1>9, <1>10, <1>11

-----------------------------------------------------------------------------
(* The listing of the files, and its batches.                              *)

LEMMA ListingIs ==
  ASSUME commit \in Commits, NEW ds \in SUBSET Directories, eligible \subseteq Collectable(ds)
  PROVE  /\ withinFileLimit \in Seq(eligible)
         /\ Len(withinFileLimit) \in Nat /\ Len(withinFileLimit) <= MaxFiles
         /\ \A i \in 1..Len(withinFileLimit) : withinFileLimit[i] \in eligible
         /\ Cardinality(eligible) <= MaxFiles =>
              \A x \in eligible : \E i \in 1..Len(withinFileLimit) : withinFileLimit[i] = x
<1> DEFINE n == Cardinality(eligible)
           rank == [f \in eligible |-> f.entry.path]
           sorted == InOrder(eligible, rank)
           last == IF n <= MaxFiles THEN n ELSE MaxFiles
           w == SubSeq(sorted, 1, last)
<1>1. IsFiniteSet(eligible) /\ Directories \in SUBSET DOMAIN commit
  BY EverythingIs, DirectoriesAre, PartIs
<1>2. ASSUME NEW x \in eligible
      PROVE  \E p \in Places(commit) : x = Item(p) /\ ~ IsTree(p)
  BY <1>1 DEF Collectable, PlacesIn, isSupportedPath, IsTree
<1>3. rank \in [eligible -> Nat]
  <2>1. ASSUME NEW x \in eligible PROVE x.entry.path \in Nat
    <3>1. PICK p \in Places(commit) : x = Item(p)
      BY <1>2
    <3>2. x.entry \in EntryType
      BY <3>1, ItemIs, CommitIs
    <3>3. QED
      BY <3>2 DEF EntryType
  <2>2. QED
    BY <2>1
<1>4. ASSUME NEW x \in eligible, NEW y \in eligible, x # y
      PROVE  rank[x] # rank[y]
  <2>1. PICK p \in Places(commit) : x = Item(p) /\ ~ IsTree(p)
    BY <1>2
  <2>2. PICK q \in Places(commit) : y = Item(q) /\ ~ IsTree(q)
    BY <1>2
  <2>3. x.entry.path # y.entry.path
    BY <1>4, <2>1, <2>2, ItemIs, CommitIs
  <2>4. QED
    BY <2>3
<1> HIDE DEF rank
<1>5. /\ n \in Nat /\ sorted \in [1..n -> eligible]
      /\ \A x \in eligible : \E k \in 1..n : sorted[k] = x
  BY <1>1, <1>3, <1>4, InOrderIs
<1>6. Len(sorted) = n
  <2>1. sorted \in Seq(eligible)
    BY <1>5
  <2>2. QED
    BY <1>5, <2>1, LenProperties
<1>7. withinFileLimit = w
  BY <1>6 DEF withinFileLimit, rank
<1> HIDE DEF sorted, n
<1>8. MaxFiles \in Nat
  BY LimitsAssumption
<1>9. last \in Nat /\ last <= n /\ last <= MaxFiles /\ (n <= MaxFiles => last = n)
  BY <1>5, <1>8
<1> HIDE DEF last
<1>10. \A i \in 1..last : sorted[i] \in eligible
  BY <1>5, <1>9
<1>11. /\ w \in Seq(eligible)
       /\ Len(w) = IF 1 <= last THEN last - 1 + 1 ELSE 0
       /\ \A i \in 1..(last - 1 + 1) : w[i] = sorted[1 + i - 1]
  BY <1>9, <1>10, SubSeqProperties
<1> HIDE DEF w
<1>12. Len(w) = last /\ \A i \in 1..last : w[i] = sorted[i]
  <2>1. last - 1 + 1 = last /\ \A i \in 1..last : 1 + i - 1 = i
    BY <1>9
  <2>2. QED
    BY <1>9, <1>11, <2>1
<1>13. n <= MaxFiles => \A x \in eligible : \E i \in 1..last : w[i] = x
  BY <1>5, <1>9, <1>12
<1>14. QED
  BY <1>7, <1>9, <1>10, <1>11, <1>12, <1>13 DEF n

LEMMA BatchIs ==
  ASSUME commit \in Commits, NEW ds \in SUBSET Directories, eligible \subseteq Collectable(ds),
         start \in Nat
  PROVE  /\ Batch \in Seq(eligible) /\ Len(Batch) \in Nat /\ (Batch = <<>> <=> Len(Batch) = 0)
         /\ DOMAIN Batch = 1..Len(Batch)
         /\ Batch = <<>> <=> start >= Len(withinFileLimit)
         /\ Least(start + FetchConcurrency, Len(withinFileLimit))
              = Least(start, Len(withinFileLimit)) + Len(Batch)
         /\ \A k \in 1..Len(Batch) :
              /\ start + k \in 1..Len(withinFileLimit) /\ Batch[k] = withinFileLimit[start + k]
              /\ Batch[k] \in eligible
         /\ \A i \in 1..Len(withinFileLimit) :
              i <= start + FetchConcurrency =>
                i <= start \/ i - start \in 1..Len(Batch)
<1> DEFINE w == withinFileLimit
           n == Len(w)
           last == IF start + FetchConcurrency <= n THEN start + FetchConcurrency ELSE n
           b == SubSeq(w, start + 1, last)
<1>1. w \in Seq(eligible) /\ n \in Nat /\ \A i \in 1..n : w[i] \in eligible
  BY ListingIs
<1>2. Batch = b
  BY DEF Batch
<1> HIDE DEF w, n
<1>3. FetchConcurrency \in Nat \ {0}
  BY LimitsAssumption
<1>4. /\ last \in Nat /\ last <= n /\ last <= start + FetchConcurrency
      /\ last = start + FetchConcurrency \/ last = n
  BY <1>1, <1>3
<1> HIDE DEF last
<1>5. \A i \in (start + 1)..last : w[i] \in eligible
  BY <1>1, <1>4
<1>6. /\ b \in Seq(eligible)
      /\ Len(b) = IF start + 1 <= last THEN last - (start + 1) + 1 ELSE 0
      /\ \A i \in 1..(last - (start + 1) + 1) : b[i] = w[(start + 1) + i - 1]
  BY <1>4, <1>5, SubSeqProperties
<1> HIDE DEF b
<1> DEFINE m == Len(b)
<1>7. DOMAIN b = 1..m /\ m \in Nat /\ (b = <<>> <=> m = 0)
  BY <1>6, LenProperties, EmptySeq
<1>8. m = IF start + 1 <= last THEN last - start ELSE 0
  <2>1. start + 1 <= last => last - (start + 1) + 1 = last - start
    BY <1>4
  <2>2. QED
    BY <1>6, <2>1
<1>9. ASSUME NEW k \in 1..m
      PROVE  start + k \in 1..n /\ b[k] = w[start + k] /\ b[k] \in eligible
  <2>1. k \in 1..(last - (start + 1) + 1) /\ (start + 1) + k - 1 = start + k
    BY <1>4, <1>7, <1>8
  <2>2. start + k \in 1..n
    BY <1>1, <1>4, <1>7, <1>8
  <2>3. QED
    BY <1>1, <1>6, <2>1, <2>2
<1> HIDE DEF m
<1>10. m = 0 <=> start >= n
  BY <1>1, <1>3, <1>4, <1>8
<1>11. Least(start + FetchConcurrency, n) = Least(start, n) + m
  BY <1>1, <1>3, <1>4, <1>7, <1>8 DEF Least
<1>12. \A i \in 1..n : i <= start + FetchConcurrency => i <= start \/ i - start \in 1..m
  BY <1>1, <1>3, <1>4, <1>7, <1>8
<1>13. QED
  BY <1>2, <1>6, <1>7, <1>9, <1>10, <1>11, <1>12 DEF w, n, m

-----------------------------------------------------------------------------
(* The walk through the directories.                                       *)

LEMMA CommitStays ==
  ASSUME commit' = commit
  PROVE  /\ Directories' = Directories /\ Everything' = Everything /\ AllFiles' = AllFiles
         /\ Grounds' = Grounds /\ Blobs' = Blobs
         /\ \A ds : PlacesIn(ds)' = PlacesIn(ds) /\ Collectable(ds)' = Collectable(ds)
         /\ \A p : IsTree(p)' = IsTree(p)
<1>1. Directories' = Directories
  BY DEF Directories, HasSubdirectories
<1>2. Everything' = Everything
  BY <1>1 DEF Everything
<1>3. AllFiles' = AllFiles
  BY <1>2 DEF AllFiles
<1>4. Grounds' = Grounds
  BY <1>2, <1>3 DEF Grounds
<1>5. \A ds : PlacesIn(ds)' = PlacesIn(ds)
  BY DEF PlacesIn
<1>6. \A ds : Collectable(ds)' = Collectable(ds)
  BY <1>5 DEF Collectable, Item
<1>7. QED
  BY <1>1, <1>2, <1>3, <1>4, <1>5, <1>6 DEF Blobs, IsTree

\* Most steps leave the walk as it is.
LEMMA WalkStays ==
  ASSUME NEW ds, WalkIs(ds), UNCHANGED <<commit, queue, entries, eligible>>,
         phase' \in Before => phase \in Before,
         phase' \in {"tree"} \cup After /\ ~ coverageIncomplete' =>
           phase \in {"tree"} \cup After /\ ~ coverageIncomplete
  PROVE  WalkIs(ds)'
<1>1. /\ commit' = commit /\ queue' = queue /\ entries' = entries /\ eligible' = eligible
  OBVIOUS
<1>2. /\ Directories' = Directories /\ PlacesIn(ds)' = PlacesIn(ds)
      /\ Collectable(ds)' = Collectable(ds) /\ \A p : IsTree(p)' = IsTree(p)
  BY <1>1, CommitStays
<1>3. Queued' = Queued
  BY <1>1 DEF Queued
<1>4. QueueIs(ds) => QueueIs(ds)'
  BY <1>1, <1>2, <1>3 DEF QueueIs
<1>5. ReadIs(ds) => ReadIs(ds)'
  BY <1>1, <1>2, <1>3 DEF ReadIs
<1>6. QED
  BY <1>1, <1>2, <1>4, <1>5 DEF WalkIs

LEMMA WalkStarts ==
  ASSUME commit \in Commits, phase = "commit", ReadCommit, NEW ds, WalkIs(ds)
  PROVE  WalkIs({})'
<1>1. /\ queue' = <<[dir |-> "root", depth |-> 0]>> /\ phase' = "tree" /\ commit' = commit
      /\ entries' = entries /\ eligible' = eligible
  BY DEF ReadCommit, world
<1>2. ds = {} /\ entries = Cardinality(PlacesIn(ds)) /\ eligible \subseteq Collectable(ds)
  BY DEF WalkIs, Before
<1>3. PlacesIn({}) = {} /\ Collectable({}) = {}
  BY DEF PlacesIn, Collectable
<1>4. /\ Directories' = Directories /\ PlacesIn({})' = PlacesIn({})
      /\ Collectable({})' = Collectable({})
  BY <1>1, CommitStays
<1>5. "root" \in Directories /\ "root" \in DOMAIN commit
  BY DirectoriesAre, CommitIs
<1>6. /\ Len(queue') = 1 /\ queue'[1] = [dir |-> "root", depth |-> 0]
      /\ queue' \in Seq([dir : DOMAIN commit, depth : Nat])
  BY <1>1, <1>5
<1>7. Queued' = {"root"}
  BY <1>6 DEF Queued
<1>8. QueueIs({})'
  <2>1. \A i, j \in 1..Len(queue') : queue'[i].dir = queue'[j].dir => i = j
    BY <1>6
  <2>2. QED
    BY <1>1, <1>4, <1>5, <1>6, <1>7, <2>1 DEF QueueIs
<1>9. ReadIs({})'
  BY <1>3, <1>4, <1>7 DEF ReadIs
<1>10. QED
  BY <1>1, <1>2, <1>3, <1>4, <1>8, <1>9 DEF WalkIs, Before

\* A directory is read: what was listed in it.
Listing == commit[Head(queue).dir]
Room == MaxEntries - entries
Taken == IF Len(Listing) <= Room THEN Listing ELSE SubSeq(Listing, 1, Room)

LEMMA TakenIs ==
  ASSUME commit \in Commits, NEW ds, WalkIs(ds), ReadTree
  PROVE  /\ Head(queue) \in [dir : DOMAIN commit, depth : Nat]
         /\ Taken \in Seq(EntryType) /\ Len(Taken) \in Nat /\ Len(Taken) <= Len(Listing)
         /\ Len(Listing) \in Nat
         /\ \A i \in 1..Len(Taken) : Taken[i] = Listing[i]
         /\ Len(Listing) <= Room => Taken = Listing
         /\ ToSet(Taken) = {Taken[i] : i \in 1..Len(Taken)}
         /\ entries \in Nat /\ Room \in Nat
<1>1. /\ queue # <<>> /\ queue \in Seq([dir : DOMAIN commit, depth : Nat])
      /\ ds \subseteq Directories /\ entries = Cardinality(PlacesIn(ds))
      /\ ~ (entries >= MaxEntries)
  BY DEF ReadTree, TooDeep, WalkIs, QueueIs
<1>2. Head(queue) \in [dir : DOMAIN commit, depth : Nat]
  BY <1>1, HeadTailProperties
<1>3. Listing \in Seq(EntryType) /\ Len(Listing) \in Nat
  BY <1>2, CommitIs, LenProperties DEF Listing
<1>4. entries \in Nat
  BY <1>1, EverythingIs, FS_CardinalityType
<1>5. Room \in Nat
  BY <1>1, <1>4, LimitsAssumption DEF Room
<1>6. CASE Len(Listing) <= Room
  <2>1. Taken = Listing
    BY <1>6 DEF Taken
  <2>2. QED
    BY <1>2, <1>3, <1>4, <1>5, <2>1, Listed
<1>7. CASE ~ (Len(Listing) <= Room)
  <2>1. Taken = SubSeq(Listing, 1, Room)
    BY <1>7 DEF Taken
  <2>2. Room < Len(Listing)
    BY <1>3, <1>5, <1>7
  <2>3. \A i \in 1..Room : Listing[i] \in EntryType
    BY <1>3, <1>5, <2>2, ElementOfSeq
  <2> DEFINE t == SubSeq(Listing, 1, Room)
  <2>4. /\ t \in Seq(EntryType)
        /\ Len(t) = IF 1 <= Room THEN Room - 1 + 1 ELSE 0
        /\ \A i \in 1..(Room - 1 + 1) : t[i] = Listing[1 + i - 1]
    BY <1>5, <2>3, SubSeqProperties
  <2> HIDE DEF t
  <2>5. Len(t) = Room /\ \A i \in 1..Room : t[i] = Listing[i]
    <3>1. Room - 1 + 1 = Room /\ \A i \in 1..Room : 1 + i - 1 = i
      BY <1>5
    <3>2. QED
      BY <1>5, <2>4, <3>1
  <2>6. ToSet(t) = {t[i] : i \in 1..Len(t)}
    BY <2>4, Listed
  <2>7. Taken = t
    BY <2>1 DEF t
  <2>8. QED
    BY <1>2, <1>3, <1>4, <1>5, <1>7, <2>2, <2>4, <2>5, <2>6, <2>7
<1>8. QED
  BY <1>6, <1>7

Dir == Head(queue).dir
News == {Taken[i].name : i \in {j \in 1..Len(Taken) : Taken[j].kind = "tree"}}

\* The entries that were taken are at places of the directory that is read.
LEMMA TakenPlaces ==
  ASSUME commit \in Commits, NEW ds, WalkIs(ds), ReadTree
  PROVE  /\ Dir \in DOMAIN commit /\ Dir \in Queued /\ Dir \in Directories /\ Dir \notin ds
         /\ \A i \in 1..Len(Listing) :
              <<Dir, i>> \in Places(commit) /\ At(commit, <<Dir, i>>) = Listing[i]
         /\ \A i \in 1..Len(Taken) :
              /\ <<Dir, i>> \in Places(commit) /\ At(commit, <<Dir, i>>) = Taken[i]
              /\ Taken[i].kind = "tree" =>
                   /\ IsTree(<<Dir, i>>)
                   /\ Taken[i].name \in Directories \ {"root"} /\ Taken[i].name \in DOMAIN commit
                   /\ Taken[i].name \notin ds \cup Queued
         /\ \A i, j \in 1..Len(Taken) :
              Taken[i].kind = "tree" /\ Taken[j].kind = "tree" /\ Taken[i].name = Taken[j].name
                => i = j
<1>1. /\ queue # <<>> /\ queue \in Seq([dir : DOMAIN commit, depth : Nat])
      /\ Queued \cap ds = {} /\ ds \cup Queued \subseteq Directories
      /\ \A d \in ds \cup Queued :
           d = "root" \/ \E p \in PlacesIn(ds) : IsTree(p) /\ At(commit, p).name = d
  BY DEF ReadTree, WalkIs, QueueIs
<1>2. Dir \in DOMAIN commit /\ Dir \in Queued
  <2>1. Len(queue) \in Nat \ {0} /\ Head(queue) = queue[1]
    BY <1>1, EmptySeq, LenProperties
  <2>2. Head(queue) \in [dir : DOMAIN commit, depth : Nat]
    BY <1>1, HeadTailProperties
  <2>3. QED
    BY <2>1, <2>2 DEF Dir, Queued
<1>3. Dir \in Directories /\ Dir \notin ds
  BY <1>1, <1>2
<1>4. ASSUME NEW i \in 1..Len(Listing)
      PROVE  <<Dir, i>> \in Places(commit) /\ At(commit, <<Dir, i>>) = Listing[i]
  BY <1>2, CommitIs DEF Listing, Dir
<1>5. /\ Len(Taken) \in Nat /\ Len(Listing) \in Nat /\ Len(Taken) <= Len(Listing)
      /\ \A i \in 1..Len(Taken) : Taken[i] = Listing[i]
  BY TakenIs
<1>6. \A i \in 1..Len(Taken) : i \in 1..Len(Listing)
  BY <1>5
<1>7. ASSUME NEW i \in 1..Len(Taken)
      PROVE  <<Dir, i>> \in Places(commit) /\ At(commit, <<Dir, i>>) = Taken[i]
  BY <1>4, <1>5, <1>6
<1>8. ASSUME NEW i \in 1..Len(Taken), Taken[i].kind = "tree"
      PROVE  /\ IsTree(<<Dir, i>>)
             /\ Taken[i].name \in Directories \ {"root"} /\ Taken[i].name \in DOMAIN commit
             /\ Taken[i].name \notin ds \cup Queued
  <2>1. /\ <<Dir, i>> \in Places(commit) /\ At(commit, <<Dir, i>>) = Taken[i]
        /\ IsTree(<<Dir, i>>)
    BY <1>7, <1>8 DEF IsTree
  <2>2. <<Dir, i>> \in PlacesIn(Directories)
    BY <1>3, <2>1 DEF PlacesIn
  <2>3. Taken[i].name \in Directories \ {"root"} /\ Taken[i].name \in DOMAIN commit
    BY <2>1, <2>2, DirectoriesAre, CommitIs
  <2>4. ASSUME Taken[i].name \in ds \cup Queued
        PROVE  FALSE
    <3>1. PICK p \in PlacesIn(ds) : IsTree(p) /\ At(commit, p).name = Taken[i].name
      BY <1>1, <2>3, <2>4
    <3>2. p \in Places(commit) /\ p[1] \in ds
      BY DEF PlacesIn
    <3>3. p = <<Dir, i>>
      BY <2>1, <3>1, <3>2, CommitIs
    <3>4. QED
      BY <1>3, <3>2, <3>3
  <2>5. QED
    BY <2>1, <2>3, <2>4
<1>9. ASSUME NEW i \in 1..Len(Taken), NEW j \in 1..Len(Taken),
             Taken[i].kind = "tree", Taken[j].kind = "tree", Taken[i].name = Taken[j].name
      PROVE  i = j
  <2>1. \A p, q \in Places(commit) :
          IsTree(p) /\ IsTree(q) /\ At(commit, p).name = At(commit, q).name => p = q
    BY CommitIs
  <2>2. /\ <<Dir, i>> \in Places(commit) /\ IsTree(<<Dir, i>>)
        /\ <<Dir, j>> \in Places(commit) /\ IsTree(<<Dir, j>>)
        /\ At(commit, <<Dir, i>>).name = At(commit, <<Dir, j>>).name
    BY <1>7, <1>8, <1>9
  <2>3. <<Dir, i>> = <<Dir, j>>
    BY <2>1, <2>2
  <2>4. QED
    BY <2>3
<1>10. QED
  BY <1>2, <1>3, <1>4, <1>7, <1>8, <1>9

\* The head of the queue q is taken off and what is new put at its end, which gives r:
\* where its elements come from, and where they go.
FromQueue(r, q, i) == \E j \in 2..Len(q) : i = j - 1 /\ r[i] = q[j]
FromNew(r, q, n, new, i) == \E k \in 1..n : i = Len(q) - 1 + k /\ r[i] = new[k]

Turned(r, q, n, new) ==
  /\ \A i \in 1..Len(r) : FromQueue(r, q, i) \/ FromNew(r, q, n, new, i)
  /\ \A j \in 2..Len(q) : \E i \in 1..Len(r) : r[i] = q[j]
  /\ \A k \in 1..n : \E i \in 1..Len(r) : r[i] = new[k]
  /\ 1 \in 1..Len(q) /\ 2..Len(q) \subseteq 1..Len(q) /\ Head(q) = q[1]

LEMMA QueueTurns ==
  ASSUME NEW T, NEW q \in Seq(T), q # <<>>, NEW n \in Nat, NEW new \in [1..n -> T],
         NEW r, r = Tail(q) \o new
  PROVE  r \in Seq(T) /\ Turned(r, q, n, new)
<1> DEFINE l == Len(q)
           t == Tail(q)
           m == Len(t)
<1>1. /\ l \in Nat /\ l # 0 /\ t \in Seq(T) /\ m = l - 1 /\ \A i \in 1..m : t[i] = q[i + 1]
      /\ Head(q) = q[1]
  BY HeadTailProperties, LenProperties, EmptySeq
<1>2. new \in Seq(T) /\ Len(new) = n
  <2>1. new \in Seq(T)
    OBVIOUS
  <2>2. QED
    BY <2>1, LenProperties
<1>3. /\ r \in Seq(T) /\ Len(r) = Len(t) + Len(new)
      /\ \A i \in 1..(Len(t) + Len(new)) : r[i] = IF i <= Len(t) THEN t[i] ELSE new[i - Len(t)]
  BY <1>1, <1>2, ConcatProperties
<1>4. Len(r) = m + n /\ \A i \in 1..(m + n) : r[i] = IF i <= m THEN t[i] ELSE new[i - m]
  BY <1>2, <1>3
<1> HIDE DEF l, t, m
<1>5. m \in Nat
  BY <1>1
<1>6. ASSUME NEW i \in 1..(m + n)
      PROVE  FromQueue(r, q, i) \/ FromNew(r, q, n, new, i)
  <2>1. CASE i <= m
    <3>1. i \in 1..m /\ i + 1 \in 2..l /\ i = (i + 1) - 1
      BY <1>1, <1>5, <2>1
    <3>2. r[i] = q[i + 1]
      BY <1>1, <1>4, <2>1, <3>1
    <3>3. \E j \in 2..l : i = j - 1 /\ r[i] = q[j]
      BY <3>1, <3>2
    <3>4. QED
      BY <3>3 DEF FromQueue, l
  <2>2. CASE ~ (i <= m)
    <3>1. i - m \in 1..n /\ i = l - 1 + (i - m)
      BY <1>1, <1>5, <2>2
    <3>2. r[i] = new[i - m]
      BY <1>4, <2>2
    <3>3. \E k \in 1..n : i = l - 1 + k /\ r[i] = new[k]
      BY <3>1, <3>2
    <3>4. QED
      BY <3>3 DEF FromNew, l
  <2>3. QED
    BY <2>1, <2>2
<1>7. ASSUME NEW j \in 2..l
      PROVE  \E i \in 1..(m + n) : r[i] = q[j]
  <2>1. j - 1 \in 1..m /\ j - 1 \in 1..(m + n) /\ (j - 1) + 1 = j /\ j - 1 <= m
    BY <1>1, <1>5
  <2>2. QED
    BY <1>1, <1>4, <2>1
<1>8. ASSUME NEW k \in 1..n
      PROVE  \E i \in 1..(m + n) : r[i] = new[k]
  <2>1. m + k \in 1..(m + n) /\ (m + k) - m = k /\ ~ (m + k <= m)
    BY <1>5
  <2>2. QED
    BY <1>4, <2>1
<1>9. 1 \in 1..l /\ 2..l \subseteq 1..l
  BY <1>1
<1>10. 1..Len(r) = 1..(m + n)
  BY <1>4
<1>11. /\ \A i \in 1..Len(r) : FromQueue(r, q, i) \/ FromNew(r, q, n, new, i)
       /\ \A j \in 2..l : \E i \in 1..Len(r) : r[i] = q[j]
       /\ \A k \in 1..n : \E i \in 1..Len(r) : r[i] = new[k]
  BY <1>6, <1>7, <1>8, <1>10
<1>12. QED
  BY <1>1, <1>3, <1>9, <1>11 DEF Turned, l

\* The directories that are queued when one was read.
LEMMA QueueReads ==
  ASSUME commit \in Commits, NEW ds, WalkIs(ds), ReadTree
  PROVE  /\ queue' \in Seq([dir : DOMAIN commit, depth : Nat])
         /\ \A i, j \in 1..Len(queue') : queue'[i].dir = queue'[j].dir => i = j
         /\ Queued' = (Queued \ {Dir}) \cup News
<1> DEFINE E == [dir : DOMAIN commit, depth : Nat]
           ts == Trees(Taken)
           depth == Head(queue).depth + 1
           new == [k \in 1..Len(ts) |-> [dir |-> ts[k].name, depth |-> depth]]
<1>1. /\ queue # <<>> /\ queue \in Seq(E)
      /\ \A i, j \in 1..Len(queue) : queue[i].dir = queue[j].dir => i = j
  BY DEF ReadTree, WalkIs, QueueIs
<1>2. queue' = Tail(queue) \o new
  BY DEF ReadTree, Taken, Room, Listing
<1>3. depth \in Nat /\ Taken \in Seq(EntryType) /\ Dir = Head(queue).dir
  BY TakenIs DEF Dir
<1> HIDE DEF ts
<1>4. ts = Trees(Taken)
  BY DEF ts
<1>5. PICK n \in Nat : \E at : TreesAt(ts, Taken, n, at)
  BY <1>3, <1>4, TreesAre
<1>6. PICK at : TreesAt(ts, Taken, n, at)
  BY <1>5
<1>7. Len(ts) = n /\ \A k \in 1..n : ts[k] = Taken[at[k]]
  BY <1>6 DEF TreesAt
<1>8. ASSUME NEW k \in 1..n
      PROVE  /\ at[k] \in 1..Len(Taken) /\ Taken[at[k]].kind = "tree"
             /\ Taken[at[k]].name \in DOMAIN commit
             /\ Taken[at[k]].name \notin Queued /\ Taken[at[k]].name \in News
  <2>1. at[k] \in 1..Len(Taken) /\ Taken[at[k]].kind = "tree"
    BY <1>6 DEF TreesAt
  <2>2. QED
    BY <2>1, TakenPlaces DEF News
<1> HIDE DEF depth
<1>9. new = [k \in 1..n |-> [dir |-> Taken[at[k]].name, depth |-> depth]]
  BY <1>7
<1> HIDE DEF new
<1>10. new \in [1..n -> E] /\ \A k \in 1..n : new[k].dir = Taken[at[k]].name
  BY <1>3, <1>8, <1>9
<1> HIDE DEF E
<1> DEFINE r == queue'
<1>11. r \in Seq(E) /\ Turned(r, queue, n, new)
  BY <1>1, <1>2, <1>10, QueueTurns
<1>12. Queued' = {r[i].dir : i \in 1..Len(r)}
  BY DEF Queued
<1> HIDE DEF r
<1>13. \A j \in 2..Len(queue) : queue[j].dir \in Queued \ {Dir}
  <2>1. ASSUME NEW j \in 2..Len(queue) PROVE j # 1 /\ j \in 1..Len(queue)
    <3>1. j \in 1..Len(queue)
      BY <1>11 DEF Turned
    <3>2. j # 1
      OBVIOUS
    <3>3. QED
      BY <3>1, <3>2
  <2>2. QED
    BY <1>1, <1>3, <1>11, <2>1 DEF Queued, Turned
<1>14. \A i \in 1..Len(r) : FromQueue(r, queue, i) => r[i].dir \in Queued \ {Dir}
  BY <1>13 DEF FromQueue
<1>15. \A i \in 1..Len(r) : FromNew(r, queue, n, new, i) => r[i].dir \in News \ Queued
  BY <1>8, <1>10 DEF FromNew
<1>16. ASSUME NEW i \in 1..Len(r), NEW j \in 1..Len(r), r[i].dir = r[j].dir
       PROVE  i = j
  <2>1. CASE FromQueue(r, queue, i)
    <3>1. FromQueue(r, queue, j)
      BY <1>11, <1>14, <1>15, <1>16, <2>1 DEF Turned
    <3>2. PICK a \in 2..Len(queue) : i = a - 1 /\ r[i] = queue[a]
      BY <2>1 DEF FromQueue
    <3>3. PICK b \in 2..Len(queue) : j = b - 1 /\ r[j] = queue[b]
      BY <3>1 DEF FromQueue
    <3>4. a = b
      BY <1>1, <1>11, <1>16, <3>2, <3>3 DEF Turned
    <3>5. QED
      BY <3>2, <3>3, <3>4
  <2>2. CASE FromNew(r, queue, n, new, i)
    <3>1. FromNew(r, queue, n, new, j)
      BY <1>11, <1>14, <1>15, <1>16, <2>2 DEF Turned
    <3>2. PICK k \in 1..n : i = Len(queue) - 1 + k /\ r[i] = new[k]
      BY <2>2 DEF FromNew
    <3>3. PICK m \in 1..n : j = Len(queue) - 1 + m /\ r[j] = new[m]
      BY <3>1 DEF FromNew
    <3>4. Taken[at[k]].name = Taken[at[m]].name
      BY <1>10, <1>16, <3>2, <3>3
    <3>5. at[k] = at[m]
      BY <1>8, <3>4, TakenPlaces
    <3>6. k = m
      BY <1>6, <3>5 DEF TreesAt
    <3>7. QED
      BY <3>2, <3>3, <3>6
  <2>3. QED
    BY <1>11, <2>1, <2>2 DEF Turned
<1>17. \A i \in 1..Len(r) : r[i].dir \in (Queued \ {Dir}) \cup News
  BY <1>11, <1>14, <1>15 DEF Turned
<1>18. ASSUME NEW d \in Queued \ {Dir}
       PROVE  \E i \in 1..Len(r) : r[i].dir = d
  <2>1. PICK j \in 1..Len(queue) : d = queue[j].dir
    BY DEF Queued
  <2>2. j # 1
    BY <1>3, <1>11, <2>1 DEF Turned
  <2>3. j \in 2..Len(queue)
    <3>1. Len(queue) \in Nat
      BY <1>1, LenProperties
    <3>2. QED
      BY <2>2, <3>1
  <2>4. QED
    BY <1>11, <2>1, <2>3 DEF Turned
<1>19. ASSUME NEW d \in News
       PROVE  \E i \in 1..Len(r) : r[i].dir = d
  <2>1. PICK j \in 1..Len(Taken) : Taken[j].kind = "tree" /\ d = Taken[j].name
    BY DEF News
  <2>2. PICK k \in 1..n : at[k] = j
    BY <1>6, <2>1 DEF TreesAt
  <2>3. PICK i \in 1..Len(r) : r[i] = new[k]
    BY <1>11 DEF Turned
  <2>4. QED
    BY <1>10, <2>1, <2>2, <2>3
<1>20. Queued' = (Queued \ {Dir}) \cup News
  BY <1>12, <1>17, <1>18, <1>19
<1>21. QED
  BY <1>11, <1>16, <1>20 DEF r, E


\* The places in the directories that are read then.
LEMMA PlacesGrow ==
  ASSUME commit \in Commits, NEW ds, WalkIs(ds), ReadTree, NEW more, more = ds \cup {Dir}
  PROVE  /\ PlacesIn(more) = PlacesIn(ds) \cup {<<Dir, i>> : i \in 1..Len(Listing)}
         /\ Cardinality(PlacesIn(more)) = entries + Len(Listing)
<1> DEFINE here == {<<Dir, i>> : i \in 1..Len(Listing)}
           n == Len(Listing)
           at == [i \in 1..n |-> <<Dir, i>>]
<1>1. /\ Dir \in DOMAIN commit /\ Dir \notin ds /\ ds \subseteq Directories
      /\ \A i \in 1..n : <<Dir, i>> \in Places(commit)
      /\ entries = Cardinality(PlacesIn(ds)) /\ n \in Nat /\ Listing = commit[Dir]
  BY TakenPlaces, TakenIs DEF WalkIs, QueueIs, Listing, Dir
<1>2. PlacesIn(more) = PlacesIn(ds) \cup here
  <2>1. ASSUME NEW p \in PlacesIn(more)
        PROVE  p \in PlacesIn(ds) \cup here
    <3>1. p \in Places(commit) /\ p[1] \in ds \cup {Dir}
      BY DEF PlacesIn
    <3>2. p[2] \in 1..Len(commit[p[1]]) /\ p = <<p[1], p[2]>>
      BY <3>1, CommitIs
    <3>3. p[1] = Dir => p \in here
      BY <1>1, <3>2
    <3>4. p[1] \in ds => p \in PlacesIn(ds)
      BY <3>1 DEF PlacesIn
    <3>5. QED
      BY <3>1, <3>3, <3>4
  <2>2. here \subseteq PlacesIn(more) /\ PlacesIn(ds) \subseteq PlacesIn(more)
    BY <1>1 DEF PlacesIn
  <2>3. QED
    BY <2>1, <2>2
<1>3. PlacesIn(ds) \cap here = {}
  BY <1>1 DEF PlacesIn
<1>4. IsFiniteSet(PlacesIn(ds))
  BY <1>1, EverythingIs
<1> HIDE DEF n
<1>5. IsFiniteSet(1..n) /\ Cardinality(1..n) = n
  <2>1. n \in Nat
    BY <1>1
  <2>2. QED
    BY <2>1, FS_Interval
<1>6. at \in Bijection(1..n, here)
  BY DEF Bijection, Injection, Surjection, IsInjective, n
<1> HIDE DEF here, at
<1>7. IsFiniteSet(here) /\ Cardinality(here) = n
  <2>1. ExistsBijection(1..n, here)
    BY <1>6 DEF ExistsBijection
  <2>2. QED
    BY <1>5, <2>1, FS_Bijection
<1>8. Cardinality(PlacesIn(ds) \cup here)
        = Cardinality(PlacesIn(ds)) + Cardinality(here) - Cardinality(PlacesIn(ds) \cap here)
  BY <1>4, <1>7, FS_Union
<1>9. entries \in Nat /\ Cardinality({}) = 0
  BY <1>1, <1>4, FS_CardinalityType, FS_EmptySet
<1>10. Cardinality(PlacesIn(more)) = entries + n
  <2>1. Cardinality(PlacesIn(ds) \cup here) = entries + n - 0
    BY <1>1, <1>3, <1>7, <1>8, <1>9
  <2>2. n \in Nat
    BY <1>1
  <2>3. entries + n - 0 = entries + n
    BY <1>9, <2>2
  <2>4. QED
    BY <1>2, <2>1, <2>3
<1>11. QED
  BY <1>2, <1>10 DEF here, n

\* What is eligible of it.
LEMMA EligibleReads ==
  ASSUME commit \in Commits, NEW ds, WalkIs(ds), ReadTree, NEW more, more = ds \cup {Dir}
  PROVE  /\ eligible' \subseteq Collectable(more)
         /\ Collectable(ds) \subseteq eligible /\ Taken = Listing => Collectable(more) \subseteq eligible'
<1> DEFINE new == {[dir |-> Dir, entry |-> e] : e \in {x \in ToSet(Taken) : isSupportedPath(x)}}
<1>1. eligible' = eligible \cup new
  BY DEF ReadTree, Taken, Room, Listing, Dir
<1>2. /\ eligible \subseteq Collectable(ds)
      /\ PlacesIn(more) = PlacesIn(ds) \cup {<<Dir, i>> : i \in 1..Len(Listing)}
      /\ ToSet(Taken) = {Taken[i] : i \in 1..Len(Taken)}
      /\ \A i \in 1..Len(Taken) : <<Dir, i>> \in Places(commit) /\ At(commit, <<Dir, i>>) = Taken[i]
  BY PlacesGrow, TakenIs, TakenPlaces DEF WalkIs
<1>3. Collectable(ds) \subseteq Collectable(more)
  BY <1>2 DEF Collectable
<1>4. new \subseteq Collectable(more)
  <2>1. ASSUME NEW i \in 1..Len(Taken), isSupportedPath(Taken[i])
        PROVE  [dir |-> Dir, entry |-> Taken[i]] \in Collectable(more)
    <3>1. Item(<<Dir, i>>) = [dir |-> Dir, entry |-> Taken[i]]
      BY <1>2 DEF Item
    <3>2. <<Dir, i>> \in PlacesIn(more)
      BY <1>2 DEF PlacesIn
    <3>3. QED
      BY <1>2, <2>1, <3>1, <3>2 DEF Collectable
  <2>2. QED
    BY <1>2, <2>1
<1>5. ASSUME Taken = Listing, NEW p \in PlacesIn(more), isSupportedPath(At(commit, p)),
             p \notin PlacesIn(ds)
      PROVE  Item(p) \in new
  <2>1. PICK i \in 1..Len(Taken) : p = <<Dir, i>>
    BY <1>2, <1>5
  <2>2. At(commit, p) = Taken[i] /\ Item(p) = [dir |-> Dir, entry |-> Taken[i]]
    BY <1>2, <2>1 DEF Item
  <2>3. QED
    BY <1>2, <1>5, <2>2
<1>6. QED
  BY <1>1, <1>2, <1>3, <1>4, <1>5 DEF Collectable

\* Reading a directory keeps what is said of the walk.
LEMMA WalkReads ==
  ASSUME commit \in Commits, NEW ds, WalkIs(ds), ReadTree, NEW more, more = ds \cup {Dir}
  PROVE  WalkIs(more)'
<1>1. /\ phase = "tree" /\ phase' = phase /\ commit' = commit
      /\ entries' = entries + Len(Listing)
      /\ coverageIncomplete' = (coverageIncomplete \/ Len(Listing) > Room
                                  \/ \E e \in ToSet(Taken) : BlocksCoverage(e))
  BY DEF ReadTree, Taken, Room, Listing, world
<1>2. /\ ds \in SUBSET DOMAIN commit /\ Queued \cap ds = {} /\ ds \cup Queued \subseteq Directories
      /\ \A d \in ds \cup Queued :
           d = "root" \/ \E p \in PlacesIn(ds) : IsTree(p) /\ At(commit, p).name = d
      /\ ~ coverageIncomplete => ReadIs(ds)
  BY <1>1 DEF WalkIs, QueueIs
<1>3. /\ Dir \in DOMAIN commit /\ Dir \in Queued
      /\ \A i \in 1..Len(Taken) :
           /\ <<Dir, i>> \in Places(commit) /\ At(commit, <<Dir, i>>) = Taken[i]
           /\ Taken[i].kind = "tree" =>
                /\ IsTree(<<Dir, i>>)
                /\ Taken[i].name \in Directories \ {"root"} /\ Taken[i].name \in DOMAIN commit
                /\ Taken[i].name \notin ds \cup Queued
  BY TakenPlaces
<1>4. /\ queue' \in Seq([dir : DOMAIN commit, depth : Nat])
      /\ \A i, j \in 1..Len(queue') : queue'[i].dir = queue'[j].dir => i = j
      /\ Queued' = (Queued \ {Dir}) \cup News
  BY QueueReads
<1>5. PlacesIn(more) = PlacesIn(ds) \cup {<<Dir, i>> : i \in 1..Len(Listing)}
  BY PlacesGrow
<1>6. News \subseteq Directories /\ News \cap (ds \cup {Dir}) = {}
  BY <1>3 DEF News
<1>7. more \cup Queued' = ds \cup Queued \cup News
  BY <1>3, <1>4
<1>8. /\ Directories' = Directories /\ PlacesIn(more)' = PlacesIn(more)
      /\ Collectable(more)' = Collectable(more) /\ \A p : IsTree(p)' = IsTree(p)
  BY <1>1, CommitStays
<1>9. ASSUME NEW d \in News
      PROVE  \E p \in PlacesIn(more) : IsTree(p) /\ At(commit, p).name = d
  <2>1. PICK i \in 1..Len(Taken) : Taken[i].kind = "tree" /\ d = Taken[i].name
    BY DEF News
  <2>2. <<Dir, i>> \in PlacesIn(more)
    BY <1>3 DEF PlacesIn
  <2>3. QED
    BY <1>3, <2>1, <2>2
<1>10. QueueIs(more)'
  <2>1. \A d \in ds \cup Queued \cup News :
          d = "root" \/ \E p \in PlacesIn(more) : IsTree(p) /\ At(commit, p).name = d
    BY <1>2, <1>5, <1>9
  <2>2. Queued' \cap more = {} /\ more \cup Queued' \subseteq Directories
    BY <1>2, <1>3, <1>4, <1>6
  <2>3. more \in SUBSET DOMAIN commit
    BY <1>2, <1>3
  <2>4. \A d \in more \cup Queued' :
          d = "root" \/ \E p \in PlacesIn(more) : IsTree(p) /\ At(commit, p).name = d
    BY <1>7, <2>1
  <2>5. /\ (queue \in Seq([dir : DOMAIN commit, depth : Nat]))'
        /\ (more \in SUBSET DOMAIN commit)'
    BY <1>1, <1>4, <2>3
  <2>6. (\A d \in more \cup Queued :
           d = "root" \/ \E p \in PlacesIn(more) : IsTree(p) /\ At(commit, p).name = d)'
    BY <1>1, <1>8, <2>4
  <2>7. (more \cup Queued \subseteq Directories)' /\ (Queued \cap more = {})'
    BY <1>8, <2>2
  <2>8. QED
    BY <1>4, <2>5, <2>6, <2>7 DEF QueueIs
<1>11. ASSUME ~ coverageIncomplete'
       PROVE  ReadIs(more)'
  <2>1. ~ coverageIncomplete /\ ~ (Len(Listing) > Room) /\ ~ \E e \in ToSet(Taken) : BlocksCoverage(e)
    BY <1>1, <1>11
  <2>2. /\ "root" \in ds \cup Queued
        /\ \A p \in PlacesIn(ds) : IsTree(p) => At(commit, p).name \in ds \cup Queued
        /\ \A p \in PlacesIn(ds) : ~ BlocksCoverage(At(commit, p))
        /\ Collectable(ds) \subseteq eligible
    BY <1>2, <2>1 DEF ReadIs
  <2>3. Taken = Listing /\ ToSet(Taken) = {Taken[i] : i \in 1..Len(Taken)}
    <3>1. Len(Listing) <= Room
      BY <2>1, TakenIs
    <3>2. QED
      BY <3>1, TakenIs
  <2>4. ASSUME NEW p \in PlacesIn(more), p \notin PlacesIn(ds)
        PROVE  /\ IsTree(p) => At(commit, p).name \in News
               /\ ~ BlocksCoverage(At(commit, p))
    <3>1. PICK i \in 1..Len(Taken) : p = <<Dir, i>>
      BY <1>5, <2>3, <2>4
    <3>2. At(commit, p) = Taken[i]
      BY <1>3, <3>1
    <3>3. IsTree(p) => At(commit, p).name \in News
      BY <3>2 DEF IsTree, News
    <3>4. QED
      BY <2>1, <2>3, <3>2, <3>3
  <2>5. Collectable(more) \subseteq eligible'
    BY <2>2, <2>3, EligibleReads
  <2>6. /\ "root" \in more \cup Queued'
        /\ \A p \in PlacesIn(more) : IsTree(p) => At(commit, p).name \in more \cup Queued'
        /\ \A p \in PlacesIn(more) : ~ BlocksCoverage(At(commit, p))
    BY <1>5, <1>7, <2>2, <2>4
  <2>7. QED
    BY <1>1, <1>8, <2>5, <2>6 DEF ReadIs
<1>12. entries' = Cardinality(PlacesIn(more))
  BY <1>1, PlacesGrow
<1>13. eligible' \subseteq Collectable(more)
  BY EligibleReads
<1>14. QED
  BY <1>1, <1>8, <1>10, <1>11, <1>12, <1>13 DEF WalkIs, Before


-----------------------------------------------------------------------------
(* The steps.                                                              *)

\* What the end of a batch does.
LEMMA BatchTakes ==
  ASSUME CollectionInv, EndBatch
  PROVE  /\ totalBytes' \in 0..MaxTotalBytes /\ files' \in Seq(Blobs) /\ failed' \in Nat
         /\ coverageIncomplete' \in BOOLEAN
         /\ ToSet(files) \subseteq ToSet(files')
         /\ \A x \in ToSet(files') :
              x \in ToSet(files) \/ \E i \in 1..Len(Batch) : x = Batch[i]
         /\ Len(files') + failed' = Len(files) + failed + Len(Batch)
         /\ failed <= failed'
         /\ coverageIncomplete => coverageIncomplete'
         /\ coverageIncomplete' => coverageIncomplete \/ failed' > 0
         /\ ~ coverageIncomplete' => \A i \in 1..Len(Batch) : Batch[i] \in ToSet(files')
<1> DEFINE sum == [total |-> totalBytes, files |-> files, failed |-> failed,
                   incomplete |-> coverageIncomplete]
           blobs == [k \in 1..Len(Batch) |-> answered[k]]
           now == TakeAll(sum, blobs)
           n == Len(Batch)
<1>1. /\ phase = "blobs" /\ DOMAIN answered = DOMAIN Batch
      /\ totalBytes' = now.total /\ files' = now.files
      /\ failed' = now.failed /\ coverageIncomplete' = now.incomplete
  BY DEF EndBatch
<1>2. PICK ds \in SUBSET DOMAIN commit : WalkIs(ds)
  BY DEF CollectionInv
<1>3. /\ commit \in Commits /\ ds \in SUBSET Directories /\ eligible \subseteq Collectable(ds)
      /\ start \in Nat /\ eligible \subseteq Blobs
  <2>1. /\ commit \in Commits /\ ds \in SUBSET Directories /\ eligible \subseteq Collectable(ds)
        /\ start \in Nat
    BY <1>2 DEF CollectionInv, WalkIs, QueueIs, FilesAre
  <2>2. Collectable(ds) \subseteq Blobs
    BY <2>1, ItemIs DEF Collectable, PlacesIn
  <2>3. QED
    BY <2>1, <2>2
<1>4. n \in Nat /\ DOMAIN Batch = 1..n /\ \A k \in 1..n : Batch[k] \in eligible
  BY <1>3, BatchIs
<1>5. \A k \in 1..n : answered[k] \in {None, Batch[k]}
  BY <1>1, <1>4 DEF CollectionInv, AnswersAre
<1>6. /\ totalBytes \in Nat /\ totalBytes <= MaxTotalBytes /\ MaxTotalBytes \in Nat
      /\ files \in Seq(Blobs) /\ failed \in Nat /\ coverageIncomplete \in BOOLEAN
  BY LimitsAssumption DEF CollectionInv, FilesAre, CoverageIs
<1>7. sum \in Sums
  BY <1>6 DEF Sums
<1> HIDE DEF n
<1>8. blobs \in Seq(Blobs \cup {None}) /\ Len(blobs) = n /\ \A k \in 1..n : blobs[k] = answered[k]
  <2>1. \A k \in 1..n : answered[k] \in Blobs \cup {None}
    BY <1>3, <1>4, <1>5
  <2>2. blobs = [k \in 1..n |-> answered[k]]
    BY DEF n
  <2> HIDE DEF blobs
  <2>3. QED
    BY <1>4, <2>1, <2>2
<1>9. /\ sum.total = totalBytes /\ sum.files = files /\ sum.failed = failed
      /\ sum.incomplete = coverageIncomplete
  OBVIOUS
<1> HIDE DEF sum, blobs
<1>10. TookUpTo(now, n, sum, blobs)
  BY <1>7, <1>8, TakeAllIs
<1> HIDE DEF now
<1>11. now \in Sums /\ now.total <= MaxTotalBytes
  BY <1>6, <1>9, <1>10 DEF TookUpTo
<1>12. /\ totalBytes' \in 0..MaxTotalBytes /\ files' \in Seq(Blobs) /\ failed' \in Nat
       /\ coverageIncomplete' \in BOOLEAN
  BY <1>1, <1>6, <1>11 DEF Sums
<1>13. /\ ToSet(files) \subseteq ToSet(files')
       /\ Len(files') + failed' = Len(files) + failed + n
       /\ failed <= failed'
       /\ coverageIncomplete => coverageIncomplete'
       /\ coverageIncomplete' => coverageIncomplete \/ failed' > 0
  BY <1>1, <1>9, <1>10 DEF TookUpTo
<1>14. \A x \in ToSet(files') : x \in ToSet(files) \/ \E i \in 1..n : x = Batch[i]
  <2>1. \A x \in ToSet(files') :
          x \in ToSet(files) \/ \E i \in 1..n : x = blobs[i] /\ x # None
    BY <1>1, <1>9, <1>10 DEF TookUpTo
  <2>2. QED
    BY <1>5, <1>8, <2>1
<1>15. ~ coverageIncomplete' => \A i \in 1..n : Batch[i] \in ToSet(files')
  <2>1. ~ coverageIncomplete' => \A i \in 1..n : blobs[i] # None /\ blobs[i] \in ToSet(files')
    BY <1>1, <1>10 DEF TookUpTo
  <2>2. QED
    BY <1>5, <1>8, <2>1
<1>16. QED
  BY <1>12, <1>13, <1>14, <1>15 DEF n

\* Phases only go on.
LEMMA PhaseStep ==
  ASSUME CollectionInv, Next
  PROVE  /\ phase' \in AllPhases /\ commit' = commit /\ changes' \in 0..MaxChanges
         /\ phase' \in Before => phase \in Before
         /\ phase' \in {"tree"} \cup After => phase \in {"tree"} \cup After \/ ReadCommit
         /\ phase' \in After => phase \in After \/ StopWalk \/ EndWalk
         /\ phase' = "blobs" => phase = "blobs" \/ StopWalk \/ EndWalk
         /\ coverageIncomplete => coverageIncomplete'
         /\ decision # None => phase = "decided"
<1>1. /\ phase \in AllPhases /\ changes \in 0..MaxChanges /\ MaxChanges \in Nat
      /\ coverageIncomplete \in BOOLEAN
      /\ decision # None => phase = "decided"
  BY LimitsAssumption DEF CollectionInv, DecisionIs, CoverageIs
<1> USE DEF world, walk, fetch, Before, After, AllPhases
<1>2. CASE EndBatch
  <2>1. phase' = phase /\ commit' = commit /\ changes' = changes /\ phase = "blobs"
    BY <1>2 DEF EndBatch
  <2>2. coverageIncomplete => coverageIncomplete'
    BY <1>2, BatchTakes
  <2>3. QED
    BY <1>1, <2>1, <2>2
<1>3. CASE Change
  <2>1. /\ phase' = phase /\ commit' = commit /\ changes' = changes + 1 /\ changes < MaxChanges
        /\ coverageIncomplete' = coverageIncomplete
    BY <1>3 DEF Change
  <2>2. changes' \in 0..MaxChanges
    <3>1. changes \in 0..MaxChanges /\ MaxChanges \in Nat
      BY <1>1
    <3>2. changes' = changes + 1 /\ changes < MaxChanges
      BY <2>1
    <3>3. QED
      BY <3>1, <3>2
  <2> HIDE DEF Before, After, AllPhases
  <2>3. QED
    BY <1>1, <2>1, <2>2
<1>4. CASE Refused
  BY <1>1, <1>4 DEF Refused
<1>5. CASE ReadMetadata
  BY <1>1, <1>5 DEF ReadMetadata
<1>6. CASE ReadCommit
  BY <1>1, <1>6 DEF ReadCommit
<1>7. CASE StopWalk
  BY <1>1, <1>7 DEF StopWalk, CutShort
<1>8. CASE ReadTree
  <2>1. /\ phase = "tree" /\ phase' = phase /\ commit' = commit /\ changes' = changes
        /\ coverageIncomplete' = (coverageIncomplete \/ Len(Listing) > Room
                                    \/ \E e \in ToSet(Taken) : BlocksCoverage(e))
    BY <1>8 DEF ReadTree, Taken, Room, Listing
  <2>2. QED
    BY <1>1, <2>1
<1>9. CASE EndWalk
  BY <1>1, <1>9 DEF EndWalk
<1>10. CASE \E k \in 1..FetchConcurrency : FetchBlob(k)
  <2>1. /\ phase = "blobs" /\ phase' = phase /\ commit' = commit /\ changes' = changes
        /\ coverageIncomplete' = coverageIncomplete
    BY <1>10 DEF FetchBlob
  <2>2. QED
    BY <1>1, <2>1
<1>11. CASE EndBlobs
  BY <1>1, <1>11 DEF EndBlobs
<1>12. CASE ConfirmMetadata
  BY <1>1, <1>12 DEF ConfirmMetadata
<1>13. CASE ConfirmCommit
  BY <1>1, <1>13 DEF ConfirmCommit
<1>14. CASE Decide
  BY <1>1, <1>14 DEF Decide
<1>15. QED
  BY <1>2, <1>3, <1>4, <1>5, <1>6, <1>7, <1>8, <1>9, <1>10, <1>11, <1>12, <1>13, <1>14
     DEF Next, Collect


\* Which steps change what.
LEMMA Frame ==
  ASSUME Next
  PROVE  /\ ReadTree \/ (entries' = entries /\ eligible' = eligible)
         /\ ReadCommit \/ ReadTree \/ queue' = queue
         /\ EndBatch \/ (start' = start /\ files' = files /\ failed' = failed /\ totalBytes' = totalBytes)
         /\ EndBatch \/ (\E k \in 1..FetchConcurrency : FetchBlob(k)) \/ answered' = answered
         /\ StopWalk \/ partial' = partial
         /\ StopWalk \/ ReadTree \/ EndWalk \/ EndBatch \/ coverageIncomplete' = coverageIncomplete
         /\ Decide \/ decision' = decision
<1> USE DEF world, walk, fetch
<1>1. CASE Change
  BY <1>1 DEF Change
<1>2. CASE Refused
  BY <1>2 DEF Refused
<1>3. CASE ReadMetadata
  BY <1>3 DEF ReadMetadata
<1>4. CASE ReadCommit
  BY <1>4 DEF ReadCommit
<1>5. CASE StopWalk
  BY <1>5 DEF StopWalk, CutShort
<1>6. CASE ReadTree
  <2>1. UNCHANGED <<partial, fetch, decision>>
    BY <1>6 DEF ReadTree
  <2>2. QED
    BY <1>6, <2>1
<1>7. CASE EndWalk
  BY <1>7 DEF EndWalk
<1>8. CASE \E k \in 1..FetchConcurrency : FetchBlob(k)
  BY <1>8 DEF FetchBlob
<1>9. CASE EndBatch
  <2>1. UNCHANGED <<walk, decision>>
    BY <1>9 DEF EndBatch
  <2>2. QED
    BY <1>9, <2>1
<1>10. CASE EndBlobs
  BY <1>10 DEF EndBlobs
<1>11. CASE ConfirmMetadata
  BY <1>11 DEF ConfirmMetadata
<1>12. CASE ConfirmCommit
  BY <1>12 DEF ConfirmCommit
<1>13. CASE Decide
  BY <1>13 DEF Decide
<1>14. QED
  BY <1>1, <1>2, <1>3, <1>4, <1>5, <1>6, <1>7, <1>8, <1>9, <1>10, <1>11, <1>12, <1>13
     DEF Next, Collect

LEMMA WalkStep ==
  ASSUME CollectionInv, Next
  PROVE  \E ds \in SUBSET DOMAIN commit' : WalkIs(ds)'
<1>1. PICK ds \in SUBSET DOMAIN commit : WalkIs(ds)
  BY DEF CollectionInv
<1>2. /\ commit \in Commits /\ commit' = commit
      /\ phase' \in Before => phase \in Before
      /\ phase' \in {"tree"} \cup After => phase \in {"tree"} \cup After \/ ReadCommit
      /\ coverageIncomplete => coverageIncomplete'
  BY PhaseStep DEF CollectionInv
<1>3. CASE ReadCommit
  <2>1. phase = "commit"
    BY <1>3 DEF ReadCommit
  <2>2. WalkIs({})'
    BY <1>1, <1>2, <1>3, <2>1, WalkStarts
  <2>3. QED
    BY <2>2
<1>4. CASE ReadTree
  <2>1. PICK more : more = ds \cup {Dir}
    OBVIOUS
  <2>2. WalkIs(more)'
    BY <1>1, <1>2, <1>4, <2>1, WalkReads
  <2>3. more \in SUBSET DOMAIN commit'
    BY <2>2 DEF WalkIs, QueueIs
  <2>4. QED
    BY <2>2, <2>3
<1>5. CASE ~ ReadCommit /\ ~ ReadTree
  <2>1. UNCHANGED <<commit, queue, entries, eligible>>
    BY <1>2, <1>5, Frame
  <2>2. WalkIs(ds)'
    BY <1>1, <1>2, <1>5, <2>1, WalkStays
  <2>3. QED
    BY <1>1, <1>2, <2>2
<1>6. QED
  BY <1>3, <1>4, <1>5

\* What makes the coverage incomplete when a directory is read.
LEMMA ReadingGrounds ==
  ASSUME CollectionInv, ReadTree, coverageIncomplete', ~ coverageIncomplete
  PROVE  Grounds
<1>1. PICK ds \in SUBSET DOMAIN commit : WalkIs(ds)
  BY DEF CollectionInv
<1>2. PICK more : more = ds \cup {Dir}
  OBVIOUS
<1>3. commit \in Commits /\ ds \subseteq Directories
  BY <1>1 DEF CollectionInv, WalkIs, QueueIs
<1>4. /\ Dir \in Directories
      /\ \A i \in 1..Len(Taken) : <<Dir, i>> \in Places(commit) /\ At(commit, <<Dir, i>>) = Taken[i]
  BY <1>1, <1>3, TakenPlaces
<1>5. /\ ToSet(Taken) = {Taken[i] : i \in 1..Len(Taken)}
      /\ Len(Listing) \in Nat /\ entries \in Nat /\ Room \in Nat
  BY <1>1, <1>3, TakenIs
<1>6. Cardinality(PlacesIn(more)) = entries + Len(Listing)
  BY <1>1, <1>2, <1>3, PlacesGrow
<1>7. Len(Listing) > Room \/ \E e \in ToSet(Taken) : BlocksCoverage(e)
  BY DEF ReadTree, Taken, Room, Listing
<1>8. CASE Len(Listing) > Room
  <2>1. /\ IsFiniteSet(Everything) /\ Cardinality(PlacesIn(more)) <= Cardinality(Everything)
    BY <1>2, <1>3, <1>4, EverythingIs
  <2>2. Cardinality(Everything) \in Nat /\ MaxEntries \in Nat
    BY <2>1, FS_CardinalityType, LimitsAssumption
  <2> DEFINE l == Len(Listing)
             c == Cardinality(Everything)
  <2>3. l > MaxEntries - entries /\ entries + l <= c /\ {l, c, entries, MaxEntries} \subseteq Nat
    BY <1>5, <1>6, <1>8, <2>1, <2>2 DEF Room
  <2> HIDE DEF l, c
  <2>4. c > MaxEntries
    BY <2>3
  <2>5. QED
    BY <2>4 DEF c, Grounds
<1>9. CASE \E e \in ToSet(Taken) : BlocksCoverage(e)
  <2>1. PICK i \in 1..Len(Taken) : BlocksCoverage(Taken[i])
    BY <1>5, <1>9
  <2>2. <<Dir, i>> \in PlacesIn(Directories) /\ Item(<<Dir, i>>).entry = Taken[i]
    BY <1>4 DEF PlacesIn, Item
  <2>3. Item(<<Dir, i>>) \in Everything
    BY <1>3, <2>2, EverythingIs
  <2>4. QED
    BY <2>1, <2>2, <2>3 DEF Grounds, BlocksCoverage
<1>10. QED
  BY <1>7, <1>8, <1>9

\* What makes it incomplete when the walk ends.
LEMMA EndingGrounds ==
  ASSUME CollectionInv, Cardinality(eligible) > MaxFiles
  PROVE  Grounds
<1>1. PICK ds \in SUBSET DOMAIN commit : WalkIs(ds)
  BY DEF CollectionInv
<1>2. commit \in Commits /\ ds \subseteq Directories /\ eligible \subseteq Collectable(ds)
  BY <1>1 DEF CollectionInv, WalkIs, QueueIs
<1>3. IsFiniteSet(Everything) /\ Collectable(ds) \subseteq Everything
  BY <1>2, EverythingIs
<1>4. ASSUME NEW x \in eligible
      PROVE  x \in Everything /\ x.entry.kind \in {"file", "link"}
  BY <1>2, <1>3 DEF Collectable, isSupportedPath, Item
<1>5. CASE \E x \in eligible : x.entry.kind = "link"
  BY <1>4, <1>5 DEF Grounds, Hidden
<1>6. CASE ~ \E x \in eligible : x.entry.kind = "link"
  <2>1. eligible \subseteq AllFiles
    BY <1>4, <1>6 DEF AllFiles
  <2>2. AllFiles \subseteq Everything
    BY DEF AllFiles
  <2>3. IsFiniteSet(AllFiles)
    BY <1>3, <2>2, PartIs
  <2>4. /\ Cardinality(eligible) <= Cardinality(AllFiles)
        /\ Cardinality(eligible) \in Nat /\ Cardinality(AllFiles) \in Nat
    BY <2>1, <2>3, PartIs
  <2>5. Cardinality(AllFiles) > MaxFiles
    BY <2>4, LimitsAssumption
  <2>6. QED
    BY <2>5 DEF Grounds
<1>7. QED
  BY <1>5, <1>6

LEMMA CoverageStep ==
  ASSUME CollectionInv, Next
  PROVE  CoverageIs'
<1>1. /\ partial \in BOOLEAN /\ coverageIncomplete \in BOOLEAN
      /\ partial => coverageIncomplete
      /\ coverageIncomplete => partial \/ failed > 0 \/ Grounds
      /\ phase \in After /\ ~ coverageIncomplete => queue = <<>> /\ Cardinality(eligible) <= MaxFiles
  BY DEF CollectionInv, CoverageIs
<1>2. /\ commit' = commit
      /\ phase' \in After => phase \in After \/ StopWalk \/ EndWalk
      /\ coverageIncomplete => coverageIncomplete'
  BY PhaseStep
<1>3. Grounds' = Grounds
  BY <1>2, CommitStays
<1>4. CASE StopWalk
  <2>1. partial' = TRUE /\ coverageIncomplete' = TRUE
    BY <1>4 DEF StopWalk, CutShort
  <2>2. QED
    BY <2>1 DEF CoverageIs
<1>5. CASE ReadTree
  <2>1. /\ phase' = "tree" /\ partial' = partial /\ failed' = failed
        /\ coverageIncomplete' \in BOOLEAN
    BY <1>5 DEF ReadTree, fetch
  <2>2. coverageIncomplete' => coverageIncomplete \/ Grounds
    BY <1>5, ReadingGrounds
  <2>3. phase' \notin After
    BY <2>1 DEF After
  <2>4. QED
    BY <1>1, <1>2, <1>3, <2>1, <2>2, <2>3 DEF CoverageIs
<1>6. CASE EndWalk
  <2>1. /\ queue = <<>> /\ queue' = queue /\ eligible' = eligible /\ partial' = partial
        /\ failed' = failed
        /\ coverageIncomplete' = (coverageIncomplete \/ Cardinality(eligible) > MaxFiles)
    BY <1>6 DEF EndWalk, walk, fetch
  <2>2. Cardinality(eligible) > MaxFiles => Grounds
    BY EndingGrounds
  <2>3. Cardinality(eligible) \in Nat /\ MaxFiles \in Nat
    <3>1. PICK ds \in SUBSET DOMAIN commit : WalkIs(ds)
      BY DEF CollectionInv
    <3>2. commit \in Commits /\ ds \subseteq Directories /\ eligible \subseteq Collectable(ds)
      BY <3>1 DEF CollectionInv, WalkIs, QueueIs
    <3>3. IsFiniteSet(Collectable(ds))
      BY <3>2, EverythingIs
    <3>4. QED
      BY <3>2, <3>3, PartIs, LimitsAssumption
  <2>4. ~ (Cardinality(eligible) > MaxFiles) => Cardinality(eligible) <= MaxFiles
    BY <2>3
  <2>5. QED
    BY <1>1, <1>3, <2>1, <2>2, <2>4 DEF CoverageIs
<1>7. CASE EndBatch
  <2>1. /\ phase = "blobs" /\ phase' = phase /\ queue' = queue /\ eligible' = eligible
        /\ partial' = partial
    BY <1>7 DEF EndBatch, walk
  <2>2. /\ coverageIncomplete' \in BOOLEAN
        /\ coverageIncomplete' => coverageIncomplete \/ failed' > 0
        /\ failed <= failed' /\ failed' \in Nat /\ failed \in Nat
    BY <1>7, BatchTakes DEF CollectionInv, FilesAre
  <2>3. failed > 0 => failed' > 0
    BY <2>2
  <2>4. QED
    BY <1>1, <1>2, <1>3, <2>1, <2>2, <2>3 DEF CoverageIs, After
<1>8. CASE ~ StopWalk /\ ~ ReadTree /\ ~ EndWalk /\ ~ EndBatch
  <2>1. /\ partial' = partial /\ coverageIncomplete' = coverageIncomplete /\ failed' = failed
        /\ eligible' = eligible /\ (queue' = queue \/ ReadCommit)
    BY <1>8, Frame
  <2>2. phase' \in After => phase \in After /\ queue' = queue
    <3>1. ReadCommit => phase' \notin After
      BY DEF ReadCommit, After
    <3>2. QED
      BY <1>2, <1>8, <2>1, <3>1
  <2>3. QED
    BY <1>1, <1>3, <2>1, <2>2 DEF CoverageIs
<1>9. QED
  BY <1>4, <1>5, <1>6, <1>7, <1>8


\* What the steps that leave the files alone keep.
LEMMA FilesStay ==
  ASSUME FilesAre, commit' = commit,
         UNCHANGED <<eligible, start, files, failed, totalBytes>>,
         phase' \in Before \cup {"tree"} => phase \in Before \cup {"tree"} /\ answered' = answered,
         phase' \in After => phase \in After,
         coverageIncomplete => coverageIncomplete',
         phase' \in After \ {"blobs"} => start >= Len(withinFileLimit)
  PROVE  FilesAre'
<1>1. withinFileLimit' = withinFileLimit
  BY DEF withinFileLimit
<1>2. Blobs' = Blobs
  BY CommitStays
<1>3. QED
  BY <1>1, <1>2 DEF FilesAre

LEMMA FilesStep ==
  ASSUME CollectionInv, Next
  PROVE  FilesAre'
<1>1. PICK ds \in SUBSET DOMAIN commit : WalkIs(ds)
  BY DEF CollectionInv
<1>2. /\ commit \in Commits /\ ds \in SUBSET Directories /\ eligible \subseteq Collectable(ds)
      /\ FilesAre /\ start \in Nat
  BY <1>1 DEF CollectionInv, WalkIs, QueueIs, FilesAre
<1>3. /\ commit' = commit
      /\ phase' \in Before => phase \in Before
      /\ phase' \in {"tree"} \cup After => phase \in {"tree"} \cup After \/ ReadCommit
      /\ phase' \in After => phase \in After \/ StopWalk \/ EndWalk
      /\ coverageIncomplete => coverageIncomplete'
  BY PhaseStep
<1>4. Blobs' = Blobs
  BY <1>3, CommitStays
<1> DEFINE w == withinFileLimit
           n == Len(w)
<1>5. n \in Nat /\ MaxFiles \in Nat /\ n <= MaxFiles
  BY <1>2, ListingIs, LimitsAssumption
<1>6. CASE StopWalk \/ EndWalk
  <2>1. /\ phase = "tree" /\ phase' = "blobs"
        /\ UNCHANGED <<eligible, start, files, failed, totalBytes, answered>>
    BY <1>6 DEF StopWalk, CutShort, EndWalk, walk, fetch
  <2>2. w' = w
    BY <2>1 DEF withinFileLimit
  <2>3. start = 0 /\ failed = 0 /\ files = <<>> /\ Len(files) = 0
    BY <1>2, <2>1 DEF FilesAre
  <2> HIDE DEF w
  <2>4. /\ Len(files') + failed' = Least(start', Len(w'))
        /\ \A i \in 1..n : ~ (i <= start)
    <3>1. Least(0, n) = 0 /\ \A i \in 1..n : ~ (i <= 0)
      BY <1>5 DEF Least
    <3>2. QED
      BY <2>1, <2>2, <2>3, <3>1
  <2>5. phase' \notin After \ {"blobs"} /\ phase' \notin Before \cup {"tree"}
    BY <2>1 DEF After, Before
  <2>6. QED
    BY <1>2, <1>4, <2>1, <2>2, <2>4, <2>5 DEF FilesAre, w
<1>7. CASE ReadTree
  <2>1. /\ phase = "tree" /\ phase' = phase /\ eligible \subseteq eligible'
        /\ UNCHANGED <<start, files, failed, totalBytes, answered>>
    BY <1>7 DEF ReadTree, fetch
  <2>2. phase' \notin After
    BY <2>1 DEF After
  <2>3. QED
    BY <1>2, <1>4, <2>1, <2>2 DEF FilesAre
<1>8. CASE EndBatch
  <2>1. /\ phase = "blobs" /\ phase' = phase /\ eligible' = eligible
        /\ start' = start + FetchConcurrency /\ answered' = <<>>
    BY <1>8 DEF EndBatch, walk
  <2>2. w' = w /\ FetchConcurrency \in Nat
    BY <2>1, LimitsAssumption DEF withinFileLimit
  <2> DEFINE m == Len(Batch)
  <2>3. /\ m \in Nat /\ Least(start + FetchConcurrency, n) = Least(start, n) + m
        /\ \A k \in 1..m : Batch[k] = w[start + k] /\ Batch[k] \in eligible
        /\ \A i \in 1..n : i <= start + FetchConcurrency => i <= start \/ i - start \in 1..m
    BY <1>2, BatchIs
  <2>4. /\ totalBytes' \in 0..MaxTotalBytes /\ files' \in Seq(Blobs) /\ failed' \in Nat
        /\ \A x \in ToSet(files') : x \in ToSet(files) \/ \E i \in 1..m : x = Batch[i]
        /\ ToSet(files) \subseteq ToSet(files')
        /\ Len(files') + failed' = Len(files) + failed + m
        /\ coverageIncomplete => coverageIncomplete'
        /\ ~ coverageIncomplete' => \A i \in 1..m : Batch[i] \in ToSet(files')
    BY <1>8, BatchTakes
  <2>5. /\ Len(files) + failed = Least(start, n)
        /\ ~ coverageIncomplete => \A i \in 1..n : i <= start => w[i] \in ToSet(files)
        /\ ToSet(files) \subseteq eligible
    BY <1>2, <2>1 DEF FilesAre, After
  <2> HIDE DEF w, n, m
  <2>6. Len(files') + failed' = Least(start', n)
    BY <2>1, <2>3, <2>4, <2>5
  <2>7. Least(start', n) <= MaxFiles
    <3>1. start' \in Nat
      BY <1>2, <2>1, <2>2
    <3>2. QED
      BY <1>5, <3>1 DEF Least
  <2>8. ToSet(files') \subseteq eligible
    BY <2>3, <2>4, <2>5
  <2>9. ASSUME ~ coverageIncomplete', NEW i \in 1..n, i <= start + FetchConcurrency
        PROVE  w[i] \in ToSet(files')
    <3>1. CASE i <= start
      BY <2>4, <2>5, <2>9, <3>1
    <3>2. CASE i - start \in 1..m
      <4>1. start + (i - start) = i
        BY <1>2, <1>5
      <4>2. QED
        BY <2>3, <2>4, <2>9, <3>2, <4>1
    <3>3. QED
      BY <2>3, <2>9, <3>1, <3>2
  <2>10. n' = n /\ start' \in Nat
    BY <1>2, <2>1, <2>2 DEF n
  <2>11. phase' \notin Before \cup {"tree"} /\ phase' \notin After \ {"blobs"}
    BY <2>1 DEF Before, After
  <2>12. Len(files') + failed' <= MaxFiles
    BY <2>6, <2>7
  <2>13. QED
    BY <1>4, <2>1, <2>2, <2>4, <2>6, <2>8, <2>9, <2>10, <2>11, <2>12 DEF FilesAre, w, n
<1>9. CASE ~ StopWalk /\ ~ EndWalk /\ ~ ReadTree /\ ~ EndBatch
  <2>1. /\ UNCHANGED <<eligible, start, files, failed, totalBytes>>
        /\ answered' = answered \/ \E k \in 1..FetchConcurrency : FetchBlob(k)
    BY <1>9, Frame
  <2>2. phase' \in Before \cup {"tree"} => phase \in Before \cup {"tree"} /\ answered' = answered
    <3>1. (\E k \in 1..FetchConcurrency : FetchBlob(k)) => phase' = "blobs"
      BY DEF FetchBlob
    <3>2. ReadCommit => phase = "commit"
      BY DEF ReadCommit
    <3>3. phase' \in Before \cup {"tree"} => phase \in Before \cup {"tree"} \cup After
      BY <1>3, <3>2 DEF Before
    <3>4. phase \in After => phase' \notin Before \cup {"tree"}
      BY <1>9 DEF Next, Change, Collect, Refused, ReadMetadata, ReadCommit, FetchBlob, EndBlobs,
         ConfirmMetadata, ConfirmCommit, Decide, Before, After
    <3>5. QED
      BY <2>1, <3>1, <3>3, <3>4 DEF Before
  <2>3. phase' \in After \ {"blobs"} => start >= n
    <3>1. CASE EndBlobs
      <4>1. Batch = <<>>
        BY <3>1 DEF EndBlobs
      <4>2. QED
        BY <1>2, <4>1, BatchIs
    <3>2. CASE ~ EndBlobs
      <4>1. phase' \in After \ {"blobs"} => phase \in After \ {"blobs"}
        BY <1>9, <3>2 DEF Next, Change, Collect, Refused, ReadMetadata, ReadCommit, FetchBlob,
           ConfirmMetadata, ConfirmCommit, Decide, After
      <4>2. QED
        BY <1>2, <4>1 DEF FilesAre
    <3>3. QED
      BY <3>1, <3>2
  <2>4. QED
    BY <1>2, <1>3, <1>9, <2>1, <2>2, <2>3, FilesStay
<1>10. QED
  BY <1>6, <1>7, <1>8, <1>9

LEMMA AnswersStep ==
  ASSUME CollectionInv, Next
  PROVE  AnswersAre'
<1>1. /\ FilesAre /\ AnswersAre
      /\ phase' = "blobs" => phase = "blobs" \/ StopWalk \/ EndWalk
  BY PhaseStep DEF CollectionInv
<1>2. SUFFICES ASSUME phase' = "blobs"
               PROVE  \A k \in DOMAIN answered' : k \in 1..Len(Batch') /\ answered'[k] \in {None, Batch'[k]}
  BY DEF AnswersAre
<1>3. CASE StopWalk \/ EndWalk
  <2>1. phase = "tree" /\ answered' = answered
    BY <1>3 DEF StopWalk, CutShort, EndWalk, fetch
  <2>2. answered' = <<>>
    BY <1>1, <2>1 DEF FilesAre
  <2>3. DOMAIN answered' = {}
    BY <2>2
  <2>4. QED
    BY <2>3
<1>4. CASE EndBatch
  <2>1. answered' = <<>>
    BY <1>4 DEF EndBatch
  <2>2. DOMAIN answered' = {}
    BY <2>1
  <2>3. QED
    BY <2>2
<1>5. CASE ~ StopWalk /\ ~ EndWalk /\ ~ EndBatch
  <2>1. phase = "blobs"
    BY <1>1, <1>2, <1>5
  <2>2. start' = start /\ eligible' = eligible
    <3>1. ~ ReadTree
      BY <2>1 DEF ReadTree
    <3>2. QED
      BY <1>5, <3>1, Frame
  <2>3. Batch' = Batch
    BY <2>2 DEF Batch, withinFileLimit
  <2>4. \A k \in DOMAIN answered : k \in 1..Len(Batch) /\ answered[k] \in {None, Batch[k]}
    BY <1>1, <2>1 DEF AnswersAre
  <2>5. CASE \E k \in 1..FetchConcurrency : FetchBlob(k)
    <3>1. PICK k \in 1..FetchConcurrency : FetchBlob(k)
      BY <2>5
    <3>2. PICK blob \in {None, Batch[k]} :
            answered' = [i \in DOMAIN answered \cup {k} |-> IF i = k THEN blob ELSE answered[i]]
      BY <3>1 DEF FetchBlob
    <3>3. k \in DOMAIN Batch
      BY <3>1 DEF FetchBlob
    <3>4. PICK ds \in SUBSET DOMAIN commit : WalkIs(ds)
      BY DEF CollectionInv
    <3>5. /\ commit \in Commits /\ ds \in SUBSET Directories /\ eligible \subseteq Collectable(ds)
          /\ start \in Nat
      BY <3>4 DEF CollectionInv, WalkIs, QueueIs, FilesAre
    <3>6. DOMAIN Batch = 1..Len(Batch)
      BY <3>5, BatchIs
    <3>7. QED
      BY <2>3, <2>4, <3>2, <3>3, <3>6
  <2>6. CASE answered' = answered
    BY <2>3, <2>4, <2>6
  <2>7. QED
    BY <1>5, <2>5, <2>6, Frame
<1>6. QED
  BY <1>3, <1>4, <1>5


LEMMA DecisionStep ==
  ASSUME CollectionInv, Next
  PROVE  DecisionIs'
<1>1. decision # None => phase = "decided"
  BY PhaseStep
<1>2. CASE decision = None /\ ~ Decide
  <2>1. decision' = decision
    BY <1>2, Frame
  <2>2. QED
    BY <1>2, <2>1 DEF DecisionIs
<1>3. CASE Decide
  <2>1. /\ phase' = "decided"
        /\ UNCHANGED <<files, partial, coverageIncomplete, failed>>
    BY <1>3 DEF Decide, walk, fetch
  <2>2. PICK policy \in Policies :
          decision' = [policy |-> policy, says |-> IF Judged(policy) THEN "PASS" ELSE "FAIL"]
    BY <1>3 DEF Decide, Judged
  <2>3. Judged(policy)' = Judged(policy)
    BY <2>1 DEF Judged, createSafetyResults, evaluateCriterion, evaluateLockfile, scanPatterns
  <2>4. QED
    BY <2>1, <2>2, <2>3 DEF DecisionIs
<1>4. CASE decision # None /\ ~ Decide
  <2>1. phase = "decided"
    BY <1>1, <1>4
  <2>2. Change
    BY <2>1 DEF Next, Collect, Refused, Going, ReadMetadata, ReadCommit, StopWalk, CutShort, ReadTree,
       EndWalk, FetchBlob, EndBatch, EndBlobs, ConfirmMetadata, ConfirmCommit, Decide
  <2>3. UNCHANGED <<phase, decision, files, partial, coverageIncomplete, failed>>
    BY <2>2 DEF Change, walk, fetch
  <2>4. PICK policy \in Policies :
          decision = [policy |-> policy, says |-> IF Judged(policy) THEN "PASS" ELSE "FAIL"]
    BY <1>4 DEF CollectionInv, DecisionIs
  <2>5. Judged(policy)' = Judged(policy)
    BY <2>3 DEF Judged, createSafetyResults, evaluateCriterion, evaluateLockfile, scanPatterns
  <2>6. QED
    BY <2>1, <2>3, <2>4, <2>5 DEF DecisionIs
<1>5. QED
  BY <1>2, <1>3, <1>4

LEMMA Initially ==
  ASSUME Init
  PROVE  CollectionInv
<1>1. /\ commit \in Commits /\ phase = "metadata" /\ changes = 0 /\ queue = <<>> /\ entries = 0
      /\ eligible = {} /\ partial = FALSE /\ coverageIncomplete = FALSE
      /\ start = 0 /\ answered = <<>> /\ files = <<>> /\ failed = 0 /\ totalBytes = 0
      /\ decision = None
  BY DEF Init
<1>2. MaxChanges \in Nat /\ MaxFiles \in Nat /\ MaxTotalBytes \in Nat
  BY LimitsAssumption
<1>3. phase \notin {"tree"} \cup After /\ phase \in Before /\ phase \in AllPhases
  BY <1>1 DEF After, Before, AllPhases
<1>4. WalkIs({})
  <2>1. PlacesIn({}) = {} /\ Collectable({}) = {}
    BY DEF PlacesIn, Collectable
  <2>2. Cardinality({}) = 0 /\ Len(queue) = 0 /\ Queued = {}
    BY <1>1, FS_EmptySet DEF Queued
  <2>3. QueueIs({})
    BY <1>1, <2>1, <2>2 DEF QueueIs
  <2>4. QED
    BY <1>1, <1>3, <2>1, <2>2, <2>3 DEF WalkIs
<1>5. CoverageIs
  BY <1>1, <1>3 DEF CoverageIs
<1>6. FilesAre
  <2>1. files \in Seq(Blobs) /\ ToSet(files) = {} /\ Len(files) = 0
    BY <1>1 DEF ToSet
  <2>2. QED
    BY <1>1, <1>2, <1>3, <2>1 DEF FilesAre, After
<1>7. AnswersAre /\ DecisionIs
  BY <1>1 DEF AnswersAre, DecisionIs
<1>8. changes \in 0..MaxChanges
  BY <1>1, <1>2
<1>9. QED
  BY <1>1, <1>3, <1>4, <1>5, <1>6, <1>7, <1>8 DEF CollectionInv

LEMMA Stuttering ==
  ASSUME CollectionInv, UNCHANGED vars
  PROVE  CollectionInv'
<1>1. /\ UNCHANGED <<changes, commit, phase, queue, entries, eligible, partial, coverageIncomplete>>
      /\ UNCHANGED <<start, answered, files, failed, totalBytes, decision>>
  BY DEF vars, world, walk, fetch
<1>2. PICK ds \in SUBSET DOMAIN commit : WalkIs(ds)
  BY DEF CollectionInv
<1>3. coverageIncomplete \in BOOLEAN
  BY DEF CollectionInv, CoverageIs
<1>4. WalkIs(ds)'
  BY <1>1, <1>2, <1>3, WalkStays
<1>5. Grounds' = Grounds /\ Blobs' = Blobs
  BY <1>1, CommitStays
<1>6. withinFileLimit' = withinFileLimit
  BY <1>1 DEF withinFileLimit
<1>7. Batch' = Batch
  BY <1>1, <1>6 DEF Batch
<1>8. CoverageIs' /\ FilesAre' /\ AnswersAre'
  BY <1>1, <1>5, <1>6, <1>7 DEF CollectionInv, CoverageIs, FilesAre, AnswersAre
<1>9. \A policy : Judged(policy)' = Judged(policy)
  BY <1>1 DEF Judged, createSafetyResults, evaluateCriterion, evaluateLockfile, scanPatterns
<1>10. DecisionIs'
  BY <1>1, <1>9 DEF CollectionInv, DecisionIs
<1>11. QED
  BY <1>1, <1>2, <1>4, <1>8, <1>10 DEF CollectionInv

LEMMA CollectionStep ==
  ASSUME CollectionInv, Next
  PROVE  CollectionInv'
<1>1. phase' \in AllPhases /\ commit' = commit /\ changes' \in 0..MaxChanges /\ commit \in Commits
  BY PhaseStep DEF CollectionInv
<1>2. QED
  BY <1>1, WalkStep, CoverageStep, FilesStep, AnswersStep, DecisionStep DEF CollectionInv

\* What is said of the walk, the coverage, the files and the decision holds throughout.
LEMMA CollectionHolds == Spec => []CollectionInv
<1>1. Init => CollectionInv
  BY Initially
<1>2. CollectionInv /\ [Next]_vars => CollectionInv'
  BY CollectionStep, Stuttering
<1>3. QED
  BY <1>1, <1>2, PTL DEF Spec

-----------------------------------------------------------------------------
(* The theorems.                                                           *)

\* The phase, the flags and the counters have their types; no more files are collected
\* than the limit, and no more bytes.
THEOREM CollectionTypes == Spec => []TypeOK
<1>1. ASSUME CollectionInv
      PROVE  TypeOK
  <2>1. /\ Len(files) \in Nat /\ failed \in Nat /\ MaxFiles \in Nat /\ Len(files) + failed <= MaxFiles
        /\ totalBytes \in 0..MaxTotalBytes
    BY <1>1, Listed, LimitsAssumption DEF CollectionInv, FilesAre
  <2> DEFINE l == Len(files)
  <2>2. l <= MaxFiles /\ failed \in 0..MaxFiles
    <3>1. l \in Nat /\ failed \in Nat /\ MaxFiles \in Nat /\ l + failed <= MaxFiles
      BY <2>1
    <3> HIDE DEF l
    <3>2. QED
      BY <3>1
  <2>3. QED
    BY <1>1, <2>1, <2>2
       DEF TypeOK, CollectionInv, CoverageIs, AllPhases, Before, After
<1>2. QED
  BY <1>1, CollectionHolds, PTL

\* When the coverage is complete, all files of the commit were collected, and there is
\* nothing else in it that counts.
LEMMA CompleteIs ==
  ASSUME CollectionInv, phase = "decided", ~ coverageIncomplete
  PROVE  /\ ToSet(files) = AllFiles
         /\ \A x \in Everything : x.entry \in EntryType /\ x.entry.kind \notin Hidden
<1>1. PICK ds \in SUBSET DOMAIN commit : WalkIs(ds)
  BY DEF CollectionInv
<1>2. /\ commit \in Commits /\ ds \in SUBSET Directories /\ eligible \subseteq Collectable(ds)
      /\ ReadIs(ds) /\ queue = <<>> /\ Cardinality(eligible) <= MaxFiles
  BY <1>1 DEF CollectionInv, WalkIs, QueueIs, CoverageIs, After
<1>3. /\ ToSet(files) \subseteq eligible /\ start \in Nat /\ start >= Len(withinFileLimit)
      /\ \A i \in 1..Len(withinFileLimit) : i <= start => withinFileLimit[i] \in ToSet(files)
  BY DEF CollectionInv, FilesAre, After
<1>4. Queued = {}
  <2>1. Len(queue) = 0
    BY <1>2
  <2>2. QED
    BY <2>1 DEF Queued
<1>5. ds = Directories
  <2>1. "root" \in ds /\ \A p \in PlacesIn(ds) : IsTree(p) => At(commit, p).name \in ds
    BY <1>2, <1>4 DEF ReadIs
  <2>2. QED
    BY <1>2, <2>1, DirectoriesAre
<1>6. Everything = {Item(p) : p \in PlacesIn(ds)} /\ PlacesIn(ds) \subseteq Places(commit)
  BY <1>2, <1>5, EverythingIs DEF PlacesIn
<1>7. \A x \in Everything : x.entry \in EntryType /\ x.entry.kind \notin Hidden
  <2>1. ASSUME NEW p \in PlacesIn(ds)
        PROVE  Item(p).entry \in EntryType /\ Item(p).entry.kind \notin Hidden
    BY <1>2, <1>6, ItemIs, CommitIs DEF ReadIs, BlocksCoverage
  <2>2. QED
    BY <1>6, <2>1
<1>8. ASSUME NEW x \in AllFiles
      PROVE  x \in ToSet(files)
  <2>1. PICK p \in PlacesIn(ds) : x = Item(p)
    BY <1>6 DEF AllFiles
  <2>2. isSupportedPath(At(commit, p))
    BY <2>1 DEF AllFiles, isSupportedPath, Item
  <2>3. x \in eligible
    BY <1>2, <2>1, <2>2 DEF ReadIs, Collectable
  <2>4. PICK i \in 1..Len(withinFileLimit) : withinFileLimit[i] = x
    BY <1>2, <2>3, ListingIs
  <2>5. i <= start
    <3>1. Len(withinFileLimit) \in Nat
      BY <1>2, ListingIs
    <3> DEFINE n == Len(withinFileLimit)
    <3>2. n \in Nat /\ i \in 1..n /\ start \in Nat /\ start >= n
      BY <1>3, <3>1
    <3> HIDE DEF n
    <3>3. QED
      BY <3>2
  <2>6. QED
    BY <1>3, <2>4, <2>5
<1>9. ASSUME NEW x \in ToSet(files)
      PROVE  x \in AllFiles
  <2>1. PICK p \in PlacesIn(ds) : x = Item(p) /\ isSupportedPath(At(commit, p))
    BY <1>2, <1>3 DEF Collectable
  <2>2. x \in Everything /\ x.entry.kind \in {"file", "link"}
    BY <1>6, <2>1 DEF isSupportedPath, Item
  <2>3. x.entry.kind \notin Hidden
    BY <1>7, <2>2
  <2>4. QED
    BY <2>2, <2>3 DEF AllFiles, Hidden
<1>10. QED
  BY <1>7, <1>8, <1>9


\* A commit that passes holds nothing that was not looked into, and nothing that a
\* criterion of its policy or a safety rule would have found.
THEOREM PassesAreClean == Spec => []PassIsClean
<1>1. ASSUME CollectionInv, decision # None, decision.says = "PASS"
      PROVE  /\ \A x \in Everything : x.entry.kind \notin Hidden
             /\ \A x \in AllFiles :
                  /\ x.entry.marks \cap ({"secret", "execution"} \cup decision.policy) = {}
                  /\ "lockfile" \in decision.policy => ~LacksLock(AllFiles, x)
  <2>1. phase = "decided"
    BY <1>1 DEF CollectionInv, DecisionIs
  <2>2. PICK policy \in Policies :
          decision = [policy |-> policy, says |-> IF Judged(policy) THEN "PASS" ELSE "FAIL"]
    BY <1>1 DEF CollectionInv, DecisionIs
  <2>3. decision.policy = policy /\ Judged(policy)
    BY <1>1, <2>2
  <2>4. createSafetyResults(policy) = {} /\ \A key \in policy : evaluateCriterion(key) = "PASS"
    BY <2>3 DEF Judged
  <2>5. ~ coverageIncomplete
    BY <2>4 DEF createSafetyResults
  <2>6. scanPatterns("secret") = {} /\ scanPatterns("execution") = {}
    BY <2>4 DEF createSafetyResults
  <2>7. /\ ToSet(files) = AllFiles
        /\ \A x \in Everything : x.entry \in EntryType /\ x.entry.kind \notin Hidden
    BY <1>1, <2>1, <2>5, CompleteIs
  <2>8. \A key \in policy : key \in Rules => scanPatterns(key) = {}
    BY <2>4 DEF evaluateCriterion, Rules
  <2>9. ASSUME NEW x \in AllFiles, NEW m \in x.entry.marks, m \in {"secret", "execution"} \cup policy
        PROVE  FALSE
    <3>1. x.entry \in EntryType
      BY <2>7 DEF AllFiles
    <3>2. m \in Rules
      BY <3>1 DEF EntryType
    <3>3. x \in scanPatterns(m)
      BY <2>7 DEF scanPatterns
    <3>4. QED
      BY <2>6, <2>8, <2>9, <3>2, <3>3
  <2>10. ASSUME "lockfile" \in policy, NEW x \in AllFiles, LacksLock(AllFiles, x)
         PROVE  FALSE
    <3>1. evaluateLockfile = "PASS"
      BY <2>4, <2>10 DEF evaluateCriterion
    <3>2. x.entry.name = "package.json"
      BY <2>10 DEF LacksLock
    <3>3. QED
      BY <2>7, <2>10, <3>1, <3>2 DEF evaluateLockfile
  <2>11. QED
    BY <2>3, <2>7, <2>9, <2>10
<1>2. CollectionInv => PassIsClean
  BY <1>1 DEF PassIsClean
<1>3. QED
  BY <1>2, CollectionHolds, PTL

\* A commit fails for a reason that lies in it, or in the policy, if nothing was cut short
\* and no file was refused.
THEOREM FailuresAreGrounded == Spec => []FailIsGrounded
<1>1. ASSUME CollectionInv, decision # None, decision.says = "FAIL", ~ partial, failed = 0,
             ~ Grounds, decision.policy \subseteq Rules \cup {"lockfile"}
      PROVE  \/ \E x \in AllFiles :
                  \/ x.entry.marks \cap ({"secret", "execution"} \cup decision.policy) # {}
                  \/ "lockfile" \in decision.policy /\ LacksLock(AllFiles, x)
             \/ "lockfile" \in decision.policy /\ ~\E x \in AllFiles : x.entry.name = "package.json"
  <2>1. phase = "decided"
    BY <1>1 DEF CollectionInv, DecisionIs
  <2>2. PICK policy \in Policies :
          decision = [policy |-> policy, says |-> IF Judged(policy) THEN "PASS" ELSE "FAIL"]
    BY <1>1 DEF CollectionInv, DecisionIs
  <2>3. decision.policy = policy /\ ~ Judged(policy)
    BY <1>1, <2>2
  <2>4. ~ coverageIncomplete
    BY <1>1 DEF CollectionInv, CoverageIs
  <2>5. ToSet(files) = AllFiles
    BY <1>1, <2>1, <2>4, CompleteIs
  <2>6. ASSUME NEW m \in {"secret", "execution"} \cup policy, scanPatterns(m) # {}
        PROVE  \E x \in AllFiles : x.entry.marks \cap ({"secret", "execution"} \cup policy) # {}
    BY <2>5, <2>6 DEF scanPatterns
  <2>7. ASSUME NEW key \in policy
        PROVE  /\ key \in Rules \/ key = "lockfile"
               /\ evaluateCriterion(key) # "ERROR"
    <3>1. key \in Rules \/ key = "lockfile"
      BY <1>1, <2>3
    <3>2. QED
      BY <3>1 DEF evaluateCriterion, evaluateLockfile
  <2>8. CASE \E key \in policy : evaluateCriterion(key) # "PASS"
    <3>1. PICK key \in policy : evaluateCriterion(key) # "PASS"
      BY <2>8
    <3>2. CASE key = "lockfile"
      <4>1. evaluateLockfile # "PASS"
        BY <3>1, <3>2 DEF evaluateCriterion
      <4>2. \/ ~ \E x \in AllFiles : x.entry.name = "package.json"
            \/ \E x \in AllFiles : LacksLock(AllFiles, x)
        BY <2>5, <4>1 DEF evaluateLockfile
      <4>3. QED
        BY <2>3, <3>2, <4>2
    <3>3. CASE key \in Rules
      <4>1. scanPatterns(key) # {}
        BY <3>1, <3>3 DEF evaluateCriterion, Rules
      <4>2. QED
        BY <2>3, <2>6, <4>1
    <3>4. QED
      BY <2>7, <3>2, <3>3
  <2>9. CASE createSafetyResults(policy) # {}
    <3>1. scanPatterns("secret") # {} \/ scanPatterns("execution") # {}
      BY <1>1, <2>4, <2>7, <2>9 DEF createSafetyResults
    <3>2. QED
      BY <2>3, <2>6, <3>1
  <2>10. QED
    BY <2>3, <2>8, <2>9 DEF Judged
<1>2. CollectionInv => FailIsGrounded
  BY <1>1 DEF FailIsGrounded, Grounds
<1>3. QED
  BY <1>2, CollectionHolds, PTL

===============================================================================
