--------------------------- MODULE SourceCollection ---------------------------
(***************************************************************************)
(* One analysis of a commit: the source is collected from GitHub           *)
(* (github/client.ts), searched for patterns (analysis/evaluators.ts) and  *)
(* judged (analysis/service.ts).                                           *)
(*                                                                         *)
(* A commit never changes, but the repository may: it is renamed, replaced *)
(* by another one of its name, hidden, shown again, at any time between    *)
(* two requests.  Every request may fail.                                  *)
(*                                                                         *)
(* Abstractions.  An entry of a tree has the kind the code makes of its    *)
(* type, mode and path; its path is its rank in the order of paths.  What  *)
(* a blob holds are the rules of the evaluators it matches: marks.         *)
(***************************************************************************)
EXTENDS Naturals, Sequences, SequencesExt, FiniteSets

CONSTANTS
  Commits,           \* commits: trees of entries, by directory
  Policies,          \* evaluator keys of the policies' criteria
  MaxDepth,          \* MAX_TREE_DEPTH
  MaxEntries,        \* MAX_TREE_ENTRIES
  MaxFiles,          \* MAX_FILES
  MaxFileBytes,      \* MAX_FILE_BYTES
  MaxTotalBytes,     \* MAX_TOTAL_BYTES
  FetchConcurrency,  \* FETCH_CONCURRENCY
  MaxChanges,        \* bound of the changes of the repository
  None               \* null

\* What makes an entry one that cannot be looked into: it is an excluded directory, an
\* archive, a symbolic link, a submodule or has an unsafe name.
Hidden == {"excluded", "archive", "link", "submodule", "unsafe"}

\* Rules by which files are searched, each for a key of the evaluators.
Rules == {"secret", "execution", "html", "cors"}

EntryType ==
  [path : Nat, name : STRING, kind : {"file", "tree", "skipped"} \cup Hidden, size : Nat,
   marks : SUBSET Rules]

\* The places of a commit's entries, and the entry at a place.
Places(c) == UNION {{d} \X (1..Len(c[d])) : d \in DOMAIN c}
At(c, place) == c[place[1]][place[2]]

\* A commit is finite, and no two of its entries have the same path; the name of a
\* tree stands for the path of the directory.
ASSUME CommitsAssumption ==
  \A c \in Commits :
    /\ "root" \in DOMAIN c /\ \A d \in DOMAIN c : c[d] \in Seq(EntryType)
    /\ IsFiniteSet(Places(c))
    /\ \A p \in Places(c) : At(c, p).kind = "tree" => At(c, p).name \in DOMAIN c \ {"root"}
    /\ \A p, q \in Places(c) :
         p # q =>
           /\ At(c, p).kind = "tree" /\ At(c, q).kind = "tree" => At(c, p).name # At(c, q).name
           /\ At(c, p).kind # "tree" /\ At(c, q).kind # "tree" => At(c, p).path # At(c, q).path
ASSUME LimitsAssumption ==
  {MaxDepth, MaxEntries, MaxFiles, MaxFileBytes, MaxTotalBytes, MaxChanges} \subseteq Nat
  /\ FetchConcurrency \in Nat \ {0}

VARIABLES
  repository,   \* what GitHub has under the URL: its id and name, and whether it is public
  changes,      \* changes it has seen
  commit,       \* the commit asked for
  phase,        \* the request that is made next, or the end
  metadata,     \* the repository as it was first seen, or None
  queue,        \* directories still to be read, with their depth
  entries,      \* enumeratedEntries
  eligible,     \* entries chosen, with their directory
  partial, coverageIncomplete,
  start,        \* files the batches before this one had
  answered,     \* what the blobs of the batch have been answered: the blob, or None
  files,        \* blobs collected
  failed,       \* failedFileCount
  totalBytes,
  decision      \* None, PASS or FAIL, and the policy it was judged by

world == <<repository, changes, commit>>
walk == <<queue, entries, eligible, partial>>
fetch == <<start, answered, files, failed, totalBytes>>
vars == <<world, phase, metadata, walk, coverageIncomplete, fetch, decision>>

-----------------------------------------------------------------------------
(* Entries *)

\* isSupportedPath of blobs: not so are media and, whatever they hold, files of the
\* name of an excluded directory; the kind of both is "skipped".
isSupportedPath(e) == e.kind \in {"file", "link"}

\* Mutant: what is skipped by its name makes the coverage incomplete, too.
BlocksCoverageIfSkipped(e) == e.kind \in Hidden \cup {"skipped"}

\* The entry makes the coverage incomplete.
BlocksCoverage(e) == e.kind \in Hidden

\* The elements of S in the order of their ranks.
InOrder(S, rank) ==
  [k \in 1..Cardinality(S) |->
     CHOOSE x \in S : Cardinality({y \in S : rank[y] < rank[x]}) = k - 1]

\* The trees among the entries, in their order.
Trees(es) ==
  LET places == {i \in 1..Len(es) : es[i].kind = "tree"}
  IN  [k \in 1..Cardinality(places) |-> es[InOrder(places, [i \in places |-> i])[k]]]

-----------------------------------------------------------------------------
(* GitHub *)

Reachable == repository.public /\ repository.name = "asked"

Change ==
  /\ changes < MaxChanges /\ changes' = changes + 1
  /\ repository' \in [id : {1, 2}, name : {"asked", "other"}, public : BOOLEAN] \ {repository}
  /\ UNCHANGED <<commit, phase, metadata, walk, coverageIncomplete, fetch, decision>>

Going == phase \notin {"refused", "decided"}

\* A request fails, or is answered in a way that ends the collection.
Refused ==
  /\ Going /\ phase # "blobs" /\ phase' = "refused"
  /\ UNCHANGED <<world, metadata, walk, coverageIncomplete, fetch, decision>>

-----------------------------------------------------------------------------
(* collect *)

\* The metadata of a public repository; a name that has moved is an error.
ReadMetadata ==
  /\ phase = "metadata" /\ Reachable
  /\ metadata' = repository /\ phase' = "commit"
  /\ UNCHANGED <<world, walk, coverageIncomplete, fetch, decision>>

ReadCommit ==
  /\ phase = "commit" /\ Reachable
  /\ phase' = "tree" /\ queue' = <<[dir |-> "root", depth |-> 0]>>
  /\ UNCHANGED <<world, metadata, entries, eligible, partial, coverageIncomplete, fetch, decision>>

\* The walk stops before its end.
CutShort ==
  /\ phase = "tree" /\ queue # <<>>
  /\ partial' = TRUE /\ coverageIncomplete' = TRUE /\ phase' = "blobs"
  /\ UNCHANGED <<world, metadata, queue, entries, eligible, fetch, decision>>

TooDeep == Head(queue).depth > MaxDepth \/ entries >= MaxEntries

\* A limit is reached, or GitHub cuts the listing of a tree short.
StopWalk == queue # <<>> /\ (TooDeep \/ Reachable) /\ CutShort

\* The next tree; entries beyond the limit are left out.
ReadTree ==
  /\ phase = "tree" /\ queue # <<>> /\ ~TooDeep /\ Reachable
  /\ LET here == Head(queue)
         listed == commit[here.dir]
         room == MaxEntries - entries
         taken == IF Len(listed) <= room THEN listed ELSE SubSeq(listed, 1, room)
     IN  /\ entries' = entries + Len(listed)
         /\ queue' = Tail(queue) \o [k \in 1..Len(Trees(taken)) |->
                       [dir |-> Trees(taken)[k].name, depth |-> here.depth + 1]]
         /\ eligible' = eligible \cup {[dir |-> here.dir, entry |-> e] :
                                        e \in {x \in ToSet(taken) : isSupportedPath(x)}}
         /\ coverageIncomplete' = (coverageIncomplete \/ Len(listed) > room
                                     \/ \E e \in ToSet(taken) : BlocksCoverage(e))
  /\ UNCHANGED <<world, phase, metadata, partial, fetch, decision>>

EndWalk ==
  /\ phase = "tree" /\ queue = <<>> /\ phase' = "blobs"
  /\ coverageIncomplete' = (coverageIncomplete \/ Cardinality(eligible) > MaxFiles)
  /\ UNCHANGED <<world, metadata, walk, fetch, decision>>

\* The files to be fetched, in the order of their paths, and those of this batch.
withinFileLimit ==
  LET sorted == InOrder(eligible, [f \in eligible |-> f.entry.path])
  IN  SubSeq(sorted, 1, IF Len(sorted) <= MaxFiles THEN Len(sorted) ELSE MaxFiles)
Batch ==
  SubSeq(withinFileLimit, start + 1,
         IF start + FetchConcurrency <= Len(withinFileLimit) THEN start + FetchConcurrency
         ELSE Len(withinFileLimit))

\* One of the batch is answered: with the blob that was asked for, or in any other way;
\* one that is too large is not asked for.
FetchBlob(k) ==
  /\ phase = "blobs" /\ k \in DOMAIN Batch /\ k \notin DOMAIN answered
  /\ \E blob \in {None} \cup (IF Batch[k].entry.size <= MaxFileBytes /\ Reachable THEN {Batch[k]} ELSE {}) :
       answered' = [i \in DOMAIN answered \cup {k} |-> IF i = k THEN blob ELSE answered[i]]
  /\ UNCHANGED <<world, phase, metadata, walk, coverageIncomplete, start, files, failed, totalBytes, decision>>

\* Mutant: a file there is no room for is passed over.
TakeOrSkip(sum, blob) ==
  IF blob = None THEN [sum EXCEPT !.failed = @ + 1, !.incomplete = TRUE]
  ELSE IF sum.total + blob.entry.size > MaxTotalBytes THEN sum
  ELSE [sum EXCEPT !.total = @ + blob.entry.size, !.files = Append(@, blob)]

\* A blob is kept, or counted as failed.
Take(sum, blob) ==
  IF blob = None \/ sum.total + (IF blob = None THEN 0 ELSE blob.entry.size) > MaxTotalBytes
  THEN [sum EXCEPT !.failed = @ + 1, !.incomplete = TRUE]
  ELSE [sum EXCEPT !.total = @ + blob.entry.size, !.files = Append(@, blob)]

\* What has been taken of blobs when all are, one after the other.
TakeAll(sum, blobs) ==
  LET after[k \in 0..Len(blobs)] == IF k = 0 THEN sum ELSE Take(after[k - 1], blobs[k])
  IN  after[Len(blobs)]

\* The whole batch is answered, and taken in its order.
EndBatch ==
  /\ phase = "blobs" /\ Batch # <<>> /\ DOMAIN answered = DOMAIN Batch
  /\ LET sum == TakeAll([total |-> totalBytes, files |-> files, failed |-> failed,
                          incomplete |-> coverageIncomplete],
                         [k \in 1..Len(Batch) |-> answered[k]])
     IN  /\ totalBytes' = sum.total /\ files' = sum.files
         /\ failed' = sum.failed /\ coverageIncomplete' = sum.incomplete
  /\ answered' = <<>> /\ start' = start + FetchConcurrency
  /\ UNCHANGED <<world, phase, metadata, walk, decision>>

EndBlobs ==
  /\ phase = "blobs" /\ Batch = <<>> /\ phase' = "confirm metadata"
  /\ UNCHANGED <<world, metadata, walk, coverageIncomplete, fetch, decision>>

\* The repository is asked for again and has to be the same, then the commit.
ConfirmMetadata ==
  /\ phase = "confirm metadata" /\ Reachable /\ repository = metadata
  /\ phase' = "confirm commit"
  /\ UNCHANGED <<world, metadata, walk, coverageIncomplete, fetch, decision>>

ConfirmCommit ==
  /\ phase = "confirm commit" /\ Reachable /\ phase' = "collected"
  /\ UNCHANGED <<world, metadata, walk, coverageIncomplete, fetch, decision>>

-----------------------------------------------------------------------------
(* analyze *)

\* Files that match a rule.
scanPatterns(rule) == {f \in ToSet(files) : rule \in f.entry.marks}

LacksLock(fs, f) ==
  f.entry.name = "package.json" /\ ~\E g \in fs : g.dir = f.dir /\ g.entry.name = "package-lock.json"

evaluateLockfile ==
  LET packages == {f \in ToSet(files) : f.entry.name = "package.json"}
  IN  IF packages = {} THEN "NOT_APPLICABLE"
      ELSE IF \E f \in packages : LacksLock(ToSet(files), f) THEN "FAIL" ELSE "PASS"

\* The result of a criterion; one the server does not know is an error.
evaluateCriterion(key) ==
  IF key = "lockfile" THEN evaluateLockfile
  ELSE IF key \notin Rules THEN "ERROR"
  ELSE IF scanPatterns(key) = {} THEN "PASS" ELSE "FAIL"

\* The safety blockers that are triggered; the exact commit is verified in every
\* collection that ends.
createSafetyResults(policy) ==
  {b \in {"critical_finding", "secret_detected", "partial_analysis", "coverage_incomplete",
          "analyzer_error", "required_files_missing"} :
     \/ b = "critical_finding" /\ scanPatterns("secret") \cup scanPatterns("execution") # {}
     \/ b = "secret_detected" /\ scanPatterns("secret") # {}
     \/ b = "partial_analysis" /\ partial
     \/ b = "coverage_incomplete" /\ coverageIncomplete
     \/ b = "analyzer_error" /\ \E key \in policy : evaluateCriterion(key) = "ERROR"
     \/ b = "required_files_missing" /\ failed > 0}

\* The commit is judged by a policy that was pinned before.
Decide ==
  /\ phase = "collected" /\ phase' = "decided"
  /\ \E policy \in Policies :
       decision' = [policy |-> policy,
                    says |-> IF createSafetyResults(policy) = {} /\ \A key \in policy : evaluateCriterion(key) = "PASS"
                             THEN "PASS" ELSE "FAIL"]
  /\ UNCHANGED <<world, metadata, walk, coverageIncomplete, fetch>>

-----------------------------------------------------------------------------

Init ==
  /\ repository = [id |-> 1, name |-> "asked", public |-> TRUE] /\ changes = 0
  /\ commit \in Commits /\ phase = "metadata" /\ metadata = None
  /\ queue = <<>> /\ entries = 0 /\ eligible = {} /\ partial = FALSE
  /\ coverageIncomplete = FALSE
  /\ start = 0 /\ answered = <<>> /\ files = <<>> /\ failed = 0 /\ totalBytes = 0
  /\ decision = None

Collect ==
  \/ Refused \/ ReadMetadata \/ ReadCommit \/ StopWalk \/ ReadTree \/ EndWalk
  \/ (\E k \in 1..FetchConcurrency : FetchBlob(k)) \/ EndBatch \/ EndBlobs
  \/ ConfirmMetadata \/ ConfirmCommit \/ Decide

Next == Change \/ Collect

Spec == Init /\ [][Next]_vars

-----------------------------------------------------------------------------
(* Properties *)

TypeOK ==
  /\ phase \in {"metadata", "commit", "tree", "blobs", "confirm metadata", "confirm commit",
                "collected", "decided", "refused"}
  /\ changes \in 0..MaxChanges /\ commit \in Commits
  /\ partial \in BOOLEAN /\ coverageIncomplete \in BOOLEAN
  /\ Len(files) <= MaxFiles /\ failed \in 0..MaxFiles /\ totalBytes \in 0..MaxTotalBytes

\* The directories of the commit: the root, and all that are named in one of them.
HasSubdirectories(ds) ==
  "root" \in ds /\ \A d \in ds : \A e \in ToSet(commit[d]) : e.kind = "tree" => e.name \in ds
Directories ==
  {d \in DOMAIN commit : \A ds \in SUBSET DOMAIN commit : HasSubdirectories(ds) => d \in ds}

\* All that is in the commit, whether it was read or not, and the files among it.
Everything ==
  {[dir |-> p[1], entry |-> At(commit, p)] : p \in {q \in Places(commit) : q[1] \in Directories}}
AllFiles == {x \in Everything : x.entry.kind = "file"}

\* A commit that passes has nothing in it that was not looked into, save files that are
\* skipped by their names, and nothing that a criterion of the policy or a safety rule
\* would have found, wherever it is.
PassIsClean ==
  decision # None /\ decision.says = "PASS" =>
    /\ \A x \in Everything : x.entry.kind \notin Hidden
    /\ \A x \in AllFiles :
         /\ x.entry.marks \cap ({"secret", "execution"} \cup decision.policy) = {}
         /\ "lockfile" \in decision.policy => ~LacksLock(AllFiles, x)

\* A commit fails for a reason that lies in it, if GitHub gave all that was asked for:
\* something that is not looked into or was found, a criterion that the server does not
\* know or that does not apply, or more than the limits allow.
FailIsGrounded ==
  decision # None /\ decision.says = "FAIL" /\ ~partial /\ failed = 0 =>
    \/ \E x \in Everything : x.entry.kind \in Hidden
    \/ \E x \in AllFiles :
         \/ x.entry.marks \cap ({"secret", "execution"} \cup decision.policy) # {}
         \/ "lockfile" \in decision.policy /\ LacksLock(AllFiles, x)
    \/ ~ decision.policy \subseteq Rules \cup {"lockfile"}
    \/ "lockfile" \in decision.policy /\ ~\E x \in AllFiles : x.entry.name = "package.json"
    \/ Cardinality(AllFiles) > MaxFiles
    \/ Cardinality(Everything) > MaxEntries

=============================================================================
