----------------------------- MODULE ReportFolder -----------------------------
(***************************************************************************)
(* The folder edusafe-report/ of a project under review: the report at its *)
(* top, the reports before it in history/ and the one in the making in a   *)
(* .staging-* folder (skill/edusafe/scripts/render.mjs, and SKILL.md for   *)
(* who calls it when).                                                     *)
(*                                                                         *)
(* A file is moved by rename, which moves it at once or fails and leaves   *)
(* everything as it was; a file in its way is gone.  The process may be    *)
(* killed between any two steps.  Files are named by the run that made     *)
(* them; stamps of the folders in history grow from run to run.            *)
(***************************************************************************)
EXTENDS ReportContract, Sequences, SequencesExt

CONSTANTS
  Files,          \* REPORT_FILES
  Drafted,        \* reports the AI may write
  HistoryLimit,   \* HISTORY_LIMIT
  MaxRuns,        \* bound of the runs begun
  MaxFaults       \* bound of the renames that fail

Names == {"report", "scan", "html", "md"}

ASSUME FilesAssumption == Files \in Seq(Names) /\ ToSet(Files) = Names
ASSUME LimitsAssumption ==
  /\ HistoryLimit \in Nat \ {0} /\ MaxRuns \in Nat /\ MaxFaults \in Nat
  /\ None \notin Nat

VARIABLES
  top,      \* top[f]: the run that made the file f at the top, or None
  staging,  \* the same of the staging folder
  history,  \* the same of the folders of history, the oldest first
  run,      \* runs begun
  phase,    \* what the run is at
  draft,    \* the report as the AI wrote it, until it is rendered
  made,     \* archiveCreated: the last folder of history is that of this swap
  archived, \* files swapStaging has moved to history,
  placed,   \* and to the top
  undone,   \* those it could not move back
  faults,   \* renames and writes that failed
  before,   \* history: the top as this swap found it
  told      \* history: the top may be mixed; an error said so, or the swap was killed

folder == <<top, staging, history>>
swap == <<made, archived, placed, undone>>
vars == <<folder, run, phase, draft, swap, faults, before, told>>

-----------------------------------------------------------------------------

Swapping == {"archive", "place", "unplace", "unarchive"}
Empty == [f \in Names |-> None]
Folders == [Names -> 1..MaxRuns \cup {None}]

TypeOK ==
  /\ top \in Folders /\ staging \in Folders /\ before \in Folders
  /\ history \in Seq(Folders) /\ Len(history) <= MaxRuns + MaxFaults
  /\ run \in 0..MaxRuns
  /\ phase \in {"idle", "write", "validated", "failed", "done"} \cup Swapping
  /\ made \in BOOLEAN /\ archived \in Seq(Names) /\ placed \in Seq(Names)
  /\ undone \subseteq Names /\ faults \in 0..MaxFaults /\ told \in BOOLEAN

Fault == faults < MaxFaults /\ faults' = faults + 1

-----------------------------------------------------------------------------
(* Before the swap *)

\* Step 0 of the skill: cleanStaging, and a new staging folder.
Begin ==
  /\ phase \in {"idle", "failed"} /\ run < MaxRuns
  /\ run' = run + 1 /\ phase' = "write" /\ staging' = Empty
  /\ UNCHANGED <<top, history, draft, swap, faults, before, told>>

\* scan.json is there; the AI writes the report, or mends it after an error.
Write ==
  /\ phase = "write" /\ draft = None
  /\ draft' \in Drafted
  /\ staging' = [f \in Names |-> IF f \in {"report", "scan"} THEN run ELSE staging[f]]
  /\ UNCHANGED <<top, history, run, phase, swap, faults, before, told>>

\* main: a report that breaks the contract stays where it is.
Reject ==
  /\ draft # None /\ phase = "write"
  /\ ~Valid(draft) /\ draft' = None
  /\ UNCHANGED <<folder, run, phase, swap, faults, before, told>>

Accept ==
  /\ draft # None /\ phase = "write"
  /\ Valid(draft) /\ phase' = "validated"
  /\ UNCHANGED <<folder, run, draft, swap, faults, before, told>>

\* main is started once more on what a failed swap left.
Again ==
  /\ phase = "failed" /\ staging["report"] # None /\ phase' = "validated"
  /\ UNCHANGED <<folder, run, draft, swap, faults, before, told>>

\* HTML and Markdown are written, and swapStaging looks for all four files.
Render ==
  /\ phase = "validated"
  /\ draft' = None /\ before' = top
  /\ made' = FALSE /\ archived' = <<>> /\ placed' = <<>> /\ undone' = {}
  /\ \/ /\ staging' = [f \in Names |-> IF f \in {"html", "md"} THEN run ELSE staging[f]]
        /\ phase' = IF None \in Range(staging') THEN "failed" ELSE "archive"
        /\ UNCHANGED faults
     \/ Fault /\ phase' = "failed" /\ UNCHANGED staging
  /\ UNCHANGED <<top, history, run, told>>

-----------------------------------------------------------------------------
(* swapStaging *)

\* The files still to be moved to history: those the top has.
ToArchive == {f \in Names : top[f] # None}
ToPlace == Names \ ToSet(placed)

\* The one of these files that is listed first.
First(files) ==
  {Files[k] : k \in {k \in DOMAIN Files :
                       Files[k] \in files /\ \A j \in 1..(k - 1) : Files[j] \notin files}}

MakeArchive ==
  /\ phase = "archive" /\ ~made /\ ToArchive # {}
  /\ \/ made' = TRUE /\ history' = Append(history, Empty) /\ UNCHANGED <<phase, faults>>
     \/ Fault /\ phase' = "unplace" /\ UNCHANGED <<made, history>>
  /\ UNCHANGED <<top, staging, run, draft, archived, placed, undone, before, told>>

Archive ==
  /\ phase = "archive" /\ made
  /\ \E f \in First(ToArchive) :
       \/ /\ history' = [history EXCEPT ![Len(history)][f] = top[f]]
          /\ top' = [top EXCEPT ![f] = None]
          /\ archived' = Append(archived, f) /\ UNCHANGED <<phase, faults>>
       \/ Fault /\ phase' = "unplace" /\ UNCHANGED <<top, history, archived>>
  /\ UNCHANGED <<staging, run, draft, made, placed, undone, before, told>>

Archived ==
  /\ phase = "archive" /\ ToArchive = {} /\ phase' = "place"
  /\ UNCHANGED <<folder, run, draft, swap, faults, before, told>>

Place ==
  /\ phase = "place"
  /\ \E f \in First(ToPlace) :
       \/ /\ top' = [top EXCEPT ![f] = staging[f]]
          /\ staging' = [staging EXCEPT ![f] = None]
          /\ placed' = Append(placed, f) /\ UNCHANGED <<phase, faults>>
       \/ Fault /\ phase' = "unplace" /\ UNCHANGED <<top, staging, placed>>
  /\ UNCHANGED <<history, run, draft, made, archived, undone, before, told>>

Placed ==
  /\ phase = "place" /\ ToPlace = {}
  /\ phase' = "done" /\ told' = FALSE
  /\ UNCHANGED <<folder, run, draft, swap, faults, before>>

\* Mutant: only what was placed is moved back.
UnplaceOnly ==
  /\ phase = "unplace"
  /\ IF placed = <<>>
     THEN phase' = "failed" /\ UNCHANGED <<top, staging, placed>>
     ELSE LET f == Last(placed)
          IN  /\ placed' = Front(placed) /\ UNCHANGED phase
              /\ staging' = [staging EXCEPT ![f] = top[f]]
              /\ top' = [top EXCEPT ![f] = None]
  /\ UNCHANGED <<history, run, draft, made, archived, undone, faults, before, told>>

\* The moves are undone, the last one first; what cannot be moved is noted.
Unplace ==
  /\ phase = "unplace"
  /\ IF placed = <<>>
     THEN phase' = "unarchive" /\ UNCHANGED <<top, staging, placed, undone, faults>>
     ELSE LET f == Last(placed)
          IN  /\ placed' = Front(placed) /\ UNCHANGED phase
              /\ \/ /\ staging' = [staging EXCEPT ![f] = top[f]]
                    /\ top' = [top EXCEPT ![f] = None] /\ UNCHANGED <<undone, faults>>
                 \/ Fault /\ undone' = undone \cup {f} /\ UNCHANGED <<top, staging>>
  /\ UNCHANGED <<history, run, draft, made, archived, before, told>>

Unarchive ==
  /\ phase = "unarchive" /\ archived # <<>>
  /\ archived' = Front(archived)
  /\ LET f == Last(archived)
     IN  \/ /\ top' = [top EXCEPT ![f] = history[Len(history)][f]]
            /\ history' = [history EXCEPT ![Len(history)][f] = None]
            /\ UNCHANGED <<undone, faults>>
         \/ Fault /\ undone' = undone \cup {f} /\ UNCHANGED <<top, history>>
  /\ UNCHANGED <<staging, run, phase, draft, made, placed, before, told>>

\* Mutant: the folder is removed whether or not something is left in it.
RemoveArchive == IF made THEN Front(history) ELSE history

\* An empty folder of this swap is removed.
TidiedArchive == IF made /\ Last(history) = Empty THEN Front(history) ELSE history

\* The error is thrown; it says what could not be moved back.
Throw ==
  /\ phase = "unarchive" /\ archived = <<>>
  /\ phase' = "failed" /\ history' = TidiedArchive /\ told' = (told \/ undone # {})
  /\ UNCHANGED <<top, staging, run, draft, swap, faults, before>>

\* The staging folder is removed and history trimmed to its newest folders.
Clean ==
  /\ phase = "done" /\ phase' = "idle" /\ staging' = Empty
  /\ history' = IF Len(history) <= HistoryLimit THEN history
                ELSE SubSeq(history, Len(history) - HistoryLimit + 1, Len(history))
  /\ UNCHANGED <<top, run, draft, swap, faults, before, told>>

-----------------------------------------------------------------------------

\* The process is killed.
Kill ==
  /\ phase # "idle" /\ Fault
  /\ phase' = "idle" /\ draft' = None /\ told' = (told \/ phase \in Swapping)
  /\ UNCHANGED <<folder, run, swap, before>>

Init ==
  /\ top = Empty /\ staging = Empty /\ before = Empty /\ history = <<>>
  /\ run = 0 /\ phase = "idle" /\ draft = None
  /\ made = FALSE /\ archived = <<>> /\ placed = <<>> /\ undone = {}
  /\ faults = 0 /\ told = FALSE

Next ==
  \/ Begin \/ Write \/ Reject \/ Accept \/ Again \/ Render
  \/ MakeArchive \/ Archive \/ Archived \/ Place \/ Placed
  \/ Unplace \/ Unarchive \/ Throw \/ Clean \/ Kill

Spec == Init /\ [][Next]_vars

-----------------------------------------------------------------------------
(* Properties *)

\* A report that is rendered lists every item; an item one of whose sub-checks
\* failed has failed, is counted once among the failed ones at its head, and leaves
\* no criterion it belongs to met.
RenderedIsHonest ==
  phase = "validated" /\ draft # None =>
    LET failing == {i \in Items : \E s \in Subs[i] : draft.sub[i][s] = "fail"}
    IN  /\ \A i \in failing : draft.verdict[i] = "fail"
        /\ draft.summary.must_fix + draft.summary.recommended + draft.summary.info
              = Cardinality(failing)
        /\ \A c \in Criteria : Mapped[c] \cap failing # {} => draft.moe[c] = "unmet"

\* Between runs, and after an error that does not speak of files left behind, the
\* top holds the files of one run, or none.
TopIsWhole ==
  phase \notin Swapping /\ ~told => \E r \in 1..MaxRuns \cup {None} : top = [f \in Names |-> r]

\* An error that does not speak of files left behind leaves the top as the swap
\* found it and the staging folder as it was given.
FailureIsUndone ==
  phase = "failed" /\ undone = {} => top = before /\ staging["report"] # None

\* Whatever fails, and wherever the process is killed, each file this swap found at
\* the top is still there or in history.
FoundIsKept ==
  \A f \in Names : before[f] # None =>
    top[f] = before[f] \/ \E k \in DOMAIN history : history[k][f] = before[f]

=============================================================================
