---------------------------- MODULE BadgeRegistry ----------------------------
(***************************************************************************)
(* What certification promises to its callers, with no server processes,   *)
(* no database transactions and no in-flight sharing: a subject (a commit  *)
(* of a repository under a policy) is given one badge, once and for all,   *)
(* and a caller that is told ISSUED is told the uid of that one badge.     *)
(* BadgeIssue implements this specification.                               *)
(***************************************************************************)
CONSTANTS
  Callers,    \* the calls of the issue service
  Subjects,   \* what a badge certifies
  Uids,       \* badge uids
  None        \* "nothing"

VARIABLES
  badgeOf,    \* [Subjects -> Uids \cup {None}], the registered badges
  told        \* what each call was told: nothing yet, an ISSUED badge, or
              \* something else (NOT_ISSUED or an error)

registryVars == <<badgeOf, told>>

Nothing == <<"nothing">>
Other == <<"other">>
Issued == {"issued"} \X Subjects \X Uids

TypeOK ==
  /\ badgeOf \in [Subjects -> Uids \cup {None}]
  /\ told \in [Callers -> Issued \cup {Nothing, Other}]

Init ==
  /\ badgeOf = [s \in Subjects |-> None]
  /\ told = [c \in Callers |-> Nothing]

\* A badge is registered for a subject that has none, under a uid no other
\* subject uses.
Register(s, u) ==
  /\ badgeOf[s] = None
  /\ \A other \in Subjects : badgeOf[other] # u
  /\ badgeOf' = [badgeOf EXCEPT ![s] = u]
  /\ UNCHANGED told

\* The calls in group, which share one run of the service, are told a badge
\* that is registered.
TellIssued(group, s) ==
  /\ badgeOf[s] # None
  /\ \A c \in group : told[c] = Nothing
  /\ told' = [c \in Callers |->
                IF c \in group THEN <<"issued", s, badgeOf[s]>>
                               ELSE told[c]]
  /\ UNCHANGED badgeOf

\* The calls in group are told that no badge was issued, or get an error.
TellOther(group) ==
  /\ \A c \in group : told[c] = Nothing
  /\ told' = [c \in Callers |-> IF c \in group THEN Other ELSE told[c]]
  /\ UNCHANGED badgeOf

Next ==
  \/ \E s \in Subjects, u \in Uids : Register(s, u)
  \/ \E group \in SUBSET Callers :
        \/ TellOther(group)
        \/ \E s \in Subjects : TellIssued(group, s)

Spec == Init /\ [][Next]_registryVars

=============================================================================
