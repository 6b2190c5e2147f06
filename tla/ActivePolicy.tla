---------------------------- MODULE ActivePolicy ----------------------------
(***************************************************************************)
(* What the rest of the system may rely on about certification policies:   *)
(* at most one policy is active, publishing replaces it in one step, and a *)
(* policy that was published once is never published again.  PolicyLife-   *)
(* cycle, the detailed model of the policy service and its transactions,   *)
(* implements this specification; BadgeIssue uses it as its environment.   *)
(***************************************************************************)
CONSTANTS
  Policies,   \* the policies, each with its own policyHash
  None        \* "no policy"

VARIABLES
  active,     \* the policy whose status is ACTIVE, or None
  published   \* every policy that was ever published (ACTIVE or ARCHIVED)

policyVars == <<active, published>>

TypeOK ==
  /\ active \in Policies \cup {None}
  /\ published \subseteq Policies

Init ==
  /\ active = None
  /\ published = {}

\* publishPolicy's transaction: the policy becomes ACTIVE and the one that was
\* active becomes ARCHIVED.
Publish(p) ==
  /\ p \notin published
  /\ active' = p
  /\ published' = published \cup {p}

Next == \E p \in Policies : Publish(p)

Spec == Init /\ [][Next]_policyVars

=============================================================================
