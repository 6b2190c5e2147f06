----------------------------- MODULE MCAdmission -----------------------------
(***************************************************************************)
(* Admission for model checking.  The limits keep the proportions of       *)
(* DEFAULT_SECURITY_LIMITS where they matter: one scan and one summary at  *)
(* a time, more places for the others, more logins by client than account. *)
(***************************************************************************)
EXTENDS Admission, TLC

CONSTANT Limit  \* of the limiters of the run

OneGateLimit == [g \in Gates |-> IF g \in {"scan", "ai"} THEN 1 ELSE 2]
Options == [limit |-> Limit, window |-> 2, maxKeys |-> 2]
MoreOptions == [limit |-> Limit + 1, window |-> 2, maxKeys |-> 2]

\* Calls of a handler, clients and accounts are interchangeable.
Symmetry == Permutations(IssueCalls) \cup Permutations(LoginCalls)
              \cup Permutations(ScanCalls) \cup Permutations(Clients)
              \cup Permutations(Accounts)

=============================================================================
