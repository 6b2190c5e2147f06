------------------------- MODULE MCBadgeVerification -------------------------
(***************************************************************************)
(* BadgeVerification for model checking.                                   *)
(***************************************************************************)
EXTENDS BadgeVerification, TLC

CONSTANTS b1, b2, k1, k2

\* b1 expires at time 1 and certifies k1, b2 never expires and certifies k2.
TwoCommits == (b1 :> k1) @@ (b2 :> k2)
OneExpires == (b1 :> 1) @@ (b2 :> None)

=============================================================================
