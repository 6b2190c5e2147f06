---------------------------- MODULE MCReviewSession ----------------------------
(***************************************************************************)
(* ReviewSession for model checking: a rubric of three items.              *)
(***************************************************************************)
EXTENDS ReviewSession, TLC

CONSTANTS draftable, other, byHand, ours, folder

\* The first applies with a flag that asks for level L2, the others with another.
ThreeItems == (draftable :> "sensitive") @@ (other :> "lesson") @@ (byHand :> "lesson")

\* The repository makes two chunks, the folder one, of which the scan is wary.
TwoChunks == (ours :> 2) @@ (folder :> 1)
WaryOfFolder == (ours :> {}) @@ (folder :> {draftable})

\* An answer that stands, and one whose quotations are nowhere to be found.
TwoAnswers == [verdict : {"ok"}, quoted : BOOLEAN]
OneFlag == {{}, {"sensitive"}}

=============================================================================
