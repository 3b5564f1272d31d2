---------------------------- MODULE MappedClaim ----------------------------
(***************************************************************************)
(* What the H1 replacement promises of its recognition claim: a claim is   *)
(* made only for the completion of the command that is still running, it   *)
(* never stands beside another completion or beside none, and a claim that *)
(* went is not made again from an old completion.                          *)
(***************************************************************************)
CONSTANTS Completions, None

VARIABLES
  completion,  \* the published completion
  claim,       \* the completion the availability decision rests on
  pending      \* the command that published the completion is still running

vars == <<completion, claim, pending>>

Init == completion = None /\ claim = None /\ pending = FALSE

\* Publishing needs the old completion and the old claim gone.
Publish ==
  /\ completion = None /\ claim = None
  /\ completion' \in Completions
  /\ pending' = TRUE
  /\ UNCHANGED claim

\* Only the command that published may make the claim.
Assert == pending /\ claim' = completion /\ pending' = FALSE /\ UNCHANGED completion

\* The claim goes, or the command ends without one; the completion may go too.
Drop == claim' = None /\ pending' = FALSE /\ completion' \in {completion, None}

Next == Publish \/ Assert \/ Drop
Spec == Init /\ [][Next]_vars
=============================================================================
