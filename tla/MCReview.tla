------------------------------ MODULE MCReview ------------------------------
(***************************************************************************)
(* Reviews: the V1 review of one increment, the replacement commands, and  *)
(* the weekly shadow report over them. Of the replacement commands there   *)
(* are three, over two good versions of each source and memos of two       *)
(* halves; beside two shadow publications one of them renders. A behaviour *)
(* is of one of the three; the others rest.                                *)
(***************************************************************************)
EXTENDS V1Review, ShadowReport, TLC

CONSTANTS Tools, voo, smh, ext, v1, v2, bad, p1, p2, p3

VARIABLE tool  \* the one this behaviour is about

Amounts(v, s, x) == (voo :> v) @@ (smh :> s) @@ (ext :> x)
Rung(offset, weight) == [offset |-> offset, weight |-> weight]
\* In twentieths.
Ladders == (voo :> <<Rung(-1, 14), Rung(-7, 6)>>) @@ (smh :> <<Rung(-3, 12), Rung(-19, 8)>>)

ReviewPriority == <<voo, smh>>
ReviewStrategies ==
  <<[role |-> Amounts("CORE", "SATELLITE", "APPROVED_EXTENDED"), ladder |-> Ladders],
    [role |-> Amounts("CORE", "SATELLITE", Unresolved), ladder |-> Ladders]>>
ReviewPortfolios ==
  <<[shares |-> Amounts(810, 400, 0), open |-> Amounts(0, 0, 800000)],
    [shares |-> Amounts(810, 400, 210), open |-> Amounts(400200, 0, 0)]>>
ReviewCeilings == <<6000000, 840000>>
ReviewFractions == <<20, 0>>
\* Tenths of a cent are 400 units.
ReviewClose == <<Amounts(100400, 39600, 41200), Amounts(105200, 159600, 41200)>>

-----------------------------------------------------------------------------
\* Commands, and publications, differ by name only: they start in the order of
\* their names. A template is never unusable: two suffice.
ReplacesInOrder ==
  /\ GenNext /\ live'.template \in {v1, v2}
  /\ (command'[p2] # Unasked => command'[p1] # Unasked)
  /\ (command'[p3] # Unasked => command'[p2] # Unasked)

-----------------------------------------------------------------------------
\* Of each source of a review the first version, which its edits leave for good.
InitReview ==
  /\ tool \in Tools
  /\ Init /\ at = [f \in DOMAIN at |-> 1] /\ session = 1
  /\ ShadowInit

\* The commands that have run their course stay where they are.
AtRest ==
  \/ tool = "replacement" /\ \A c \in Commands : command[c].at \in Ended
  \/ tool = "shadow" /\ command[p3].at \in Ended

\* Beside the publications: one render, one edit of a source, so that there are at
\* most two generations to echo, and three writes of the operator in all.
Beside == [template : {v1, v2}, inputs : {v1}]
RendersBeside ==
  /\ ShadowNext
  /\ command[p1]' = Unasked /\ command[p2]' = Unasked /\ memo' = memo
  /\ edits' <= 1 /\ edits' + written' <= MaxAnswers
  /\ live' \in [template : {v1, v2}, inputs : {v1, bad}]
  /\ answer'[1] \in Beside \cup {Absent}
  /\ (pub'[p2] # Waiting => pub'[p1] # Waiting)

NextReview ==
  \/ tool = "v1" /\ Next /\ UNCHANGED <<tool, replacement, shadow>>
  \/ tool = "replacement" /\ ReplacesInOrder /\ UNCHANGED <<tool, vars, shadow>>
  \/ tool = "shadow" /\ RendersBeside /\ UNCHANGED <<tool, vars>>
  \/ AtRest /\ UNCHANGED <<tool, vars, replacement, shadow>>

SpecReview == InitReview /\ [][NextReview]_<<tool, vars, replacement, shadow>>
=============================================================================
