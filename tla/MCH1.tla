-------------------------------- MODULE MCH1 --------------------------------
(***************************************************************************)
(* H1: the replacement handoff over two versions of each source file, and  *)
(* the persisted cases. A behaviour is of one of the two; the other rests. *)
(***************************************************************************)
EXTENDS H1Handoff, PersistedCase, TLC

CONSTANTS Tools, s1, s2, p1, p2, c1, c2, r1, r2, t1, t2, v1, v2

VARIABLE tool  \* the one this behaviour is about

HandoffStrategies == {s1, s2}
HandoffPortfolios == {p1, p2}
HandoffAsOf == (s1 :> 1) @@ (s2 :> 3)
HandoffDated == (p1 :> 0) @@ (p2 :> 2)
Symmetry == Permutations({c1, c2}) \cup Permutations({r1, r2}) \cup Permutations({t1, t2})

-----------------------------------------------------------------------------
\* Persisted cases and run sessions: two commands that may overlap, two
\* versions of each source and two answers.
CaseEdits == [case |-> 4, session |-> 4]

\* The last two edits are answers: a receipt needs both, and what else a command
\* reads it has read before them.
AnswersLast == edits >= 2 /\ edits' > edits => \E reply \in Responses : disk'[reply] # disk[reply]

-----------------------------------------------------------------------------
InitH1 ==
  /\ tool \in Tools
  /\ Init /\ (tool # "handoff" => strategy = s1 /\ portfolio = Absent)
  /\ CaseInit /\ (tool # "case" => mode = "case")

\* The commands that have run their course stay where they are.
AtRest ==
  \/ tool = "case" /\ \A c \in Processes : proc[c] = Resting

NextH1 ==
  \/ tool = "handoff" /\ Next /\ UNCHANGED <<tool, casing>>
  \/ tool = "case" /\ CaseNext /\ AnswersLast /\ UNCHANGED <<tool, vars>>
  \/ AtRest /\ UNCHANGED <<tool, vars, casing>>

SpecH1 == InitH1 /\ [][NextH1]_<<tool, vars, casing>>

=============================================================================
