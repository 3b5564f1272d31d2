---------------------------- MODULE MCPromotion -----------------------------
(***************************************************************************)
(* Promotion: the chain from a Step 1 parse to the promoted audit, the     *)
(* availability decision, the readiness reports after it, and the Step 2   *)
(* over H1 research. In the chain one anchor outlives the other; later     *)
(* only the second is declared. A behaviour is of one of them; the others  *)
(* rest.                                                                   *)
(***************************************************************************)
EXTENDS PromotionChain, Availability, PromotedReadiness, H1Step2, TLC

CONSTANTS Tools, a1, a2, e1, e2, q1, q2, b1, h1, h2

VARIABLE tool  \* the one this behaviour is about

Symmetry == Permutations({h1, h2})  \* the promoted handoffs

ChainAnchors == {a1, a2}
Valid(from, until) == [from |-> from, until |-> until]

\* One anchor outlives the other; later only the second is declared.
Both == (a1 :> Valid(1, 1)) @@ (a2 :> Valid(1, 2))
ChainRegistries == {Both, a2 :> Valid(1, 2)}
ChainMemos == {{a1, a2}, {a2}}

\* The first parse has both and a memo that relies on both; the next has either, and
\* that memo or one that relies on the second alone.
Declared ==
  Next /\ (run = 0 /\ run' = 1 => registry' = Both /\ pasted' = {a1, a2})
       /\ (run = 1 /\ run' = 2 => pasted' # {a1, a2})

-----------------------------------------------------------------------------
\* The availability evaluator: settings of a day, of the day after and of another
\* universe, without a date, and with neither; facts that are ahead of the first
\* day and fresh on the second.
H1Facts == {[oldest |-> 3, newest |-> 3]}

AvailChoices ==
  {[day |-> 2, universe |-> 1], [day |-> 3, universe |-> 2],
   [day |-> 0, universe |-> 1], [day |-> -1, universe |-> 0]}

\* The last change is of the settings, or of a command that runs into another; what
\* that command promotes holds to the last day.
Overlapping == at # Idle /\ \A p \in pointer' \ pointer : p.until = DayLimit
EvaluatedAmid ==
  AvailNext /\ (edits < MaxEdits /\ edits' = MaxEdits => settings' # settings \/ Overlapping)

-----------------------------------------------------------------------------
\* The readiness reports: the last change is an answer to Step 2, or runs into a
\* command that still has something to read.
ReportedAmid ==
  ReadyNext /\ (rewrites < MaxRewrites /\ rewrites' = MaxRewrites =>
                  packed' # packed \/ stage[1] \notin {"idle", "decide"})

-----------------------------------------------------------------------------
\* The H1 Step 2: two entries of different days, each in a source of its own, so
\* that either is ahead of its day, of the day and stale; and an answer to one.
Lh2Published == (e1 :> 0) @@ (e2 :> 1)
Lh2Evidence == (q1 :> {e1}) @@ (q2 :> {e2})
Lh2Cites == b1 :> {e1}

-----------------------------------------------------------------------------
\* The earliest start: the operator's and the clock's steps lead to the others.
InitPromotion ==
  /\ tool \in Tools
  /\ Init /\ today = 1 /\ registry = Both /\ disk["decision"] = None
  /\ AvailInit /\ settings.day = 2
  /\ ReadyInit
  /\ H1Init /\ source = NoFile /\ gate = "h1" /\ clock = 0

\* The commands that have run their course stay where they are.
AtRest ==
  \/ tool = "chain" /\ run = MaxRuns

NextPromotion ==
  \/ tool = "chain" /\ Declared /\ UNCHANGED <<tool, avail, readiness, h1step2>>
  \/ tool = "availability" /\ EvaluatedAmid /\ UNCHANGED <<tool, vars, readiness, h1step2>>
  \/ tool = "readiness" /\ ReportedAmid /\ UNCHANGED <<tool, vars, avail, h1step2>>
  \/ tool = "step2" /\ H1Next /\ UNCHANGED <<tool, vars, avail, readiness>>
  \/ AtRest /\ UNCHANGED <<tool, vars, avail, readiness, h1step2>>

SpecPromotion == InitPromotion /\ [][NextPromotion]_<<tool, vars, avail, readiness, h1step2>>
=============================================================================
