--------------------------- MODULE PromotedSource ---------------------------
(***************************************************************************)
(* What the promotion of a compiled research handoff promises its readers. *)
(* At most one handoff is live.  It consists of anchors, each with the     *)
(* period an operator declared it valid for, and while it is live every    *)
(* one of them is in its period.  A prompt shows, a Step 2 marker names    *)
(* and an audit covers nothing but the handoff that is live at the time,   *)
(* and an audit only one that Step 2 has named.                            *)
(***************************************************************************)
EXTENDS Naturals

CONSTANTS
  Anchors,       \* the research anchors
  LastDay,       \* bound: the days of the calendar
  None           \* no handoff

VARIABLES
  today,
  live,          \* the handoff in force: its anchors, with their periods
  shown,         \* the handoff the latest promoted Step 2 prompt carries
  named,         \* the handoff named by the Step 2 marker
  audited        \* the handoff the latest promoted audit covers

vars == <<today, live, shown, named, audited>>

Days == 1..LastDay
Periods == [from : Days, until : Days]
Covers(period, day) == period.from <= day /\ day <= period.until

Handoffs == UNION {[rows -> Periods] : rows \in (SUBSET Anchors) \ {{}}}
InPeriod(h) == \A a \in DOMAIN h : Covers(h[a], today)

Init == today \in Days /\ live = None /\ shown = None /\ named = None /\ audited = None

Promote ==
  /\ live' \in {h \in Handoffs : InPeriod(h)}
  /\ UNCHANGED <<today, shown, named, audited>>

Withdraw == live' = None /\ UNCHANGED <<today, shown, named, audited>>

\* A day passes; what has outlived an anchor is no longer live.
Tick ==
  /\ today' \in Days /\ today' > today
  /\ \/ live' = None
     \/ live # None /\ live' = live /\ \A a \in DOMAIN live : Covers(live[a], today')
  /\ UNCHANGED <<shown, named, audited>>

Show == live # None /\ shown' = live /\ UNCHANGED <<today, live, named, audited>>
Name == live # None /\ named' = live /\ UNCHANGED <<today, live, shown, audited>>
Audit ==
  /\ live # None /\ named = live /\ audited' = live
  /\ UNCHANGED <<today, live, shown, named>>

\* A write that dies half-way loses the record it was replacing.
Lose ==
  /\ shown' \in {shown, None} /\ named' \in {named, None} /\ audited' \in {audited, None}
  /\ UNCHANGED <<today, live>>

Next == Promote \/ Withdraw \/ Tick \/ Show \/ Name \/ Audit \/ Lose

Spec == Init /\ [][Next]_vars
=============================================================================
