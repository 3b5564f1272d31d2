------------------------------ MODULE MCStep1 -------------------------------
(***************************************************************************)
(* Step 1 and what it reads: the render over two versions of each operator *)
(* source, the Step 1A grounding compile, and the capture of a source. A   *)
(* behaviour is of one of the three; the others rest.                      *)
(***************************************************************************)
EXTENDS Step1Render, SourceCapture, AnchorGrounding, TLC

CONSTANTS Tools, x1, x2, a1, a2, f1, f2, d1, d2, chunk1, chunk2

VARIABLE tool  \* the one this behaviour is about

-----------------------------------------------------------------------------
\* The Step 1A grounding compile: two anchors and a day boundary; files
\* that are absent, broken, in conflict with each other, and an approval
\* taken back on the second day.
Anchor(x, until) == [anchor |-> x, until |-> until]
NoAnchors == [present |-> FALSE, ok |-> TRUE, rows |-> {}]
OneAnchor == [present |-> TRUE, ok |-> TRUE, rows |-> {Anchor(x1, 2)}]
BrokenAnchors == [present |-> TRUE, ok |-> FALSE, rows |-> {}]

Approve(id, x, until) == [id |-> id, anchor |-> x, sound |-> TRUE, until |-> until]
NoApprovals == [present |-> FALSE, ok |-> TRUE, asOf |-> 0, approvals |-> {}, revocations |-> {}]
OneApproval == [NoApprovals EXCEPT !.present = TRUE, !.approvals = {Approve(a1, x2, 2)}]
TakenBack == [OneApproval EXCEPT !.revocations = {[approval |-> a1, anchor |-> x2, from |-> 2]}]
Clashing == [OneApproval EXCEPT !.approvals = {Approve(a1, x2, 1), Approve(a2, x1, 2)}]

AnchorFiles == {NoAnchors, OneAnchor, BrokenAnchors}
ApprovalFiles == {NoApprovals, OneApproval, TakenBack, Clashing}

\* Of any two writes that fail the second is of a packet, whose two files a
\* parse writes up to three times.
FailsInPackets == failures = 1 /\ failures' = 2 => at \in Packets

AnyGrounding == anchors = OneAnchor /\ approvals = NoApprovals

-----------------------------------------------------------------------------
\* The capture of a source: two directories, two files and chunks of two
\* contents, told apart only by equality.  One file may be found where no
\* other does, so that no two starts differ by names alone.
OneNaming ==
  /\ dirAt # d2 /\ leafAt[d1] # f2 /\ leafAt[d2] = f2
  /\ data[f1] # <<>> => data[f1][1] = chunk1
  /\ data[f2] \in {<<chunk1>>, <<chunk2>>}

AnyCapture == dirAt = d1 /\ leafAt = [d \in {d1, d2} |-> Absent] /\ data = [f \in {f1, f2} |-> <<>>]

-----------------------------------------------------------------------------
InitStep1 ==
  /\ tool \in Tools
  /\ Init /\ (tool # "render" => strategy = NoFile /\ portfolio = NoFile /\ retired = {})
  /\ CaptureInit /\ (IF tool = "capture" THEN OneNaming ELSE AnyCapture)
  /\ GroundingInit /\ (tool # "grounding" => AnyGrounding)

\* The commands that have run their course stay where they are.
AtRest ==
  \/ tool = "grounding" /\ parses = MaxParses
  \/ tool = "capture" /\ cap.pc = "done"

NextStep1 ==
  \/ tool = "render" /\ Next /\ UNCHANGED <<tool, capturing, grounding>>
  \/ tool = "grounding" /\ GroundingNext /\ FailsInPackets /\ UNCHANGED <<tool, vars, capturing>>
  \/ tool = "capture" /\ CaptureNext /\ UNCHANGED <<tool, vars, grounding>>
  \/ AtRest /\ UNCHANGED <<tool, vars, capturing, grounding>>

SpecStep1 == InitStep1 /\ [][NextStep1]_<<tool, vars, capturing, grounding>>
=============================================================================
