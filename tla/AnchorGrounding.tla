-------------------------- MODULE AnchorGrounding --------------------------
(***************************************************************************)
(* The grounding layers of one Step 1 parse (workflow/step1_research.py):  *)
(* which research anchors the evidence packet and the support signals may  *)
(* stand on.  Anchors come from research_anchors.yaml, which every layer   *)
(* reads again, and from the approvals of research_anchor_approvals.yaml,  *)
(* which is captured once, at the start of the parse; its revocations take *)
(* approvals back.  Every layer writes its own artifact, best effort, and  *)
(* the parse then joins what is on disk to the captured source             *)
(* (step1a_grounding_compile._enforce_workflow_approval_source_identity).  *)
(*                                                                         *)
(* A text stands for its bytes, so it is also its own digest.  The two     *)
(* lineages of a payload (legacy and Step 1A) are compared before a write  *)
(* and only equal ones replace each other, so one content stands for both. *)
(* The memo is present and names every anchor: the support signals accept  *)
(* exactly what the packet grounds.  The settings' date is a valid one.    *)
(***************************************************************************)
EXTENDS Naturals

CONSTANTS
  AnchorTexts,    \* contents of research_anchors.yaml
  ApprovalTexts,  \* contents of research_anchor_approvals.yaml
  NoText,         \* no file, no identity
  CutShort,       \* a file cut short by a failed write
  LastDay,        \* bound: the days a parse may run on
  MaxParses,      \* bound: parses
  MaxFileEdits,   \* bound: the operator's edits of the two files
  MaxFailures     \* bound: writes that fail

ASSUME GroundingAssumption ==
  /\ \A text \in ApprovalTexts :
       /\ text.asOf \in Nat
       /\ \A r \in text.revocations : r.from \in Nat
       /\ text.present \/ text.approvals = {}
  /\ LastDay \in Nat /\ MaxParses \in Nat /\ MaxFileEdits \in Nat /\ MaxFailures \in Nat

RunFiles == {"packet", "selection", "baseline", "approvals report", "revocations report",
          "overlay", "diff", "readiness", "dual ground", "support"}

VARIABLES
  anchors,   \* research_anchors.yaml
  approvals, \* research_anchor_approvals.yaml
  day,       \* the as_of of the settings
  files,     \* the artifacts on disk
  at,        \* the next layer of the parse
  captured,  \* the approvals this parse captured
  read,      \* what the layer has read of the anchors so far
  wrote,     \* the artifacts this parse wrote
  parses, fileEdits, failures

grounding == <<anchors, approvals, day, files, at, captured, read, wrote, parses, fileEdits, failures>>

Identity(text) == IF text.present THEN text ELSE NoText

GroundingInit ==
  /\ anchors \in {text \in AnchorTexts : text.present /\ text.ok}
  /\ approvals \in ApprovalTexts
  /\ day = 1
  /\ files = [f \in RunFiles |-> NoText]
  /\ at = "idle"
  /\ captured = NoText
  /\ read = NoText
  /\ wrote = {}
  /\ parses = 0 /\ fileEdits = 0 /\ failures = 0

-----------------------------------------------------------------------------
(* compile_active_research_anchor_registry: the file is read twice, for    *)
(* its digest and for its rows.                                            *)

InForce(row) == row.until >= day

Baseline(digest, load) ==
  LET valid == ~(digest.present /\ load.present /\ ~load.ok) IN
  [sha |-> Identity(digest), valid |-> valid,
   ids |-> {row.anchor : row \in load.rows},
   active |-> IF valid THEN {row.anchor : row \in {r \in load.rows : InForce(r)}} ELSE {}]

Consumable(base) == base.sha # NoText /\ base.valid

(* _build_from_sanitized_source: the captured approvals over the baseline. *)

Approval(text, id, anchor) == {a \in text.approvals : a.id = id /\ a.anchor = anchor}
RevocationDay(text) == IF text.asOf # 0 THEN text.asOf ELSE day

\* Every revocation names one approval, and no approval is revoked twice.
RevocationsSound(text) ==
  /\ \A r \in text.revocations : Approval(text, r.approval, r.anchor) # {}
  /\ \A r, s \in text.revocations : (r.approval = s.approval /\ r.anchor = s.anchor) => r = s

Revoked(text, a) ==
  \E r \in text.revocations : r.approval = a.id /\ r.anchor = a.anchor /\ r.from <= RevocationDay(text)

Conflicting(base, text) ==
  {a.anchor : a \in {b \in text.approvals :
     b.anchor \in base.ids \/ \E c \in text.approvals \ {b} : c.anchor = b.anchor}}

OverlayValid(base, text) ==
  /\ base.valid
  /\ text.present => text.ok
  /\ RevocationsSound(text)
  /\ Conflicting(base, text) = {}

\* Eligible by its own text: nothing a report says can make it so.
Eligible(text, a) == text.ok /\ a.sound /\ InForce(a)

\* Mutant: a revoked approval activates as any other.
ApprovedRevokedToo(base, text) ==
  IF ~base.valid \/ ~RevocationsSound(text) THEN {}
  ELSE {a.anchor : a \in {b \in text.approvals :
          Eligible(text, b) /\ b.anchor \notin Conflicting(base, text)}}

Approved(base, text) ==
  IF ~base.valid \/ ~RevocationsSound(text) THEN {}
  ELSE {a.anchor : a \in {b \in text.approvals :
          Eligible(text, b) /\ b.anchor \notin Conflicting(base, text) /\ ~Revoked(text, b)}}

(* _select_embedded_registry, by the readiness of the overlay.  A registry *)
(* has its baseline rows, its approval rows and the approvals it names.    *)

Closed == [plain |-> {}, approved |-> {}, source |-> NoText]
BaselineOnly(base) == [plain |-> base.active, approved |-> {}, source |-> NoText]
Overlay(base, text) ==
  [plain |-> base.active \ Conflicting(base, text), approved |-> Approved(base, text), source |-> Identity(text)]

Selected(base, text) ==
  CASE ~Consumable(base) -> Closed
    [] OverlayValid(base, text) -> Overlay(base, text)
    [] OTHER -> BaselineOnly(base)

(* The artifacts that are made of these.                                   *)

ReportOf(text) == [source |-> Identity(text)]
SelectionOf(base, text) == [registry |-> Selected(base, text), source |-> Identity(text)]
OverlayOf(base, text) == [source |-> Identity(text), approved |-> Approved(base, text)]
DiffOf(base, text) == [source |-> Identity(text), approved |-> Approved(base, text) \ base.active]
ReadinessOf(text) == [source |-> Identity(text)]
DualGroundOf(text) == [source |-> Identity(text)]
SupportOf(registry) == [plain |-> registry.plain, approved |-> registry.approved]

-----------------------------------------------------------------------------
(* The operator, the calendar, and the end of a process.                   *)

EditAnchors ==
  /\ fileEdits < MaxFileEdits
  /\ fileEdits' = fileEdits + 1
  /\ anchors' \in AnchorTexts \ {anchors}
  /\ UNCHANGED <<approvals, day, files, at, captured, read, wrote, parses, failures>>

EditApprovals ==
  /\ fileEdits < MaxFileEdits
  /\ fileEdits' = fileEdits + 1
  /\ approvals' \in ApprovalTexts \ {approvals}
  /\ UNCHANGED <<anchors, day, files, at, captured, read, wrote, parses, failures>>

Resting == at \in {"idle", "done"}

NextDay ==
  /\ Resting
  /\ day < LastDay
  /\ day' = day + 1
  /\ at' = "idle"
  /\ captured' = NoText /\ wrote' = {}
  /\ UNCHANGED <<anchors, approvals, files, read, parses, fileEdits, failures>>

Kill ==
  /\ ~Resting
  /\ at' = "idle"
  /\ captured' = NoText /\ read' = NoText /\ wrote' = {}
  /\ UNCHANGED <<anchors, approvals, day, files, parses, fileEdits, failures>>

-----------------------------------------------------------------------------
(* The layers, in the order of parse_step1.                                *)

CaptureApprovals ==
  /\ Resting
  /\ parses < MaxParses
  /\ parses' = parses + 1
  /\ captured' = approvals
  /\ wrote' = {}
  /\ at' = "packet"
  /\ UNCHANGED <<anchors, approvals, day, files, read, fileEdits, failures>>

\* The order of the layers.
After(layer) ==
  CASE layer = "packet" -> "selection"
    [] layer = "selection" -> "baseline"
    [] layer = "baseline" -> "memo packet"
    [] layer = "memo packet" -> "memo selection"
    [] layer = "memo selection" -> "compile packet"
    [] layer = "compile packet" -> "compile selection"
    [] layer = "compile selection" -> "support"
    [] layer = "support" -> "approvals report"
    [] layer = "approvals report" -> "revocations report"
    [] layer = "revocations report" -> "overlay"
    [] layer = "overlay" -> "diff"
    [] layer = "diff" -> "readiness"
    [] layer = "readiness" -> "dual ground"
    [] layer = "dual ground" -> "join"

Packets == {"packet", "memo packet", "compile packet"}
Selections == {"selection", "memo selection", "compile selection"}

Readable(f) == files[f] \notin {NoText, CutShort}

\* The first of the two reads.
ReadDigest ==
  /\ at \in Packets \cup {"baseline", "overlay", "readiness"}
  /\ at = "memo packet" => ~Readable("packet")
  /\ read = NoText
  /\ read' = anchors
  /\ UNCHANGED <<anchors, approvals, day, files, at, captured, wrote, parses, fileEdits, failures>>

CompiledBaseline == Baseline(read, anchors)

\* write_json writes in place: a write that fails leaves the old file or a
\* part of the new one.
WriteArtifact(f, content, next, failed) ==
  /\ \/ /\ files' = [files EXCEPT ![f] = content]
        /\ wrote' = wrote \cup {f}
        /\ at' = next
        /\ UNCHANGED failures
     \/ /\ failures < MaxFailures
        /\ failures' = failures + 1
        /\ files' \in {files, [files EXCEPT ![f] = CutShort]}
        /\ at' = failed
        /\ UNCHANGED wrote
  /\ UNCHANGED <<anchors, approvals, day, captured, parses, fileEdits>>

\* The selection is only written after the packet.
WritePacket ==
  /\ at \in Packets
  /\ read # NoText
  /\ WriteArtifact("packet", Selected(CompiledBaseline, captured), After(at), After(After(at)))
  /\ read' = IF at' \in Selections THEN CompiledBaseline ELSE NoText

WriteSelection ==
  /\ at \in Selections
  /\ WriteArtifact("selection", SelectionOf(read, captured), After(at), After(at))
  /\ read' = NoText

WriteBaseline ==
  /\ at = "baseline"
  /\ read # NoText
  /\ WriteArtifact("baseline", CompiledBaseline, After(at), After(at))
  /\ read' = NoText

\* The memo is read against the packet; only without one is it built again.
MemoHasPacket ==
  /\ at = "memo packet"
  /\ read = NoText
  /\ Readable("packet")
  /\ at' = "compile packet"
  /\ UNCHANGED <<anchors, approvals, day, files, captured, read, wrote, parses, fileEdits, failures>>

\* Without a readable packet, one is built that has no anchors.
Grounded == IF Readable("packet") THEN files["packet"] ELSE Closed

WriteSupport ==
  /\ at = "support"
  /\ WriteArtifact("support", SupportOf(Grounded), After(at), After(at))
  /\ UNCHANGED read

WriteReport ==
  /\ at \in {"approvals report", "revocations report"}
  /\ WriteArtifact(at, ReportOf(captured), After(at), After(at))
  /\ UNCHANGED read

\* A failure of the first of the pair skips the second.
WriteOverlay ==
  /\ at = "overlay"
  /\ read # NoText
  /\ WriteArtifact("overlay", OverlayOf(CompiledBaseline, captured), "diff", "readiness")
  /\ read' = IF at' = "diff" THEN CompiledBaseline ELSE NoText

WriteDiff ==
  /\ at = "diff"
  /\ WriteArtifact("diff", DiffOf(read, captured), After(at), After(at))
  /\ read' = NoText

WriteReadiness ==
  /\ at = "readiness"
  /\ read # NoText
  /\ WriteArtifact("readiness", ReadinessOf(captured), After(at), After(at))
  /\ read' = NoText

WriteDualGround ==
  /\ at = "dual ground"
  /\ IF Readable("support") THEN WriteArtifact("dual ground", DualGroundOf(captured), "join", "join")
     ELSE at' = "join" /\ UNCHANGED <<anchors, approvals, day, files, captured, wrote, parses, fileEdits, failures>>
  /\ UNCHANGED read

-----------------------------------------------------------------------------
(* The boundary.                                                           *)

SourceOf(f) == IF Readable(f) THEN files[f].source ELSE NoText
ApprovedIn(f) == IF Readable(f) THEN files[f].approved ELSE {}
SelectedRegistry == IF Readable("selection") THEN files["selection"].registry ELSE Closed

ClaimedSomewhere ==
  \/ \E f \in {"overlay", "diff", "packet", "support"} : ApprovedIn(f) # {}
  \/ SelectedRegistry.approved # {}

\* A registry that grounds on approvals names its source, another may.
Names(registry, claimed, expected) ==
  registry.source \in (IF claimed THEN {expected} ELSE {NoText, expected})

Required == {"approvals report", "revocations report", "overlay", "diff", "readiness"}

Mismatch(expected) ==
  \/ \E f \in Required : SourceOf(f) # expected
  \/ \E f \in {"selection", "dual ground"} : Readable(f) /\ files[f].source # expected
  \/ ~Names(SelectedRegistry, SelectedRegistry.approved # {}, expected)
  \/ ~Names(Grounded, ClaimedSomewhere, expected)
  \/ ClaimedSomewhere /\ expected = NoText

Join ==
  /\ at = "join"
  /\ at' = IF Mismatch(Identity(captured)) THEN "close overlay" ELSE "done"
  /\ UNCHANGED <<anchors, approvals, day, files, captured, read, wrote, parses, fileEdits, failures>>

\* The baseline on disk, if it can be consumed, or nothing.
Safe == IF Readable("baseline") /\ Consumable(files["baseline"]) THEN BaselineOnly(files["baseline"]) ELSE Closed

\* Every view is replaced where there is one; a failure ends the parse.
Close(step, f, content, next) ==
  /\ at = step
  /\ IF Readable(f) THEN WriteArtifact(f, content, next, "idle")
     ELSE at' = next /\ UNCHANGED <<anchors, approvals, day, files, captured, wrote, parses, fileEdits, failures>>
  /\ UNCHANGED read

CloseViews ==
  \/ Close("close overlay", "overlay", [source |-> SourceOf("overlay"), approved |-> {}], "close diff")
  \/ Close("close diff", "diff", [source |-> SourceOf("diff"), approved |-> {}], "close readiness")
  \/ Close("close readiness", "readiness", [source |-> SourceOf("overlay")], "close selection")
  \/ Close("close selection", "selection", [registry |-> Safe, source |-> SourceOf("overlay")], "close packet")
  \/ Close("close packet", "packet", Safe, "close support")

\* The support signals are compiled again, also where there were none.
CloseSupport ==
  /\ at = "close support"
  /\ WriteArtifact("support", SupportOf(Safe), "done", "idle")
  /\ UNCHANGED read

-----------------------------------------------------------------------------

Layer ==
  \/ ReadDigest \/ WritePacket \/ WriteSelection \/ WriteBaseline
  \/ MemoHasPacket \/ WriteSupport \/ WriteReport
  \/ WriteOverlay \/ WriteDiff \/ WriteReadiness \/ WriteDualGround
  \/ Join \/ CloseViews \/ CloseSupport

GroundingNext == EditAnchors \/ EditApprovals \/ NextDay \/ Kill \/ CaptureApprovals \/ Layer

GroundingSpec == GroundingInit /\ [][GroundingNext]_grounding

-----------------------------------------------------------------------------
(* Properties: what stands when a parse has ended.                         *)

\* The approvals of a text that stand on a day: sound, in force, of a file
\* that could be read, and taken back by no revocation in effect.
StandingOn(text, date) ==
  {a.anchor : a \in {b \in text.approvals :
     /\ text.ok /\ b.sound /\ b.until >= date
     /\ \A r \in text.revocations :
          (r.approval = b.id /\ r.anchor = b.anchor) =>
            r.from > (IF text.asOf # 0 THEN text.asOf ELSE date)}}

\* Whatever the operator edits while the layers run and whatever write fails,
\* a packet this parse wrote, and the support signals it compiled, ground on
\* no approval but those of the captured file that stand: an approval that was
\* unsound or never captured grounds nothing, and one that was revoked or has
\* expired grounds nothing the parse made of its own packet.  If no write of
\* the packet succeeded the parse reads the one an earlier parse left: the
\* join compares the digests and not the days, so what the support signals
\* then ground on stood on some day so far, not always on this one.
GroundedByCapture ==
  at = "done" =>
    \A f \in {"packet", "support"} \cap wrote :
      \E date \in 1..day :
        /\ "packet" \in wrote => date = day
        /\ ApprovedIn(f) \subseteq StandingOn(captured, date)

\* If the packet grounds on any approval at the end of a parse, whoever wrote
\* it, then every artifact of the bundle that was published names the source
\* this parse captured, and so does the packet: otherwise the parse closed it.
JoinedOrClosed ==
  (at = "done" /\ ApprovedIn("packet") # {}) =>
    /\ captured.present
    /\ files["packet"].source = captured
    /\ \A f \in Required : SourceOf(f) = captured
    /\ \A f \in {"selection", "dual ground"} : Readable(f) => files[f].source = captured

\* What a parse grounds on stands in the approvals it captured, and the bundle
\* is joined to that capture or closed.
GroundingSound == GroundedByCapture /\ JoinedOrClosed

=============================================================================
