--------------------------- MODULE PromotionChain ---------------------------
(***************************************************************************)
(* workflow/step1_research.py, layers 0 and 0b to 0h of a Step 1 parse,    *)
(* with the Step 2 and Step 3 commands that rely on them.  A parse writes  *)
(* a chain of files, each layer from what earlier ones left on disk: the   *)
(* evidence packet, memo, compiled base and support signals, the preview,  *)
(* candidate and metadata, the eligibility verdict, and last the pointer   *)
(* that makes a handoff live.  A layer that fails is swallowed: its files  *)
(* stay as they were, or are left unreadable (write_json is not atomic),   *)
(* and the next layer reads them.  A file that is missing or unreadable is *)
(* None; a hash of a file that carries a timestamp is the parse that wrote *)
(* it, a hash of any other is its content.  One anchor stands for the row  *)
(* of the ticker it grounds.  Anchors that are only operator-approved can  *)
(* never be promoted and are left out, with the workflow identity check    *)
(* between signals and preview, and the gates after Step 3.                *)
(***************************************************************************)
EXTENDS Naturals

CONSTANTS
  Anchors, LastDay, None,  \* as in PromotedSource
  Blocked,                 \* a verdict that is not to promote
  Registries,              \* what the anchor file may declare: anchors and periods
  Memos,                   \* the anchors a pasted memo may rely on
  MaxRuns,                 \* bound: Step 1 parses
  MaxFaults                \* bound: failed layers and killed commands

VARIABLES
  today,     \* as_of of the strategy settings
  registry,  \* inputs of the running parse: the anchor file
  pasted,    \* ... and the raw memo, if any
  disk,      \* the files
  pc,        \* the file being written
  run,       \* the number of Step 1 parses
  faults,
  clean,     \* history: the latest parse met no failure
  decided    \* history: Step 2 was admitted since the latest parse began

vars == <<today, registry, pasted, disk, pc, run, faults, clean, decided>>
inputs == <<today, registry, pasted, run>>

Days == 1..LastDay
Periods == [from : Days, until : Days]
Covers(period, day) == period.from <= day /\ day <= period.until

Files == {"packet", "memo", "base", "signals", "preview", "cand", "meta", "elig",
          "eview", "pview", "effective", "pointer", "verdict", "prompt", "marker",
          "decision", "audit"}
Steps == (Files \ {"audit"}) \cup {"repacket", "unlink", "unlink effective", "remark", "refresh"}

\* The file a step writes.
FileOf(step) ==
  CASE step = "repacket" -> "packet"
    [] step = "unlink" -> "pointer"
    [] step = "unlink effective" -> "effective"
    [] step = "remark" -> "marker"
    [] step = "refresh" -> "verdict"
    [] OTHER -> step

Packets == [anchors : Registries, day : Days, run : Nat]
Signals == [rows : SUBSET Anchors, run : Nat]
Cands == [rows : SUBSET Anchors, base : SUBSET Anchors]
Previews == [rows : SUBSET Anchors, packet : Nat \cup {None}, signals : Nat]
Metas == [packet : Nat \cup {None}, signals : Nat \cup {None}, preview : Previews,
          base : (SUBSET Anchors) \cup {None}]
Approvals == [cand : Cands, until : Days, packet : Packets, signals : Signals]
Verdicts == {"HOLD", "DECISION_ONLY", "AUDIT_ONLY"}

\* What a file holds, if it can be read.
Contents(f) ==
  CASE f = "packet" -> Packets
    [] f \in {"memo", "base"} -> SUBSET Anchors
    [] f = "signals" -> Signals
    [] f = "preview" -> Previews
    [] f = "meta" -> Metas
    [] f \in {"cand", "eview", "effective"} -> Cands
    [] f \in {"elig", "pview"} -> Approvals \cup {Blocked}
    [] f \in {"pointer", "prompt", "marker", "audit"} -> Approvals
    [] f = "verdict" -> Verdicts
    [] f = "decision" -> {"packet"}

ASSUME ChainAssumption ==
  /\ LastDay \in Nat /\ MaxRuns \in Nat /\ MaxFaults \in Nat
  /\ \A r \in Registries : DOMAIN r \subseteq Anchors /\ r \in [DOMAIN r -> Periods]
  /\ \A m \in Memos : m \subseteq Anchors
  /\ None # Blocked /\ Blocked \notin Approvals /\ None \notin Nat
  /\ \A rows \in SUBSET Anchors : \A h \in [rows -> Periods] : h # None

\* A file that is missing can be told from any that is there.
ASSUME ContentAssumption ==
  /\ None \notin Packets /\ None \notin Signals /\ None \notin Previews /\ None \notin Cands
  /\ None \notin Metas /\ None \notin Approvals /\ None \notin Verdicts

Run(file) == IF file = None THEN None ELSE file.run
RowsOf(file) == IF file = None THEN {} ELSE file.rows

-----------------------------------------------------------------------------
\* The promoted handoff can be used: what the verifier of Step 2 and Step 3, and
\* the availability evaluator, ask of the pointer and the effective handoff.
Live ==
  /\ disk["pointer"] # None /\ disk["effective"] = disk["pointer"].cand
  /\ today <= disk["pointer"].until

\* Mutant: the marker is compared by the handoff only.
LiveMarkerByBody ==
  disk["marker"] # None /\ disk["pointer"] # None /\ disk["marker"].cand = disk["pointer"].cand

LiveMarker == disk["marker"] # None /\ disk["marker"] = disk["pointer"]

\* The verdicts an evaluation may reach.  The raw research of the run may call
\* for one that has nothing to do with promotion, which HOLD stands for.
Reachable ==
  {v \in Verdicts :
     v # "HOLD" =>
       /\ Live /\ disk["base"] # None /\ RowsOf(disk["signals"]) # {}
       /\ v = "AUDIT_ONLY" => LiveMarker /\ disk["decision"] # None}

Init ==
  /\ today \in Days /\ registry \in Registries /\ pasted = None
  /\ disk \in {[f \in Files |-> IF f = "decision" THEN d ELSE None] : d \in {None, "packet"}}
  /\ pc = "idle" /\ run = 0 /\ faults = 0 /\ clean = FALSE /\ decided = FALSE

\* The contents disk may have after a write of one of the values to a file, and
\* after a write that failed.
Put(f, values) == {[disk EXCEPT ![f] = v] : v \in values}
Torn(f) == {disk, [disk EXCEPT ![f] = None]}

\* One step of a layer.  With its inputs it writes the file and goes on to next;
\* without, or if the write fails and is swallowed, the parse resumes after it.
Write(f, ready, values, next, resume) ==
  /\ pc = f
  /\ \/ /\ ready /\ disk' \in Put(FileOf(f), values) /\ pc' = next
        /\ UNCHANGED <<faults, clean>>
     \/ /\ ~ready /\ pc' = resume
        /\ UNCHANGED <<disk, faults, clean>>
     \/ /\ faults < MaxFaults /\ faults' = faults + 1 /\ clean' = FALSE
        /\ disk' \in Torn(FileOf(f)) /\ pc' = resume
  /\ UNCHANGED <<inputs, decided>>

-----------------------------------------------------------------------------
BeginParse ==
  /\ pc = "idle" /\ run < MaxRuns /\ run' = run + 1
  /\ registry' \in Registries /\ pasted' \in Memos \cup {None}
  /\ pc' = "packet" /\ clean' = TRUE /\ decided' = FALSE
  /\ UNCHANGED <<today, disk, faults>>

Packet == [anchors |-> registry, day |-> today, run |-> run]
WritePacket == Write("packet", TRUE, {Packet}, "memo", "memo")
WriteMemo == Write("memo", pasted # None, {pasted}, "repacket", "repacket")
RewritePacket == Write("repacket", TRUE, {Packet}, "base", "base")

\* The compiler: a base from the memo, then the rows the memo relies on whose
\* anchors are in their period on the day of the packet.
Memo == IF disk["memo"] = None THEN {} ELSE disk["memo"]
Grounded ==
  LET packet == disk["packet"]
  IN  IF packet = None THEN {}
      ELSE {a \in Memo \cap DOMAIN packet.anchors : Covers(packet.anchors[a], packet.day)}
WriteBase == Write("base", TRUE, {Memo}, "signals", "preview")
WriteSignals == Write("signals", TRUE, {[rows |-> Grounded, run |-> run]}, "preview", "preview")

\* Some of the accepted rows whose anchors the packet lists: the weekly cap.
PreviewRows ==
  IF disk["packet"] = None THEN {}
  ELSE RowsOf(disk["signals"]) \cap DOMAIN disk["packet"].anchors
WritePreview ==
  Write("preview", disk["signals"] # None,
        {[rows |-> rows, packet |-> Run(disk["packet"]), signals |-> Run(disk["signals"])] :
           rows \in SUBSET PreviewRows},
        "cand", "cand")

\* The rows of the preview on the compiled base; without one it is compiled anew.
BaseOfCand == IF disk["base"] = None THEN Memo ELSE disk["base"]
WriteCand ==
  Write("cand", disk["preview"] # None,
        {[rows |-> RowsOf(disk["preview"]), base |-> BaseOfCand]}, "meta", "elig")
WriteMeta ==
  Write("meta", TRUE,
        {[packet |-> Run(disk["packet"]), signals |-> Run(disk["signals"]),
          preview |-> disk["preview"], base |-> disk["base"]]}, "elig", "elig")

-----------------------------------------------------------------------------
\* The sources the metadata records are the ones on disk.
ChainMatches ==
  /\ disk["packet"] # None /\ disk["meta"].packet = disk["packet"].run
  /\ disk["signals"] # None /\ disk["meta"].signals = disk["signals"].run
  /\ disk["meta"].preview = disk["preview"]
  /\ disk["base"] # None /\ disk["meta"].base # None => disk["meta"].base = disk["base"]

\* Every row of the candidate cites an anchor the packet lists, usable on the
\* packet's day and in its period today.
AnchorsFresh ==
  \A a \in disk["cand"].rows :
    /\ a \in DOMAIN disk["packet"].anchors
    /\ Covers(disk["packet"].anchors[a], disk["packet"].day)
    /\ Covers(disk["packet"].anchors[a], today)

Eligible ==
  /\ ChainMatches /\ AnchorsFresh
  /\ disk["cand"].rows # {} /\ disk["preview"].rows # {} /\ disk["signals"].rows # {}

\* Mutant: the promotion expires with any of its anchors.
EarliestAny == {u \in Days : \E a \in disk["cand"].rows : u = disk["packet"].anchors[a].until}

\* The promotion expires with the first of its anchors.
Earliest ==
  {u \in Days : /\ \A a \in disk["cand"].rows : u <= disk["packet"].anchors[a].until
                /\ \E a \in disk["cand"].rows : u = disk["packet"].anchors[a].until}
Approved ==
  {[cand |-> disk["cand"], until |-> u, packet |-> disk["packet"],
    signals |-> disk["signals"]] : u \in Earliest}

\* Settings, caps, universe, budget or validation may block any candidate.
WriteElig ==
  Write("elig", disk["cand"] # None /\ disk["meta"] # None,
        (IF Eligible THEN Approved ELSE {}) \cup {Blocked}, "eview", "eview")

\* The candidate is the one the verdict is about, and the promotion not expired.
Promotable ==
  /\ disk["elig"] # Blocked /\ disk["cand"] = disk["elig"].cand
  /\ today <= disk["elig"].until

WriteEffectivePreview ==
  Write("eview", disk["elig"] # None,
        {IF Promotable THEN disk["cand"] ELSE disk["eview"]}, "pview", "effective")
WritePointerPreview ==
  Write("pview", TRUE, {IF Promotable THEN disk["elig"] ELSE Blocked}, "effective", "effective")

-----------------------------------------------------------------------------
\* The pointer writer: the effective handoff first and the pointer last, or, when a
\* rule or a write fails, both are removed.
Creatable ==
  /\ disk["pview"] # Blocked /\ disk["eview"] = disk["pview"].cand
  /\ today <= disk["pview"].until

WriteEffective ==
  /\ disk["pview"] # None /\ Creatable
  /\ Write("effective", TRUE, {disk["eview"]}, "pointer", "unlink")
\* Mutant: the pointer of an earlier parse is left where it is.
RefusePointerKeeping ==
  /\ pc = "effective" /\ disk["pview"] # None /\ pc' = "verdict"
  /\ UNCHANGED <<inputs, disk, faults, clean, decided>>

RefusePointer ==   \* also when the body does not validate again
  /\ pc = "effective" /\ disk["pview"] # None /\ pc' = "unlink"
  /\ UNCHANGED <<inputs, disk, faults, clean, decided>>
SkipPointer ==
  /\ pc = "effective" /\ disk["pview"] = None /\ pc' = "verdict"
  /\ UNCHANGED <<inputs, disk, faults, clean, decided>>
WritePointer == Write("pointer", TRUE, {disk["pview"]}, "verdict", "unlink")
UnlinkPointer == Write("unlink", TRUE, {None}, "unlink effective", "unlink effective")
UnlinkEffective == Write("unlink effective", TRUE, {None}, "verdict", "verdict")

\* Availability, at the end of a parse and when another command evaluates it again.
WriteVerdict == Write("verdict", TRUE, Reachable, "idle", "idle")
RefreshVerdict == Write("refresh", TRUE, Reachable, "idle", "idle")

Parse ==
  \/ BeginParse \/ WritePacket \/ WriteMemo \/ RewritePacket \/ WriteBase \/ WriteSignals
  \/ WritePreview \/ WriteCand \/ WriteMeta \/ WriteElig
  \/ WriteEffectivePreview \/ WritePointerPreview
  \/ WriteEffective \/ RefusePointer \/ SkipPointer \/ WritePointer
  \/ UnlinkPointer \/ UnlinkEffective \/ WriteVerdict

-----------------------------------------------------------------------------
\* Step 2 renders or parses on a decision-only verdict, if the verifier agrees now.
AdmitStep2 ==
  /\ pc = "idle" /\ disk["verdict"] = "DECISION_ONLY" /\ Live
  /\ pc' \in {"prompt", "decision"} /\ decided' = TRUE
  /\ UNCHANGED <<inputs, disk, faults, clean>>

\* A step of a command that lets a failure through.
Record(f, value, next) ==
  /\ pc = f /\ disk' \in Put(FileOf(f), {value}) /\ pc' = next
  /\ UNCHANGED <<inputs, faults, clean, decided>>

WritePrompt == Record("prompt", disk["pointer"], "marker")
WriteMarker == Record("marker", disk["pointer"], "idle")
WriteDecision == Record("decision", "packet", "remark")
RewriteMarker == Record("remark", disk["pointer"], "refresh")

\* Mutant: the verdict of Step 1 is believed without asking the verifier again.
AuditStep3Trusting ==
  /\ pc = "idle" /\ disk["verdict"] = "AUDIT_ONLY" /\ disk["pointer"] # None
  /\ disk' \in Put("audit", {disk["pointer"]})
  /\ UNCHANGED <<inputs, pc, faults, clean, decided>>

\* Step 3 renders or parses on an audit-only verdict, if its own verifier agrees now.
AuditStep3 ==
  /\ pc = "idle" /\ disk["verdict"] = "AUDIT_ONLY"
  /\ Live /\ LiveMarker /\ disk["decision"] # None
  /\ disk' \in Put("audit", {disk["pointer"]})
  /\ UNCHANGED <<inputs, pc, faults, clean, decided>>

\* The H1 replacement commands drop the verdict, and may evaluate again.
Invalidate ==
  /\ pc = "idle" /\ disk["verdict"] # None
  /\ disk' \in Put("verdict", {None}) /\ pc' \in {"refresh", "idle"}
  /\ UNCHANGED <<inputs, faults, clean, decided>>

\* The operator dates the settings to a later day.
Tick ==
  /\ pc = "idle" /\ today' \in Days /\ today' > today
  /\ UNCHANGED <<registry, pasted, disk, pc, run, faults, clean, decided>>

\* A command is killed, or raises; the file it was writing may be unreadable.
Crash ==
  /\ pc # "idle" /\ pc' = "idle" /\ disk' \in Torn(FileOf(pc))
  /\ faults < MaxFaults /\ faults' = faults + 1 /\ clean' = FALSE
  /\ UNCHANGED <<inputs, decided>>

Next ==
  \/ Parse
  \/ AdmitStep2 \/ WritePrompt \/ WriteMarker \/ WriteDecision \/ RewriteMarker
  \/ RefreshVerdict \/ AuditStep3 \/ Invalidate \/ Tick \/ Crash

Spec == Init /\ [][Next]_vars

-----------------------------------------------------------------------------
\* Every file holds what its writer puts there, or cannot be read.
TypeOK ==
  /\ today \in Days /\ registry \in Registries /\ pasted \in Memos \cup {None}
  /\ pc \in Steps \cup {"idle"} /\ run \in Nat /\ faults \in Nat
  /\ clean \in BOOLEAN /\ decided \in BOOLEAN
  /\ disk = [f \in Files |-> disk[f]] /\ \A f \in Files : disk[f] \in Contents(f) \cup {None}

\* A promotion cites anchors of the packet it was checked against, usable on the
\* packet's day, and outlives none of them: whatever layers failed on its way.
Backed(p) ==
  /\ p.cand.rows # {} /\ p.packet.day <= today
  /\ \A a \in p.cand.rows : /\ a \in DOMAIN p.packet.anchors
                            /\ Covers(p.packet.anchors[a], p.packet.day)
                            /\ p.until <= p.packet.anchors[a].until
PointerBacked ==
  \A f \in {"elig", "pview", "pointer", "prompt", "marker", "audit"} :
    disk[f] \notin {None, Blocked} => Backed(disk[f])

\* After a parse that met no failure a pointer is one of that parse: it was derived
\* from the packet and the signals on disk, and promotes only rows they accept.
CleanParseCurrent ==
  clean /\ pc = "idle" /\ disk["pointer"] # None =>
    /\ disk["pointer"].packet = disk["packet"] /\ disk["pointer"].signals = disk["signals"]
    /\ disk["packet"].run = run
    /\ disk["pointer"].cand.rows \subseteq disk["signals"].rows

\* After such a parse an audit is only allowed once Step 2 has been admitted again.
AuditNeedsThisStep2 ==
  clean /\ pc = "idle" /\ disk["verdict"] = "AUDIT_ONLY" => decided

\* The files and their writers implement PromotedSource.
Handoff(p) == [a \in p.cand.rows |-> p.packet.anchors[a]]
HandoffIn(f) == IF disk[f] = None THEN None ELSE Handoff(disk[f])
Promoted == INSTANCE PromotedSource WITH
  live <- IF Live THEN Handoff(disk["pointer"]) ELSE None,
  shown <- HandoffIn("prompt"), named <- HandoffIn("marker"), audited <- HandoffIn("audit")
PromotedSpec == Promoted!Spec

-----------------------------------------------------------------------------
\* "the candidate must have been derived from exactly the bytes present now
\* (protects against partial re-runs)", docs/step1_evidence_first_research_design.md
DerivedFromPresent ==
  [][disk'["elig"] # disk["elig"] /\ disk'["elig"] \notin {None, Blocked}
       => disk'["elig"].cand.rows \subseteq disk'["signals"].rows]_vars
=============================================================================
