--------------------------- MODULE WeeklyPipeline ---------------------------
(***************************************************************************)
(* The manual weekly run: Step 1 parse, Step 2 decision, Step 3 audit and  *)
(* Step 4 order compilation, joined by nothing but the files each leaves   *)
(* under artifacts/current.  A command is admitted from the files it finds *)
(* and then writes its own, one action per write, so that a process that   *)
(* dies leaves the prefix it had written.  A command refused by a gate     *)
(* writes one block artifact and raises; no command ever removes one.      *)
(*                                                                         *)
(* Data is abstracted to what the gates read.  A rendered prompt stands    *)
(* for the prompt, the empty raw file and its metadata.  A packet stands   *)
(* for the text files always written just before it.  What an operator     *)
(* pastes is a choice made when it is parsed; a paste the parser refuses   *)
(* writes nothing and is not a step.  run_weekly adds to a Step 2 render,  *)
(* or to nothing, reports that no command reads.                           *)
(***************************************************************************)
EXTENDS Naturals, FiniteSets

CONSTANTS
  Versions,      \* the research texts a parse can extract
  None,          \* no research file
  MaxBlocks      \* bound: block artifacts a refusal may find already on disk

ASSUME NoneAssumption == None \notin Versions
ASSUME MaxBlocksAssumption == MaxBlocks \in Nat

VARIABLES
  decision,     \* research_degraded_mode_decision.json, by its state
  decisionOf,   \* history: the research that decision was reached on
  research,     \* research_output.json
  candidate,    \* the handoff candidate and its validation, by their research
  pointer,      \* active_research_handoff_source.json is present
  prompt2, packet2,   \* Step 2: prompt, decision packet by the mode it was parsed in
  clean2,       \* that packet asks for no manual review and names no blocker
  marker2,      \* step2_promoted_decision_only.json is bound to that pointer
  prompt3, packet3,   \* Step 3: prompt, audited packet by its verdict
  basis3,       \* history: the mode of the decision packet that was audited
  prompt4, orders,    \* Step 4: prompt, the three canonical files
  parse4,       \* how the last run_step4 parse exited
  blocks,       \* the block artifacts on disk
  pc, mode,     \* next write of the running command, and how it was admitted
  everStrict,   \* history: Step 1 judged STRICT_FRESH since the last reset
  unjudged,     \* history: a parse replaced the research and wrote no verdict
  noOutput      \* history: the latest Step 1 parse reported NO_OUTPUT

step1Vars == <<decision, decisionOf, research, candidate, pointer>>
step2Vars == <<prompt2, packet2, clean2, marker2>>
step3Vars == <<prompt3, packet3, basis3>>
step4Vars == <<prompt4, orders, parse4>>
history   == <<everStrict, unjudged, noOutput>>
vars == <<step1Vars, step2Vars, step3Vars, step4Vars, blocks, pc, mode, history>>

(* HOLD stands for every state no gate admits: stale, degraded, invalid,   *)
(* no output, manual review, pending gates.                                *)
States == {"absent", "HOLD", "STRICT_FRESH", "STEP2_DECISION_ONLY",
           "STEP3_AUDIT_ONLY", "H1_MAPPED"}
Modes == {"none", "normal", "promoted"}
Blocks == {"step2", "step3", "step3_decision_only", "step3_downstream",
           "step4", "step4_final"}
Pcs == {"idle", "extract", "normalize", "noOutput", "evaluate", "rebuild", "marker2",
        "packet2", "remarker2", "refresh", "packet3", "downstream3",
        "publish", "clear"}

TypeOK ==
  /\ decision \in States
  /\ decisionOf \in Versions \cup {None} /\ research \in Versions \cup {None}
  /\ candidate \in Versions \cup {None}
  /\ pointer \in BOOLEAN
  /\ prompt2 \in BOOLEAN /\ packet2 \in Modes
  /\ clean2 \in BOOLEAN /\ marker2 \in BOOLEAN
  /\ prompt3 \in BOOLEAN
  /\ packet3 \in {"none", "pass", "fail"} /\ basis3 \in Modes
  /\ prompt4 \in BOOLEAN
  /\ orders \in {"none", "torn", "whole"}
  /\ parse4 \in {"none", "ok", "failed"}
  /\ blocks \subseteq Blocks
  /\ pc \in Pcs /\ mode \in Modes
  /\ everStrict \in BOOLEAN /\ unjudged \in BOOLEAN /\ noOutput \in BOOLEAN

Init ==
  /\ decision = "absent" /\ decisionOf = None /\ research = None
  /\ candidate = None /\ pointer = FALSE
  /\ prompt2 = FALSE /\ packet2 = "none" /\ clean2 = FALSE /\ marker2 = FALSE
  /\ prompt3 = FALSE /\ packet3 = "none" /\ basis3 = "none"
  /\ prompt4 = FALSE /\ orders = "none" /\ parse4 = "none"
  /\ blocks = {} /\ pc = "idle" /\ mode = "none"
  /\ everStrict = FALSE /\ unjudged = FALSE /\ noOutput = FALSE

Goto(p, m) == pc' = p /\ mode' = m
Done == Goto("idle", "none")

(***************************************************************************)
(* Step 1.  The promotion pointer is settled before the raw output is even *)
(* read; the verdict is written last.                                      *)
(***************************************************************************)
\* Layer 0h: written, removed, or left alone when the writer is swallowed.
\* A pointer written anew leaves the Step 2 marker bound to the old one.
ParseStep1 ==
  /\ pc = "idle"
  /\ \/ pointer' \in BOOLEAN /\ marker2' = FALSE
     \/ UNCHANGED <<pointer, marker2>>
  /\ Goto("extract", "none")
  /\ UNCHANGED <<decision, decisionOf, research, candidate, prompt2, packet2,
                 clean2, step3Vars, step4Vars, blocks, history>>

ExtractResearch ==
  /\ pc = "extract"
  /\ \/ research' \in Versions /\ noOutput' = FALSE /\ Goto("normalize", "none")
     \/ UNCHANGED <<research, noOutput>> /\ Goto("noOutput", "none")
  /\ UNCHANGED <<decision, decisionOf, candidate, pointer, step2Vars, step3Vars,
                 step4Vars, blocks, everStrict, unjudged>>

\* Mutant: the parse returns before the evaluator.
NormalizeUnjudged ==
  /\ pc = "normalize"
  /\ candidate' = research
  /\ Done
  /\ UNCHANGED <<decision, decisionOf, research, pointer, step2Vars, step3Vars,
                 step4Vars, blocks, history>>

Normalize ==
  /\ pc = "normalize"
  /\ candidate' = research
  /\ Goto("evaluate", "none")
  /\ UNCHANGED <<decision, decisionOf, research, pointer, step2Vars, step3Vars,
                 step4Vars, blocks, history>>

(* The verdicts the evaluator can reach.  The promoted ones need a live    *)
(* pointer, and audit-only a Step 2 marker bound to it and a packet.       *)
Verdicts(h1) ==
  {"HOLD", "STRICT_FRESH"}
    \cup (IF pointer THEN {"STEP2_DECISION_ONLY"} ELSE {})
    \cup (IF pointer /\ marker2 /\ packet2 # "none" THEN {"STEP3_AUDIT_ONLY"} ELSE {})
    \cup (IF h1 THEN {"H1_MAPPED"} ELSE {})

Persist(verdict) ==
  /\ decision' = verdict /\ decisionOf' = candidate
  /\ everStrict' = (everStrict \/ verdict = "STRICT_FRESH")
  /\ unjudged' = (unjudged /\ candidate # research)

\* The evaluator swallows every error, a failure to write its verdict too.
Swallowed ==
  /\ unjudged' = (unjudged \/ pc = "evaluate")
  /\ UNCHANGED <<decision, decisionOf, everStrict>>

Evaluate ==
  /\ pc \in {"evaluate", "refresh"}
  /\ \/ None \notin {candidate, research}
          /\ \E verdict \in Verdicts(FALSE) : Persist(verdict)
     \/ Swallowed
  /\ Done
  /\ UNCHANGED <<research, candidate, pointer, step2Vars, step3Vars, step4Vars, blocks,
                 noOutput>>

WriteNoOutput ==
  /\ pc = "noOutput"
  /\ \/ Persist("HOLD") /\ noOutput' = TRUE
     \/ Swallowed /\ UNCHANGED noOutput
  /\ Done
  /\ UNCHANGED <<research, candidate, pointer, step2Vars, step3Vars, step4Vars, blocks>>

\* The H1 replacement commands remove the verdict first, then rebuild it.
InvalidateForH1 ==
  /\ pc = "idle"
  /\ decision' = "absent" /\ decisionOf' = None
  /\ Goto("rebuild", "none")
  /\ UNCHANGED <<research, candidate, pointer, step2Vars, step3Vars, step4Vars,
                 blocks, history>>

\* From the candidate and research on disk, whether or not of one parse; when
\* either is missing, NO_OUTPUT or no verdict at all.
RebuildForH1 ==
  /\ pc = "rebuild"
  /\ \/ None \notin {candidate, research}
          /\ \E verdict \in Verdicts(TRUE) : Persist(verdict)
     \/ None \in {candidate, research}
          /\ \E verdict \in {"HOLD", "H1_MAPPED"} : Persist(verdict)
     \/ Swallowed
  /\ Done
  /\ UNCHANGED <<research, candidate, pointer, step2Vars, step3Vars, step4Vars, blocks,
                 noOutput>>

(***************************************************************************)
(* Step 2.                                                                 *)
(***************************************************************************)
Refuse(b) ==
  /\ Cardinality(blocks) <= MaxBlocks
  /\ blocks' = blocks \cup {b}
  /\ UNCHANGED <<step1Vars, step2Vars, step3Vars, prompt4, orders, pc, mode,
                 history>>

\* The gate admits a literal STRICT_FRESH verdict, or the promoted one.
Step2Mode ==
  CASE decision = "STRICT_FRESH"        -> "normal"
    [] decision = "STEP2_DECISION_ONLY" -> "promoted"
    [] OTHER                            -> "none"

\* Refused by the gate, by missing H1 evidence, or by the live check of
\* pointer and handoff, which also fails past promotion_expires_at.
RefuseStep2 ==
  /\ pc = "idle" /\ Step2Mode # "normal"
  /\ Refuse("step2") /\ UNCHANGED parse4

\* run_weekly renders too, on a STRICT_FRESH verdict.
RenderStep2 ==
  /\ pc = "idle"
  /\ \/ Step2Mode = "normal" /\ research # None /\ Done
     \/ Step2Mode = "promoted" /\ pointer /\ Goto("marker2", "promoted")
     \/ decision = "H1_MAPPED" /\ Done
  /\ prompt2' = TRUE
  /\ UNCHANGED <<step1Vars, packet2, clean2, marker2, step3Vars, step4Vars,
                 blocks, history>>

WriteMarker2 ==
  /\ pc \in {"marker2", "remarker2"}
  /\ marker2' = TRUE
  /\ IF pc = "marker2" THEN Done ELSE Goto("refresh", "promoted")
  /\ UNCHANGED <<step1Vars, prompt2, packet2, clean2, step3Vars, step4Vars,
                 blocks, history>>

ParseStep2 ==
  /\ pc = "idle" /\ prompt2
  /\ Step2Mode = "normal" \/ (Step2Mode = "promoted" /\ pointer)
  /\ Goto("packet2", Step2Mode)
  /\ UNCHANGED <<step1Vars, step2Vars, step3Vars, step4Vars, blocks, history>>

WritePacket2 ==
  /\ pc = "packet2"
  /\ packet2' = mode /\ clean2' \in BOOLEAN
  /\ IF mode = "promoted" THEN Goto("remarker2", mode) ELSE Done
  /\ UNCHANGED <<step1Vars, prompt2, marker2, step3Vars, step4Vars, blocks,
                 history>>

(***************************************************************************)
(* Step 3.                                                                 *)
(***************************************************************************)
\* Mutant: any packet left by Step 2 is taken for permission.
Step3ModeByPresence ==
  CASE decision = "STEP3_AUDIT_ONLY" /\ pointer /\ marker2 /\ packet2 # "none"
                                                         -> "promoted"
    [] decision \notin {"STEP3_AUDIT_ONLY", "STEP2_DECISION_ONLY"}
         /\ "step2" \notin blocks /\ packet2 # "none"   -> "normal"
    [] OTHER                                             -> "none"

\* Audit-only verifies pointer and marker live and skips the normal policy.
Step3Mode ==
  CASE decision = "STEP3_AUDIT_ONLY" /\ pointer /\ marker2 /\ packet2 # "none"
                                                         -> "promoted"
    [] decision = "STRICT_FRESH" /\ "step2" \notin blocks /\ packet2 # "none"
                                                         -> "normal"
    [] OTHER                                             -> "none"

RefuseStep3 ==
  /\ pc = "idle"
  /\ \/ decision = "STEP2_DECISION_ONLY" /\ Refuse("step3_decision_only")
     \/ decision # "STEP2_DECISION_ONLY" /\ Step3Mode # "normal" /\ Refuse("step3")
  /\ UNCHANGED parse4

RenderStep3 ==
  /\ pc = "idle"
  /\ \/ Step3Mode = "normal" /\ research # None /\ Done
     \/ Step3Mode = "promoted" /\ Goto("downstream3", "promoted")
  /\ prompt3' = TRUE
  /\ UNCHANGED <<step1Vars, step2Vars, packet3, basis3, step4Vars, blocks,
                 history>>

ParseStep3 ==
  /\ pc = "idle" /\ prompt3 /\ Step3Mode # "none"
  /\ Goto(IF Step3Mode = "normal" THEN "packet3" ELSE "downstream3", Step3Mode)
  /\ UNCHANGED <<step1Vars, step2Vars, step3Vars, step4Vars, blocks, history>>

WritePacket3 ==
  /\ pc = "packet3"
  /\ packet3' \in {"pass", "fail"} /\ basis3' = packet2
  /\ Done
  /\ UNCHANGED <<step1Vars, step2Vars, prompt3, step4Vars, blocks, history>>

\* Last of all, after an audit-only marker that no gate reads.
WriteDownstreamBlock ==
  /\ pc = "downstream3"
  /\ blocks' = blocks \cup {"step3_downstream"}
  /\ Done
  /\ UNCHANGED <<step1Vars, step2Vars, step3Vars, step4Vars, history>>

(***************************************************************************)
(* Step 4.                                                                 *)
(***************************************************************************)
Watched4 == {"step2", "step3", "step3_decision_only", "step3_downstream"}

\* Mutant: the audit-only block is not watched.
UpstreamGuard4NoDownstream ==
  /\ blocks \cap {"step2", "step3", "step3_decision_only"} = {}
  /\ packet2 # "none" /\ packet3 # "none"

UpstreamGuard4 ==
  blocks \cap Watched4 = {} /\ packet2 # "none" /\ packet3 # "none"

FinalSafetyGate ==
  /\ blocks \cap {"step2", "step3", "step4"} = {}
  /\ decision = "STRICT_FRESH"
  /\ clean2 /\ packet3 = "pass"

\* Render and parse are refused alike; a refused parse exits non-zero.
RefuseStep4 ==
  /\ pc = "idle"
  /\ \/ ~UpstreamGuard4 /\ Refuse("step4")
     \/ UpstreamGuard4 /\ ~FinalSafetyGate /\ Refuse("step4_final")
  /\ parse4' \in {parse4, "failed"}

RenderStep4 ==
  /\ pc = "idle" /\ UpstreamGuard4 /\ FinalSafetyGate /\ research # None
  /\ prompt4' = TRUE
  /\ UNCHANGED <<step1Vars, step2Vars, step3Vars, orders, parse4, blocks, pc,
                 mode, history>>

\* The first canonical file replaced; OrderPublish opens this up.
ParseStep4 ==
  /\ pc = "idle" /\ UpstreamGuard4 /\ FinalSafetyGate /\ prompt4
  /\ orders' = "torn" /\ parse4' = "failed"
  /\ Goto("publish", "normal")
  /\ UNCHANGED <<step1Vars, step2Vars, step3Vars, prompt4, blocks, history>>

PublishRest ==
  /\ pc = "publish"
  /\ orders' = "whole" /\ parse4' = "ok"
  /\ Done
  /\ UNCHANGED <<step1Vars, step2Vars, step3Vars, prompt4, blocks, history>>

(***************************************************************************)
(* The run summary, archive and reset.                                     *)
(***************************************************************************)
\* Mutant: only block artifacts count.
RunBlockedByArtifacts ==
  blocks \cap {"step2", "step3", "step4", "step4_final"} # {}

\* run_blocked in run_summary.json, which its readers have rebuilt first.
RunBlocked ==
  \/ blocks \cap {"step2", "step3", "step4", "step4_final"} # {}
  \/ decision \notin {"absent", "STRICT_FRESH"}

ResetStep1 ==
  /\ decision' = "absent" /\ decisionOf' = None
  /\ research' = None /\ candidate' = None /\ pointer' = FALSE
ResetStep2 ==
  prompt2' = FALSE /\ packet2' = "none" /\ clean2' = FALSE /\ marker2' = FALSE
ResetStep3 == prompt3' = FALSE /\ packet3' = "none" /\ basis3' = "none"
ResetStep4 == prompt4' = FALSE /\ orders' = "none" /\ parse4' = "none"
ResetRun ==
  /\ ResetStep1 /\ ResetStep2 /\ ResetStep3 /\ ResetStep4
  /\ blocks' = {}
  /\ everStrict' = FALSE /\ unjudged' = FALSE /\ noOutput' = FALSE

\* artifacts/current is moved aside in one rename.
Archive == pc = "idle" /\ ResetRun /\ UNCHANGED <<pc, mode>>

\* shutil.rmtree, one directory after another and, in Step 1's, whose files
\* are judged together, one file after another.
BeginClear ==
  /\ pc = "idle" /\ Goto("clear", "none")
  /\ UNCHANGED <<step1Vars, step2Vars, step3Vars, step4Vars, blocks, history>>

ClearFile1 ==
  \/ decision' = "absent" /\ decisionOf' = None
     /\ UNCHANGED <<research, candidate, pointer, marker2>>
  \/ research' = None
     /\ UNCHANGED <<decision, decisionOf, candidate, pointer, marker2>>
  \/ candidate' = None
     /\ UNCHANGED <<decision, decisionOf, research, pointer, marker2>>
  \/ pointer' = FALSE /\ marker2' = FALSE
     /\ UNCHANGED <<decision, decisionOf, research, candidate>>

ClearOne ==
  /\ pc = "clear"
  /\ \/ ClearFile1
        /\ UNCHANGED <<prompt2, packet2, clean2, step3Vars, step4Vars, blocks>>
     \/ ResetStep2 /\ blocks' = blocks \ {"step2"}
        /\ UNCHANGED <<step1Vars, step3Vars, step4Vars>>
     \/ ResetStep3
        /\ blocks' = blocks \ {"step3", "step3_decision_only", "step3_downstream"}
        /\ UNCHANGED <<step1Vars, step2Vars, step4Vars>>
     \/ ResetStep4 /\ blocks' = blocks \ {"step4", "step4_final"}
        /\ UNCHANGED <<step1Vars, step2Vars, step3Vars>>
  /\ UNCHANGED <<pc, mode, history>>

EndClear == pc = "clear" /\ ResetRun /\ Done

\* The process dies: what it had not written yet is never written.
Crash ==
  /\ pc # "idle" /\ Done
  /\ unjudged' = (unjudged \/ pc \in {"normalize", "evaluate"})
  /\ UNCHANGED <<step1Vars, step2Vars, step3Vars, step4Vars, blocks,
                 everStrict, noOutput>>

Step1 == \/ ParseStep1 \/ ExtractResearch \/ Normalize \/ Evaluate
         \/ WriteNoOutput \/ InvalidateForH1 \/ RebuildForH1
Step2 == RefuseStep2 \/ RenderStep2 \/ WriteMarker2 \/ ParseStep2 \/ WritePacket2
Step3 == \/ RefuseStep3 \/ RenderStep3 \/ ParseStep3 \/ WritePacket3
         \/ WriteDownstreamBlock
Step4 == RefuseStep4 \/ RenderStep4 \/ ParseStep4 \/ PublishRest
Reset == Archive \/ BeginClear \/ ClearOne \/ EndClear
Next == Step1 \/ Step2 \/ Step3 \/ Step4 \/ Reset \/ Crash

Spec == Init /\ [][Next]_vars

(***************************************************************************)
(* Properties.                                                             *)
(***************************************************************************)
\* Until Step 1 has once judged this run's research STRICT_FRESH, no chain of
\* commands, crashes and partial resets yields an audited packet, a Step 4
\* prompt or an order file.
NoOrdersWithoutStrict ==
  ~everStrict => packet3 = "none" /\ ~prompt4 /\ orders = "none"

\* A verdict that admits any later step was reached on the research on disk,
\* unless a parse replaced that research and ended without a verdict of its own.
VerdictJudgesResearch ==
  decision \in {"STRICT_FRESH", "STEP2_DECISION_ONLY", "STEP3_AUDIT_ONLY"}
    /\ ~unjudged /\ pc \notin {"normalize", "evaluate"} /\ research # None
  => decisionOf = research

\* The operator's acceptance checklist, run on the files on disk.
ChecklistPasses ==
  /\ ~RunBlocked
  /\ blocks \cap {"step2", "step3", "step3_decision_only", "step4", "step4_final"} = {}
  /\ orders # "none" /\ parse4 = "ok"

\* While a verdict is on disk, the checklist never passes a set of order files
\* left half replaced, nor one whose research is no longer STRICT_FRESH.
ChecklistSound ==
  ChecklistPasses /\ decision # "absent"
    => orders = "whole" /\ decision = "STRICT_FRESH"

\* Canonical order files are replaced only while every gate still admits it:
\* STRICT_FRESH research, a passed audit of a clean packet, and none of the
\* five blocks that guards and final gate watch.  A blocked run therefore
\* keeps its orders as they are until it is archived or cleared.
PublishAdmitted ==
  [][ orders' # orders /\ orders' # "none"
      => /\ decision = "STRICT_FRESH" /\ packet3 = "pass" /\ clean2
         /\ blocks \cap (Watched4 \cup {"step4"}) = {} ]_vars

\* What the Step 3 admission comment says of residual packets: one parsed in
\* promoted decision-only mode is never audited into order readiness.
DecisionOnlyNeverAudited == ~(packet3 = "pass" /\ basis3 = "promoted")

\* What the runbook guarantees of a parse that reported no output: the run
\* stays closed until another parse succeeds.
NoOutputFailsClosed == noOutput /\ pc = "idle" => decision # "STRICT_FRESH"
=============================================================================
