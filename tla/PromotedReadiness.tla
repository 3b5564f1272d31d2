------------------------- MODULE PromotedReadiness --------------------------
(***************************************************************************)
(* The reports on whether a promoted research handoff could go further     *)
(* than its audit.  A promoted Step 3 parse, and every Step 1 evaluation,  *)
(* verifies the promoted chain from disk, dry-runs a Step 4 preview gate   *)
(* over that verification and ends in a preflight that reads both reports  *)
(* back from disk (research/promoted_step4_readiness_dry_run.py,           *)
(* state/final_execution_safety_preflight.py, driven by                    *)
(* workflow/step1_research.py and workflow/step3_audit_engine.py).         *)
(*                                                                         *)
(* The preflight never opens a gate; what it can get wrong is to state     *)
(* that the deterministic prerequisites are met.  Its parts are written by *)
(* different commands at different times: pointer and effective handoff by *)
(* Step 1, packet and marker by Step 2, audit, marker and block by Step 3. *)
(* A command may be killed between two writes, another may replace a file  *)
(* between its readings, and a failed report write is swallowed, which     *)
(* leaves the previous report for the next reader.                         *)
(***************************************************************************)
EXTENDS Integers

CONSTANTS
  LastReadyDay,  \* days are 1..LastReadyDay; 0 stands for settings without a date
  PromotedHandoffs,  \* the promoted handoffs; equal hashes are equal values
  Packs,         \* the Step 2 decision packets
  Buyable,       \* those of them with an allowed buy universe
  MaxRewrites    \* bound: how often the operator or another command changes a file

ASSUME ReadinessAssumption ==
  LastReadyDay \in Nat \ {0} /\ Buyable \subseteq Packs /\ MaxRewrites \in Nat

VARIABLES
  day,           \* the settings' date
  budgets,       \* the settings hold three valid budgets
  snapshot,      \* portfolio_snapshot.txt: "clean", "gaps", or "none": no section (2a)
  sourced,       \* active_research_handoff_source.json: {} or handoff and expiry
  inForce,       \* the effective handoff: {} or the handoff
  affirmed,      \* its validation on disk says valid (and not of which handoff)
  marker2,       \* step2_promoted_decision_only.json: {} or what it names
  packed,        \* step2_decision_packet.json: {} or the packet
  marker3,       \* step3_promoted_audit_only.json: {} or what it names
  block,         \* the downstream block beside it is there
  audit,         \* template3_audit.md holds text
  audited,       \* audited_decision_packet.json, which only a normal Step 3 writes
  permission,    \* the decision on disk: "other" stands for all that open nothing here
  verification,  \* the readiness verification: {} or the reading it found in order
  dryRun,        \* the preview dry run: {} or decision and reading it would allow
  preflight,     \* the preflight: {} or what it was computed from when it says ready
  stage,         \* where the running command stands
  rewrites

edited == <<day, budgets, snapshot>>
promotion == <<sourced, inForce, affirmed>>
ofStep2 == <<marker2, packed>>
ofStep3 == <<marker3, block, audit, audited>>
reports == <<verification, dryRun, preflight>>
readiness == <<edited, promotion, ofStep2, ofStep3, permission, reports, stage, rewrites>>

ReadyDays == 1..LastReadyDay
NoDate == 0
Ended == <<"idle">>
Decisions == {"none", "other", "strict", "decision_only", "audit_only"}

\* Settings without a date leave the verifiers the machine's own date.
SettingsDay == IF day = NoDate THEN LastReadyDay ELSE day

-----------------------------------------------------------------------------
(* What a verification asks of the files it read. *)

Naming(p) == [pointer |-> p, effective |-> p.handoff]

\* The Step 2 verifier: the pointer has not expired and is about the effective
\* handoff. The validation names no handoff, so its hash is never compared.
LivePointers(r) ==
  {p \in r.pointer : p.until >= r.today /\ r.effective = {p.handoff} /\ r.checked}

\* The Step 3 verifier asks that the Step 2 marker names both and a packet is there.
LiveChain(r) ==
  r.packet # {} /\ \E p \in LivePointers(r) : r.marker2 = {Naming(p)}

Reading == [pointer |-> sourced, effective |-> inForce, checked |-> affirmed,
            marker2 |-> marker2, packet |-> packed, today |-> SettingsDay]

\* Mutant: the marker's packet hash is not compared.
Marker3NamesLivePointerOnly(r) ==
  \E m \in r.marker3 : {m.pointer} = r.pointer /\ {m.effective} = r.effective

\* Every hash the Step 3 marker records is that of the file read now.
Marker3NamesLive(r) ==
  \E m \in r.marker3 : /\ {m.pointer} = r.pointer /\ {m.effective} = r.effective
                       /\ {m.marker2} = r.marker2 /\ {m.packet} = r.packet

\* The block stands, the audit was answered, and no normal audit is left over.
AuditStands(r) == r.block /\ r.audit /\ ~r.audited

BudgetsStated(r) == r.budgets /\ r.snapshot # "none" /\ r.packet \subseteq Buyable

Verified(r) == LiveChain(r) /\ Marker3NamesLive(r) /\ AuditStands(r) /\ BudgetsStated(r)

\* The dry run allows only the audit-only decision.  It always adds that the real
\* gate is closed, which the preflight in turn requires.
WouldAllow(d, verified) == d = "audit_only" /\ verified # {}

DryRunOf(d, verified) ==
  IF WouldAllow(d, verified) THEN {[decision |-> d, read |-> r] : r \in verified} ELSE {}

\* Both reports are read back and must be there, valid and closed.  Without the
\* packets of a normal Step 2 and 3 the final gate is never ready, which is asked too.
ReportsInOrder(d) == d # "none" /\ verification # {} /\ dryRun # {}

\* The headroom can be computed only if every row of (2a) has a budget.
BudgetsInOrder ==
  budgets /\ snapshot = "clean" /\ packed # {} /\ packed \subseteq Buyable

PrerequisitesReady(d) == ReportsInOrder(d) /\ BudgetsInOrder

-----------------------------------------------------------------------------

ReadyInit ==
  /\ day = 1 /\ budgets = TRUE /\ snapshot = "clean"
  /\ sourced = {} /\ inForce = {} /\ affirmed = FALSE /\ marker2 = {} /\ packed = {}
  /\ marker3 = {} /\ block = FALSE /\ audit = FALSE /\ audited = FALSE
  /\ permission = "none"
  /\ verification = {} /\ dryRun = {} /\ preflight = {}
  /\ stage = Ended /\ rewrites = 0

\* The operator edits the settings between two commands, the snapshot at any time.
EditInputs ==
  /\ rewrites < MaxRewrites
  /\ \/ /\ stage = Ended
        /\ \/ day' \in (ReadyDays \cup {NoDate}) \ {day} /\ UNCHANGED budgets
           \/ budgets' = ~budgets /\ UNCHANGED day
        /\ UNCHANGED snapshot
     \/ snapshot' \in {"clean", "gaps", "none"} \ {snapshot} /\ UNCHANGED <<day, budgets>>
  /\ rewrites' = rewrites + 1
  /\ UNCHANGED <<promotion, ofStep2, ofStep3, permission, reports, stage>>

\* What layer 0h of a Step 1 parse leaves: a promotion, or none of its files.
Promotes(h, d) ==
  sourced' = {[handoff |-> h, until |-> d]} /\ inForce' = {h} /\ affirmed' = TRUE

PromotesNone == sourced' = {} /\ inForce' = {} /\ affirmed' = FALSE

\* An overlapping command replaces or removes the promotion, the handoff alone, a
\* file of Step 2 or the decision while the running one is between two steps.
Interfere ==
  /\ stage # Ended /\ rewrites < MaxRewrites
  /\ \/ /\ \/ \E h \in PromotedHandoffs, d \in ReadyDays : Promotes(h, d)
           \/ PromotesNone
           \/ (\E h \in PromotedHandoffs : inForce' = {h}) /\ affirmed' = TRUE /\ UNCHANGED sourced
        /\ UNCHANGED <<ofStep2, permission>>
     \/ (\E k \in Packs : packed' = {k}) /\ UNCHANGED <<promotion, marker2, permission>>
     \/ marker2' = {Naming(p) : p \in sourced} /\ UNCHANGED <<promotion, packed, permission>>
     \/ permission' \in {"none", "other"} /\ UNCHANGED <<promotion, ofStep2>>
  /\ rewrites' = rewrites + 1
  /\ UNCHANGED <<edited, ofStep3, reports, stage>>

-----------------------------------------------------------------------------
(* Step 1 and Step 2, as far as the reports depend on them. *)

\* A Step 1 parse: its promotion's handoff and validation are written before the
\* pointer, and all three removed if there is none. A command that only evaluates
\* again leaves them; a parse without an answer states so and evaluates nothing.
ParseStep1 ==
  /\ stage = Ended
  /\ \/ /\ rewrites < MaxRewrites /\ rewrites' = rewrites + 1
        /\ \E h \in PromotedHandoffs, d \in ReadyDays :
             /\ inForce' = {h} /\ affirmed' = TRUE
             /\ stage' = <<"pointer", [handoff |-> h, until |-> d]>>
        /\ UNCHANGED <<sourced, permission>>
     \/ PromotesNone /\ stage' = <<"evaluate">> /\ UNCHANGED <<permission, rewrites>>
     \/ stage' = <<"evaluate">> /\ UNCHANGED <<promotion, permission, rewrites>>
     \/ permission' = "other" /\ UNCHANGED <<promotion, stage, rewrites>>
  /\ UNCHANGED <<edited, ofStep2, ofStep3, reports>>

\* A pointer that cannot be written takes the files it is about with it.
PutPointer ==
  /\ stage[1] = "pointer"
  /\ \/ sourced' = {stage[2]} /\ UNCHANGED <<inForce, affirmed>>
     \/ PromotesNone
  /\ stage' = <<"evaluate">>
  /\ UNCHANGED <<edited, ofStep2, ofStep3, permission, reports, rewrites>>

\* The evaluation: what the research itself is worth, or the live chain.
Weigh ==
  /\ stage = <<"evaluate">>
  /\ \E d \in {"strict", "other"}
              \cup (IF LiveChain(Reading) THEN {"audit_only"}
                    ELSE IF LivePointers(Reading) # {} THEN {"decision_only"} ELSE {}) :
       stage' = <<"read promotion", d, "then decide">>
  /\ UNCHANGED <<edited, promotion, ofStep2, ofStep3, permission, reports, rewrites>>

\* Under fresh research a parse of Step 2 leaves a packet and no more.
AnswerStep2 ==
  /\ stage = Ended /\ permission = "strict"
  /\ rewrites < MaxRewrites /\ rewrites' = rewrites + 1
  /\ \E k \in Packs : packed' = {k}
  /\ UNCHANGED <<edited, promotion, marker2, ofStep3, permission, reports, stage>>

\* The promoted Step 2, verified live: a render leaves a marker, a parse a packet,
\* a marker and, if there is a candidate to judge, a fresh evaluation.
AskPromotedStep2 ==
  /\ stage = Ended /\ permission = "decision_only"
  /\ \E p \in LivePointers(Reading) : stage' = <<"marker 2", Naming(p), Ended>>
  /\ UNCHANGED <<edited, promotion, ofStep2, ofStep3, permission, reports, rewrites>>

AnswerPromotedStep2 ==
  /\ stage = Ended /\ permission = "decision_only"
  /\ rewrites < MaxRewrites /\ rewrites' = rewrites + 1
  /\ \E p \in LivePointers(Reading), k \in Packs :
       packed' = {k} /\ stage' \in {<<"marker 2", Naming(p), then>> : then \in {Ended, <<"evaluate">>}}
  /\ UNCHANGED <<edited, promotion, marker2, ofStep3, permission, reports>>

WriteMarker2 ==
  /\ stage[1] = "marker 2"
  /\ marker2' = {stage[2]} /\ stage' = stage[3]
  /\ UNCHANGED <<edited, promotion, packed, ofStep3, permission, reports, rewrites>>

-----------------------------------------------------------------------------
(* Step 3. *)

\* A normal parse, under fresh research only, leaves an audit and its packet.
ParseNormalStep3 ==
  /\ stage = Ended /\ permission = "strict" /\ packed # {}
  /\ audit' = TRUE /\ audited' \in {audited, TRUE}
  /\ UNCHANGED <<edited, promotion, ofStep2, marker3, block, permission, reports, stage, rewrites>>

\* The guard of a promoted render or parse: an audit-only decision and a chain that
\* verifies live.  Whatever the command then writes speaks of what was read here.
\* A decision-only permission is refused, as is an audit-only one that fails.
BeginPromotedStep3 ==
  /\ stage = Ended /\ permission = "audit_only"
  /\ LiveChain(Reading)
  /\ \E p \in sourced, m \in marker2, k \in packed, command \in {"render", "parse"} :
       stage' = <<IF command = "parse" THEN "audit" ELSE "marker 3", command,
               [pointer |-> p, effective |-> p.handoff, marker2 |-> m, packet |-> k]>>
  /\ UNCHANGED <<edited, promotion, ofStep2, ofStep3, permission, reports, rewrites>>

\* The answer must not be empty; which prompt it answers is not asked.
WriteAudit ==
  /\ stage[1] = "audit"
  /\ audit' = TRUE /\ stage' = <<"marker 3", stage[2], stage[3]>>
  /\ UNCHANGED <<edited, promotion, ofStep2, marker3, block, audited, permission, reports, rewrites>>

WriteMarker3 ==
  /\ stage[1] = "marker 3"
  /\ marker3' = {stage[3]} /\ stage' = <<"block", stage[2]>>
  /\ UNCHANGED <<edited, promotion, ofStep2, block, audit, audited, permission, reports, rewrites>>

\* After a parse the reports are refreshed, under the decision then on disk.
WriteBlock ==
  /\ stage[1] = "block"
  /\ block' = TRUE
  /\ stage' = IF stage[2] = "parse" THEN <<"read promotion", permission, "then stop">> ELSE Ended
  /\ UNCHANGED <<edited, promotion, ofStep2, marker3, audit, audited, permission, reports, rewrites>>

-----------------------------------------------------------------------------
(* The three reports. *)

\* The verification reads the promotion's files first,
ReadPromotion ==
  /\ stage[1] = "read promotion"
  /\ stage' = <<"verify", stage[2], stage[3], Reading>>
  /\ UNCHANGED <<edited, promotion, ofStep2, ofStep3, permission, reports, rewrites>>

\* The verification's reading: what it read first, and the rest as it is now.
Completed(r) ==
  [pointer |-> r.pointer, effective |-> r.effective, checked |-> r.checked,
   marker2 |-> r.marker2, packet |-> r.packet, today |-> r.today,
   marker3 |-> marker3, block |-> block, audit |-> audit, audited |-> audited,
   budgets |-> budgets, snapshot |-> snapshot]

\* then those of Step 3 and the inputs, and states whether all is in order.  The dry
\* run is handed the verification itself.  A failed write ends both, and leaves the
\* earlier file or a torn one, which reads as none.
WriteVerification ==
  /\ stage[1] = "verify"
  /\ LET r == Completed(stage[4])
         verified == IF Verified(r) THEN {r} ELSE {} IN
     \/ verification' = verified /\ stage' = <<"dry run", stage[2], stage[3], verified>>
     \/ verification' \in {verification, {}} /\ stage' = <<"preflight", stage[2], stage[3], FALSE>>
  /\ UNCHANGED <<edited, promotion, ofStep2, ofStep3, permission, dryRun, preflight, rewrites>>

WriteDryRun ==
  /\ stage[1] = "dry run"
  /\ \/ /\ dryRun' = DryRunOf(stage[2], stage[4])
        /\ stage' = <<"preflight", stage[2], stage[3], TRUE>>
     \/ dryRun' \in {dryRun, {}} /\ stage' = <<"preflight", stage[2], stage[3], FALSE>>
  /\ UNCHANGED <<edited, promotion, ofStep2, ofStep3, permission, verification, preflight, rewrites>>

\* The preflight reads both reports, the packet and the snapshot from disk.  A parse
\* or refresh of Step 1 puts its decision on disk only after it.
AfterPreflight == IF stage[3] = "then decide" THEN <<"decide", stage[2]>> ELSE Ended

WritePreflight ==
  /\ stage[1] = "preflight"
  /\ \/ preflight' =
          IF PrerequisitesReady(stage[2])
            THEN {[verified |-> v, allowed |-> a, decision |-> stage[2],
                   snapshot |-> snapshot, budgets |-> budgets, whole |-> stage[4]] :
                     v \in verification, a \in dryRun}
            ELSE {}
     \/ preflight' \in {preflight, {}}
  /\ stage' = AfterPreflight
  /\ UNCHANGED <<edited, promotion, ofStep2, ofStep3, permission, verification, dryRun, rewrites>>

\* A write that fails leaves the earlier decision, a torn one or the fallback.
PutDecision ==
  /\ stage[1] = "decide"
  /\ permission' \in {stage[2], permission, "none", "other"} /\ stage' = Ended
  /\ UNCHANGED <<edited, promotion, ofStep2, ofStep3, reports, rewrites>>

Killed ==
  /\ stage # Ended /\ stage' = Ended
  /\ UNCHANGED <<edited, promotion, ofStep2, ofStep3, permission, reports, rewrites>>

ReadyNext ==
  \/ EditInputs \/ Interfere \/ ParseStep1 \/ PutPointer \/ Weigh
  \/ AnswerStep2 \/ AskPromotedStep2 \/ AnswerPromotedStep2 \/ WriteMarker2
  \/ ParseNormalStep3 \/ BeginPromotedStep3 \/ WriteAudit \/ WriteMarker3 \/ WriteBlock
  \/ ReadPromotion \/ WriteVerification \/ WriteDryRun \/ WritePreflight \/ PutDecision
  \/ Killed

ReadySpec == ReadyInit /\ [][ReadyNext]_readiness

-----------------------------------------------------------------------------

\* The reading a verification rests on is of one promotion: the Step 3 marker was
\* written for exactly this pointer, handoff, Step 2 marker and packet, while the
\* pointer had not expired, with the audit and its block beside it.
OfOnePromotion(r) ==
  /\ \E p \in r.pointer, k \in r.packet :
       /\ p.until >= r.today
       /\ r.marker3 = {[pointer |-> p, effective |-> p.handoff, packet |-> k,
                        marker2 |-> Naming(p)]}
  /\ r.block /\ r.audit /\ ~r.audited

\* A preflight that says its deterministic prerequisites are ready rests on a
\* verification of one promotion and on a dry run under the audit-only decision,
\* over clean budgets; and if no report write of its run failed, the dry run is of
\* that very verification and of the decision the preflight itself was given
\* (evaluate_promoted_final_safety_preflight).
ReadinessSound ==
  \A p \in preflight :
    /\ OfOnePromotion(p.verified) /\ OfOnePromotion(p.allowed.read)
    /\ p.allowed.decision = "audit_only"
    /\ p.snapshot = "clean" /\ p.budgets
    /\ p.whole => p.allowed.decision = p.decision /\ p.allowed.read = p.verified
=============================================================================
