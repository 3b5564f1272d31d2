----------------------- MODULE PromotionChain_proofs -----------------------
(* The readiness reports for any handoffs, packets and days; Step 2 over H1  *)
(* research for any entries, sources, answers and periods; PromotionChain    *)
(* for any anchors, registries, memos and bounds; and the availability       *)
(* decision for any settings, facts and handoffs.                            *)
EXTENDS PromotionChain, Availability, PromotedReadiness, H1Step2, TLAPS

(* The readiness reports after the promoted steps.                          *)

\* What the files of the promotion and of the promoted steps hold.
LivePointer == [handoff : PromotedHandoffs, until : ReadyDays]
Markers2 == [pointer : LivePointer, effective : PromotedHandoffs]
Markers3 == [pointer : LivePointer, effective : PromotedHandoffs, marker2 : Markers2, packet : Packs]

ReadyTyped ==
  /\ sourced \subseteq LivePointer /\ marker2 \subseteq Markers2 /\ packed \subseteq Packs
  /\ marker3 = {} \/ \E m \in Markers3 : marker3 = {m}

\* What the running command is about to write.
StageOK ==
  /\ stage[1] = "pointer" => stage[2] \in LivePointer
  /\ stage[1] = "marker 2" => stage[2] \in Markers2 /\ stage[3] \in {Ended, <<"evaluate">>}
  /\ stage[1] \in {"audit", "marker 3"} => stage[3] \in Markers3
  /\ stage[1] = "dry run" => verification = stage[4]
  /\ stage[1] = "preflight" =>
       /\ stage[4] \in BOOLEAN
       /\ stage[4] => dryRun = DryRunOf(stage[2], verification)

\* What the first two reports rest on.
ReportsOK ==
  /\ \A r \in verification : OfOnePromotion(r) /\ \A s \in verification : r = s
  /\ \A a \in dryRun : a.decision = "audit_only" /\ OfOnePromotion(a.read)

ReadyInv == ReadyTyped /\ StageOK /\ ReportsOK /\ ReadinessSound

-----------------------------------------------------------------------------
\* A verification in order is of one promotion.
LEMMA VerifiedIsOne ==
  ASSUME ReadyTyped, NEW f, Verified(Completed(f))
  PROVE  OfOnePromotion(Completed(f))
<1> DEFINE r == Completed(f)
<1>1. /\ r.marker3 = marker3 /\ r.block /\ r.audit /\ ~r.audited
  BY DEF Verified, AuditStands, Completed
<1>2. /\ LiveChain(r) /\ Marker3NamesLive(r)
  BY DEF Verified
<1> HIDE DEF r
<1>3. PICK p \in r.pointer : p.until >= r.today /\ r.effective = {p.handoff} /\ r.marker2 = {Naming(p)}
  BY <1>2 DEF LiveChain, LivePointers
<1>4. PICK m \in Markers3 : marker3 = {m}
  BY <1>1, <1>2 DEF Marker3NamesLive, ReadyTyped
<1>5. {m.pointer} = r.pointer /\ {m.effective} = r.effective /\ {m.marker2} = r.marker2 /\ {m.packet} = r.packet
  BY <1>1, <1>2, <1>4 DEF Marker3NamesLive
<1>6. m.pointer = p /\ m.effective = p.handoff /\ m.marker2 = Naming(p) /\ m.packet \in r.packet
  BY <1>3, <1>5
<1>7. m = [pointer |-> p, effective |-> p.handoff, packet |-> m.packet, marker2 |-> Naming(p)]
  BY <1>6 DEF Markers3
<1> QED
  BY <1>1, <1>3, <1>4, <1>6, <1>7 DEF OfOnePromotion, r

\* Whatever leaves the reports and the third marker as they are.
LEMMA ReportsStay ==
  ASSUME ReadyInv, UNCHANGED <<reports, marker3>>,
         sourced' \subseteq LivePointer, marker2' \subseteq Markers2, packed' \subseteq Packs, StageOK'
  PROVE  ReadyInv'
<1>1. ReadyTyped' /\ ReportsOK'
  BY DEF ReadyInv, ReadyTyped, ReportsOK, reports
<1>2. ReadinessSound'
  BY DEF ReadyInv, ReadinessSound, reports
<1> QED
  BY <1>1, <1>2 DEF ReadyInv

LEMMA ReadyInitInv == ReadyInit => ReadyInv
  BY DEF ReadyInit, ReadyInv, ReadyTyped, StageOK, ReportsOK, ReadinessSound, Ended

LEMMA ReadyStep == ReadyInv /\ [ReadyNext]_readiness => ReadyInv'
<1> SUFFICES ASSUME ReadyInv, [ReadyNext]_readiness PROVE ReadyInv'
  OBVIOUS
<1> USE DEF edited, promotion, ofStep2, ofStep3
<1>0. /\ sourced \subseteq LivePointer /\ marker2 \subseteq Markers2 /\ packed \subseteq Packs /\ StageOK
  BY DEF ReadyInv, ReadyTyped
<1>a. /\ \A h \in PromotedHandoffs, d \in ReadyDays : [handoff |-> h, until |-> d] \in LivePointer
      /\ \A p \in LivePointer : Naming(p) \in Markers2
  BY DEF LivePointer, Markers2, Naming
<1>1. CASE EditInputs
  <2>1. UNCHANGED <<promotion, ofStep2, ofStep3, reports, stage>>
    BY <1>1 DEF EditInputs
  <2>2. StageOK'
    BY <1>0, <2>1 DEF StageOK, reports
  <2> QED
    BY <1>0, <2>1, <2>2, ReportsStay
<1>2. CASE Interfere
  <2>1. UNCHANGED <<ofStep3, reports, stage>>
    BY <1>2 DEF Interfere
  <2>2. sourced' \subseteq LivePointer /\ marker2' \subseteq Markers2 /\ packed' \subseteq Packs
    BY <1>0, <1>2, <1>a DEF Interfere, Promotes, PromotesNone
  <2>3. StageOK'
    BY <1>0, <2>1 DEF StageOK, reports
  <2> QED
    BY <2>1, <2>2, <2>3, ReportsStay
<1>3. CASE ParseStep1
  <2>1. UNCHANGED <<ofStep2, ofStep3, reports>> /\ (UNCHANGED sourced \/ sourced' = {})
    BY <1>3 DEF ParseStep1, PromotesNone
  <2>2. StageOK'
    <3>1. CASE \E h \in PromotedHandoffs, d \in ReadyDays : stage' = <<"pointer", [handoff |-> h, until |-> d]>>
      BY <1>a, <3>1 DEF StageOK
    <3>2. CASE stage' = <<"evaluate">>
      BY <3>2 DEF StageOK
    <3>3. CASE stage' = stage
      BY <1>0, <2>1, <3>3 DEF StageOK, reports
    <3> QED
      BY <1>3, <3>1, <3>2, <3>3 DEF ParseStep1
  <2> QED
    BY <1>0, <2>1, <2>2, ReportsStay
<1>4. CASE PutPointer
  <2>1. UNCHANGED <<ofStep2, ofStep3, reports>> /\ sourced' \subseteq LivePointer /\ stage' = <<"evaluate">>
    BY <1>0, <1>4 DEF PutPointer, PromotesNone, StageOK
  <2>2. StageOK'
    BY <2>1 DEF StageOK
  <2> QED
    BY <1>0, <2>1, <2>2, ReportsStay
<1>5. CASE Weigh
  <2>1. UNCHANGED <<promotion, ofStep2, ofStep3, reports>>
        /\ \E d : stage' = <<"read promotion", d, "then decide">>
    BY <1>5 DEF Weigh
  <2>2. StageOK'
    <3>1. PICK d : stage' = <<"read promotion", d, "then decide">>
      BY <2>1
    <3>2. stage'[1] = "read promotion"
      BY <3>1
    <3> QED
      BY <3>2 DEF StageOK
  <2> QED
    BY <1>0, <2>1, <2>2, ReportsStay
<1>6. CASE AnswerStep2 \/ ParseNormalStep3
  <2>1. UNCHANGED <<promotion, marker2, marker3, reports, stage>> /\ packed' \subseteq Packs
    BY <1>0, <1>6 DEF AnswerStep2, ParseNormalStep3
  <2>2. StageOK'
    BY <1>0, <2>1 DEF StageOK, reports
  <2> QED
    BY <1>0, <2>1, <2>2, ReportsStay
<1>7. CASE AskPromotedStep2 \/ AnswerPromotedStep2
  <2>1. UNCHANGED <<promotion, marker2, marker3, reports>> /\ packed' \subseteq Packs
    BY <1>0, <1>7 DEF AskPromotedStep2, AnswerPromotedStep2
  <2>2. PICK p \in LivePointers(Reading) : \E then \in {Ended, <<"evaluate">>} : stage' = <<"marker 2", Naming(p), then>>
    BY <1>7 DEF AskPromotedStep2, AnswerPromotedStep2
  <2>3. p \in LivePointer
    BY <1>0, <2>2 DEF LivePointers, Reading
  <2>4. StageOK'
    <3>1. PICK then \in {Ended, <<"evaluate">>} : stage' = <<"marker 2", Naming(p), then>>
      BY <2>2
    <3>2. stage'[1] = "marker 2" /\ stage'[2] = Naming(p) /\ stage'[3] = then
      BY <3>1
    <3>3. Naming(p) \in Markers2
      BY <1>a, <2>3
    <3> QED
      BY <3>2, <3>3 DEF StageOK
  <2> QED
    BY <1>0, <2>1, <2>4, ReportsStay
<1>8. CASE WriteMarker2
  <2>1. /\ UNCHANGED <<promotion, packed, marker3, reports>> /\ marker2' = {stage[2]}
        /\ stage[2] \in Markers2 /\ stage' \in {Ended, <<"evaluate">>}
    BY <1>0, <1>8 DEF WriteMarker2, StageOK
  <2>2. StageOK'
    <3>1. stage'[1] \in {"idle", "evaluate"}
      BY <2>1 DEF Ended
    <3> QED
      BY <3>1 DEF StageOK
  <2> QED
    BY <1>0, <2>1, <2>2, ReportsStay
<1>9. CASE BeginPromotedStep3
  <2>1. UNCHANGED <<promotion, ofStep2, ofStep3, reports>>
    BY <1>9 DEF BeginPromotedStep3
  <2>2. PICK p \in sourced, m \in marker2, k \in packed, command \in {"render", "parse"} :
          stage' = <<IF command = "parse" THEN "audit" ELSE "marker 3", command,
                     [pointer |-> p, effective |-> p.handoff, marker2 |-> m, packet |-> k]>>
    BY <1>9 DEF BeginPromotedStep3
  <2>3. [pointer |-> p, effective |-> p.handoff, marker2 |-> m, packet |-> k] \in Markers3
    BY <1>0 DEF Markers3, LivePointer
  <2>4. StageOK'
    BY <2>2, <2>3 DEF StageOK
  <2> QED
    BY <1>0, <2>1, <2>4, ReportsStay
<1>10. CASE WriteAudit \/ WriteBlock \/ ReadPromotion
  <2>1. UNCHANGED <<promotion, ofStep2, marker3, reports>>
    BY <1>10 DEF WriteAudit, WriteBlock, ReadPromotion
  <2>2. StageOK'
    <3>1. CASE WriteAudit
      BY <1>0, <3>1 DEF WriteAudit, StageOK
    <3>2. CASE WriteBlock \/ ReadPromotion
      <4>1. stage'[1] \in {"read promotion", "idle", "verify"}
        <5>1. \/ stage' = <<"read promotion", permission, "then stop">> \/ stage' = <<"idle">>
              \/ stage' = <<"verify", stage[2], stage[3], Reading>>
          BY <3>2 DEF WriteBlock, ReadPromotion, Ended
        <5>2. CASE stage' = <<"read promotion", permission, "then stop">>
          BY <5>2
        <5>3. CASE stage' = <<"idle">>
          BY <5>3
        <5>4. CASE stage' = <<"verify", stage[2], stage[3], Reading>>
          BY <5>4
        <5> QED
          BY <5>1, <5>2, <5>3, <5>4
      <4> QED
        BY <4>1 DEF StageOK
    <3> QED
      BY <1>10, <3>1, <3>2
  <2> QED
    BY <1>0, <2>1, <2>2, ReportsStay
<1>11. CASE WriteMarker3
  <2>1. /\ UNCHANGED <<promotion, ofStep2, reports>> /\ marker3' = {stage[3]} /\ stage[3] \in Markers3
        /\ stage'[1] = "block"
    BY <1>0, <1>11 DEF WriteMarker3, StageOK
  <2>2. StageOK'
    BY <2>1 DEF StageOK
  <2> QED
    BY <2>1, <2>2 DEF ReadyInv, ReadyTyped, ReportsOK, ReadinessSound, reports
<1>12. CASE WriteVerification
  <2> DEFINE r == Completed(stage[4])
             verified == IF Verified(r) THEN {r} ELSE {}
  <2>1. /\ UNCHANGED <<promotion, ofStep2, ofStep3, dryRun, preflight>>
        /\ \/ verification' = verified /\ stage' = <<"dry run", stage[2], stage[3], verified>>
           \/ verification' \in {verification, {}} /\ stage' = <<"preflight", stage[2], stage[3], FALSE>>
    BY <1>12 DEF WriteVerification
  <2>2. \A v \in verified : OfOnePromotion(v) /\ \A s \in verified : v = s
    BY VerifiedIsOne DEF ReadyInv
  <2> HIDE DEF verified
  <2>3. ReportsOK'
    BY <2>1, <2>2 DEF ReportsOK, ReadyInv
  <2>4. StageOK'
    <3>1. CASE verification' = verified /\ stage' = <<"dry run", stage[2], stage[3], verified>>
      BY <3>1 DEF StageOK
    <3>2. CASE stage' = <<"preflight", stage[2], stage[3], FALSE>>
      BY <3>2 DEF StageOK
    <3> QED
      BY <2>1, <3>1, <3>2
  <2> QED
    BY <2>1, <2>3, <2>4 DEF ReadyInv, ReadyTyped, ReadinessSound
<1>13. CASE WriteDryRun
  <2>1. /\ UNCHANGED <<promotion, ofStep2, ofStep3, verification, preflight>> /\ verification = stage[4]
        /\ \/ dryRun' = DryRunOf(stage[2], stage[4]) /\ stage' = <<"preflight", stage[2], stage[3], TRUE>>
           \/ dryRun' \in {dryRun, {}} /\ stage' = <<"preflight", stage[2], stage[3], FALSE>>
    BY <1>0, <1>13 DEF WriteDryRun, StageOK
  <2>2. \A a \in DryRunOf(stage[2], verification) : a.decision = "audit_only" /\ OfOnePromotion(a.read)
    BY DEF DryRunOf, WouldAllow, ReadyInv, ReportsOK
  <2>3. ReportsOK'
    BY <2>1, <2>2 DEF ReportsOK, ReadyInv
  <2>4. StageOK'
    <3>1. CASE /\ dryRun' = DryRunOf(stage[2], stage[4])
               /\ stage' = <<"preflight", stage[2], stage[3], TRUE>>
      <4>1. stage'[1] = "preflight" /\ stage'[2] = stage[2] /\ stage'[4] = TRUE
        BY <3>1
      <4>2. dryRun' = DryRunOf(stage'[2], verification')
        BY <2>1, <3>1, <4>1
      <4> QED
        BY <4>1, <4>2 DEF StageOK, DryRunOf, WouldAllow
    <3>2. CASE stage' = <<"preflight", stage[2], stage[3], FALSE>>
      BY <3>2 DEF StageOK
    <3> QED
      BY <2>1, <3>1, <3>2
  <2> QED
    BY <2>1, <2>3, <2>4 DEF ReadyInv, ReadyTyped, ReadinessSound
<1>14. CASE WritePreflight
  <2>1. /\ UNCHANGED <<promotion, ofStep2, ofStep3, verification, dryRun>>
        /\ stage' = AfterPreflight /\ stage[1] = "preflight"
    BY <1>14 DEF WritePreflight
  <2>2. StageOK'
    BY <2>1 DEF StageOK, AfterPreflight, Ended
  <2>3. ASSUME NEW p \in preflight'
        PROVE  /\ OfOnePromotion(p.verified) /\ OfOnePromotion(p.allowed.read)
               /\ p.allowed.decision = "audit_only"
               /\ p.snapshot = "clean" /\ p.budgets
               /\ p.whole => p.allowed.decision = p.decision /\ p.allowed.read = p.verified
    <3>1. CASE p \in preflight
      BY <3>1 DEF ReadyInv, ReadinessSound
    <3>2. CASE p \notin preflight
      <4>1. PICK v \in verification, a \in dryRun :
              p = [verified |-> v, allowed |-> a, decision |-> stage[2],
                   snapshot |-> snapshot, budgets |-> budgets, whole |-> stage[4]]
        BY <1>14, <3>2 DEF WritePreflight
      <4>2. BudgetsInOrder
        BY <1>14, <3>2 DEF WritePreflight, PrerequisitesReady
      <4>3. /\ p.verified = v /\ p.allowed = a /\ p.decision = stage[2]
            /\ p.snapshot = snapshot /\ p.budgets = budgets /\ p.whole = stage[4]
        BY <4>1
      <4>4. OfOnePromotion(v) /\ a.decision = "audit_only" /\ OfOnePromotion(a.read)
            /\ \A s \in verification : v = s
        BY DEF ReadyInv, ReportsOK
      <4>5. stage[4] => a.decision = stage[2] /\ a.read = v
        BY <1>0, <2>1, <4>4 DEF StageOK, DryRunOf
      <4> QED
        BY <4>2, <4>3, <4>4, <4>5 DEF BudgetsInOrder
    <3> QED
      BY <3>1, <3>2
  <2>4. ReadinessSound'
    BY <2>3 DEF ReadinessSound
  <2> QED
    BY <2>1, <2>2, <2>4 DEF ReadyInv, ReadyTyped, ReportsOK
<1>15. CASE PutDecision \/ Killed
  <2>1. UNCHANGED <<promotion, ofStep2, ofStep3, reports>> /\ stage' = Ended
    BY <1>15 DEF PutDecision, Killed
  <2>2. StageOK'
    BY <2>1 DEF StageOK, Ended
  <2> QED
    BY <1>0, <2>1, <2>2, ReportsStay
<1>16. CASE UNCHANGED readiness
  <2>1. UNCHANGED <<promotion, ofStep2, ofStep3, reports, stage>>
    BY <1>16 DEF readiness
  <2>2. StageOK'
    BY <1>0, <2>1 DEF StageOK, reports
  <2> QED
    BY <1>0, <2>1, <2>2, ReportsStay
<1> QED
  BY <1>1, <1>2, <1>3, <1>4, <1>5, <1>6, <1>7, <1>8, <1>9, <1>10, <1>11, <1>12, <1>13, <1>14, <1>15, <1>16
     DEF ReadyNext

\* Whatever is parsed, replaced, refused or killed between the commands, a preflight
\* that says its prerequisites are ready rests on a verification of one promotion and
\* on a dry run under the audit-only decision, over clean budgets
\* (promoted_step4_readiness_dry_run, final_execution_safety_preflight).
THEOREM ReadinessSafe == ReadySpec => []ReadinessSound
<1>1. ReadyInv => ReadinessSound
  BY DEF ReadyInv
<1> QED
  BY ReadyInitInv, ReadyStep, <1>1, PTL DEF ReadySpec

-----------------------------------------------------------------------------
(* Step 2 over H1 research.                                                 *)

Commitments == [prompt : Payloads, evidence : SUBSET Entries]
H1Steps == {"idle", "write lh2 receipt", "payload", "prompt", "raw", "commit", "capture answer",
            "report answer", "prompt bytes", "answer bytes", "lh2", "prerequisite"}

\* The steps after a commitment was read; those that judge; those that judge an answer.
Committed == {"capture answer", "report answer", "prompt bytes", "answer bytes", "lh2", "prerequisite"}
Judging == {"prompt bytes", "answer bytes", "lh2", "prerequisite"}
Answered == {"lh2", "prerequisite"}

\* A commitment is to a payload that was admitted, and to its entries.
Good(c) == c \in Commitments /\ admitted[c.prompt] # NoFile /\ c.evidence = Evidence[c.prompt]

AdmittedBy(p, when) == admitted[p] \in Nat /\ admitted[p] <= when

\* The entries of a payload are of the period before the day.
Fresh(p, when) == \A e \in Evidence[p] : Published[e] <= when /\ when - Published[e] <= MaxAgeDays

H1Cmds ==
  [at : H1Steps, day : 0..LastH1Day, commitment : Commitments \cup {NoFile},
   answer : Answers \cup {NoFile}, payload : Payloads \cup {Malformed, Other, NoFile}]

H1CmdOK ==
  /\ cmd \in H1Cmds
  /\ cmd.at = "write lh2 receipt" => cmd.payload \in Payloads \cup {Malformed}
  /\ cmd.at \in {"prompt", "raw", "commit"} =>
       /\ cmd.payload \in Payloads \cup {Other}
       /\ cmd.payload \in Payloads => admitted[cmd.payload] # NoFile
  /\ cmd.at = "commit" => cmd.payload # Other
  /\ cmd.at \in Committed => Good(cmd.commitment)
  /\ cmd.at \in Judging => cmd.day <= clock /\ AdmittedBy(cmd.commitment.prompt, cmd.day)
  /\ cmd.at \in Answered => cmd.answer \in Answers /\ Cites[cmd.answer] \subseteq cmd.commitment.evidence
  /\ cmd.at = "prerequisite" => cmd.payload \in Payloads /\ Fresh(cmd.payload, cmd.day)

H1Inv ==
  /\ H1ReportSound /\ H1CmdOK
  /\ \A p \in Payloads : admitted[p] # NoFile => AdmittedBy(p, clock)
  /\ commitment \notin {NoFile, Partial} => Good(commitment)

-----------------------------------------------------------------------------
LEMMA H1Constants ==
  /\ LastH1Day \in Nat /\ MaxAgeDays \in Nat /\ Published \in [Entries -> Nat]
  /\ Evidence \in [Payloads -> SUBSET Entries] /\ Cites \in [Answers -> SUBSET Entries]
  BY EntryAssumption, EvidenceAssumption

\* A payload neither stale nor of the future is fresh.
LEMMA NeitherIsFresh ==
  ASSUME NEW p \in Payloads, NEW when \in 0..LastH1Day, ~Stale(p, when), ~Future(p, when)
  PROVE  Fresh(p, when)
<1> SUFFICES ASSUME NEW e \in Evidence[p]
             PROVE  Published[e] <= when /\ when - Published[e] <= MaxAgeDays
  BY DEF Fresh
<1>1. Published[e] \in Nat /\ MaxAgeDays \in Nat /\ when \in Nat
  BY H1Constants
<1>2. Published[e] <= when
  BY <1>1 DEF Future
<1>3. ~(Age(e, when) > MaxAgeDays)
  BY DEF Stale
<1> QED
  BY <1>1, <1>2, <1>3 DEF Age

\* A payload admitted stays so.
LEMMA KeepsGood ==
  ASSUME NEW c, Good(c), UNCHANGED admitted
  PROVE  Good(c)'
  BY DEF Good

\* Whatever leaves the commitment, the report, the verdict and the admissions.
LEMMA H1Frame ==
  ASSUME H1Inv, UNCHANGED <<commitment, report, verdict, admitted>>, H1Types', H1CmdOK', clock <= clock', clock' \in Nat
  PROVE  H1Inv'
<1>1. \A p \in Payloads : (admitted[p] # NoFile => AdmittedBy(p, clock))'
  <2> SUFFICES ASSUME NEW p \in Payloads, admitted[p] # NoFile
               PROVE  AdmittedBy(p, clock)'
    OBVIOUS
  <2>1. admitted[p] \in Nat /\ admitted[p] <= clock /\ clock \in Nat
    BY H1Constants DEF H1Inv, AdmittedBy, H1ReportSound, H1Types
  <2>2. admitted[p] <= clock'
    BY <2>1
  <2> QED
    BY <2>1, <2>2 DEF AdmittedBy
<1>2. (commitment \notin {NoFile, Partial} => Good(commitment))'
  BY DEF H1Inv, Good
<1>3. ReportOfAdmitted' /\ CurrentCitesCurrent'
  BY DEF H1Inv, H1ReportSound, ReportOfAdmitted, CurrentCitesCurrent
<1> QED
  BY <1>1, <1>2, <1>3 DEF H1Inv, H1ReportSound

\* A command that waits, one that has ended, one that reads on.
LEMMA CmdStays ==
  ASSUME H1Inv, UNCHANGED <<cmd, admitted>>, clock \in Nat, clock' \in Nat, clock <= clock'
  PROVE  H1CmdOK'
<1>1. H1CmdOK /\ cmd' = cmd
  BY DEF H1Inv
<1>2. (cmd.at \in Judging => cmd.day <= clock)'
  <2>1. cmd.day \in 0..LastH1Day
    BY <1>1 DEF H1CmdOK, H1Cmds
  <2>2. cmd.day \in Nat
    BY <2>1, H1Constants
  <2>3. cmd.at \in Judging => cmd.day <= clock
    BY <1>1 DEF H1CmdOK
  <2> QED
    BY <1>1, <2>2, <2>3
<1>3. (cmd.at \in Committed => Good(cmd.commitment))'
  BY <1>1 DEF H1CmdOK, Good
<1>4. (cmd.at \in Judging => AdmittedBy(cmd.commitment.prompt, cmd.day))'
  BY <1>1 DEF H1CmdOK, AdmittedBy
<1>5. (cmd.at = "prerequisite" => cmd.payload \in Payloads /\ Fresh(cmd.payload, cmd.day))'
  BY <1>1 DEF H1CmdOK
<1>6. (cmd.at \in {"prompt", "raw", "commit"} =>
         /\ cmd.payload \in Payloads \cup {Other}
         /\ cmd.payload \in Payloads => admitted[cmd.payload] # NoFile)'
  BY <1>1 DEF H1CmdOK
<1> QED
  BY <1>1, <1>2, <1>3, <1>4, <1>5, <1>6 DEF H1CmdOK

LEMMA CmdEnds ==
  ASSUME cmd' = NoCommand
  PROVE  H1CmdOK'
<1>1. NoCommand \in H1Cmds
  BY H1Constants DEF NoCommand, H1Cmds, H1Steps
<1>2. NoCommand.at = "idle"
  BY DEF NoCommand
<1> HIDE DEF NoCommand
<1> QED
  BY <1>1, <1>2 DEF H1CmdOK, Committed, Judging, Answered

\* The operator, and a command that ends without a word.
LEMMA Operates ==
  ASSUME H1Inv, EditSource \/ PasteH1Answer \/ EditPrompt \/ DecideGate \/ ClockTicks \/ Stop
  PROVE  H1Inv'
<1>1. H1Types /\ clock \in Nat /\ LastH1Day \in Nat
  BY H1Constants DEF H1Inv, H1ReportSound, H1Types
<1>2. UNCHANGED <<commitment, receipt, report, verdict, admitted, lh2Receipt>>
  BY DEF EditSource, PasteH1Answer, EditPrompt, DecideGate, ClockTicks, Stop, files, env
<1>3. clock' \in 0..LastH1Day /\ clock <= clock'
  BY <1>1 DEF EditSource, PasteH1Answer, EditPrompt, DecideGate, ClockTicks, Stop, env, H1Types
<1>4. /\ source' \in Payloads \cup {Malformed, NoFile} /\ gate' \in Gates
      /\ prompt' \in Payloads \cup {Other, NoFile} /\ responded' \in Answers \cup {Junk, NoFile}
  BY <1>1 DEF EditSource, PasteH1Answer, EditPrompt, DecideGate, ClockTicks, Stop, env, files, H1Types
<1>5. H1Types'
  BY <1>1, <1>2, <1>3, <1>4 DEF H1Types
<1>6. H1CmdOK'
  <2>1. CASE UNCHANGED cmd
    BY <1>1, <1>2, <1>3, <2>1, CmdStays
  <2>2. CASE cmd' = NoCommand
    BY <2>2, CmdEnds
  <2> QED
    BY <2>1, <2>2 DEF EditSource, PasteH1Answer, EditPrompt, DecideGate, ClockTicks, Stop
<1> QED
  BY <1>2, <1>3, <1>5, <1>6, H1Frame

\* A command that only reads.
LEMMA H1Reads ==
  ASSUME H1Inv, UNCHANGED <<env, files, verdict, admitted>>, H1CmdOK'
  PROVE  H1Inv'
<1>1. H1Types /\ clock \in Nat
  BY DEF H1Inv, H1ReportSound, H1Types
<1>2. H1Types' /\ UNCHANGED <<commitment, report, verdict, admitted, clock>>
  BY <1>1 DEF H1Types, env, files
<1> QED
  BY <1>1, <1>2, H1Frame

LEMMA BeginsReading ==
  ASSUME H1Inv, DigestSource \/ AdmitOrdinary \/ AdmitH1 \/ CaptureForPrompt \/ ReportForPrompt \/ ReadReport
  PROVE  H1Inv'
<1>1. H1Types /\ H1CmdOK /\ clock \in 0..LastH1Day /\ cmd = NoCommand
      /\ (commitment \notin {NoFile, Partial} => Good(commitment))
  BY DEF H1Inv, H1ReportSound, H1Types, DigestSource, AdmitOrdinary, AdmitH1, CaptureForPrompt, ReportForPrompt,
         ReadCommitted, ReadReport
<1>2. UNCHANGED <<env, files, verdict, admitted>>
  BY DEF DigestSource, AdmitOrdinary, AdmitH1, CaptureForPrompt, ReportForPrompt, ReadCommitted, ReadReport, Read
<1>3. /\ clock' = clock /\ admitted' = admitted
  BY <1>2 DEF env
<1>4. H1CmdOK'
  <2>1. CASE DigestSource
    <3>1. source \in Payloads \cup {Malformed}
      BY <1>1, <2>1 DEF H1Types, DigestSource
    <3>2. /\ cmd' \in H1Cmds
          /\ cmd'.at = "write lh2 receipt" /\ cmd'.payload = source
      BY <1>1, <2>1, <3>1 DEF DigestSource, Read, H1CmdOK, H1Cmds, H1Steps
    <3> QED
      BY <3>1, <3>2 DEF H1CmdOK, Committed, Judging, Answered
  <2>2. CASE AdmitOrdinary \/ AdmitH1
    <3>1. PICK w \in {"prompt", "payload"} :
            /\ cmd' \in H1Cmds
            /\ cmd'.at = w /\ (w = "prompt" => cmd'.payload = Other)
      <4>1. CASE AdmitOrdinary
        BY <1>1, <4>1 DEF AdmitOrdinary, Read, H1CmdOK, H1Cmds, H1Steps
      <4>2. CASE AdmitH1
        BY <1>1, <4>2 DEF AdmitH1, Read, H1CmdOK, H1Cmds, H1Steps
      <4> QED
        BY <2>2, <4>1, <4>2
    <3> QED
      BY <3>1, TokenAssumption DEF H1CmdOK, Committed, Judging, Answered
  <2>3. CASE CaptureForPrompt \/ ReportForPrompt
    <3>1. PICK w \in {"capture answer", "report answer"} : ReadCommitted(w)
      BY <2>3 DEF CaptureForPrompt, ReportForPrompt
    <3>2. Good(commitment)
      BY <1>1, <3>1 DEF ReadCommitted
    <3>3. commitment \in Commitments
      BY <3>2 DEF Good
    <3>4. /\ cmd' \in H1Cmds
          /\ cmd'.at = w /\ cmd'.commitment = commitment
      BY <1>1, <3>1, <3>3 DEF ReadCommitted, Read, H1CmdOK, H1Cmds, H1Steps
    <3>5. Good(commitment)' /\ commitment' = commitment
      BY <1>2, <1>3, <3>2 DEF Good, files
    <3> QED
      BY <3>4, <3>5 DEF H1CmdOK, Committed, Judging, Answered
  <2>4. CASE ReadReport
    <3>2. Good(commitment)
      BY <1>1, <2>4 DEF ReadReport
    <3>3. commitment \in Commitments
      BY <3>2 DEF Good
    <3>4. /\ cmd' \in H1Cmds
          /\ cmd'.at = "prompt bytes" /\ cmd'.commitment = commitment /\ cmd'.day = clock
      BY <1>1, <2>4, <3>3 DEF ReadReport, Read, H1CmdOK, H1Cmds, H1Steps
    <3>5. Good(commitment)' /\ commitment' = commitment
      BY <1>2, <1>3, <3>2 DEF Good, files
    <3>6. AdmittedBy(commitment.prompt, clock)
      <4>1. commitment.prompt \in Payloads /\ admitted[commitment.prompt] # NoFile
        BY <3>2, <3>3 DEF Good, Commitments
      <4> QED
        BY <4>1 DEF H1Inv
    <3>7. PICK d \in Nat : d = clock
      BY <1>1, H1Constants
    <3>8. PICK c : c = commitment
      OBVIOUS
    <3>9. /\ cmd' \in H1Cmds /\ cmd'.at = "prompt bytes" /\ cmd'.commitment = c
      BY <1>3, <3>4, <3>8
    <3>14. cmd'.day = d /\ clock' = d
      BY <1>3, <3>4, <3>7
    <3>10. Good(c)'
      BY <1>3, <3>2, <3>8 DEF Good
    <3>11. AdmittedBy(c.prompt, d)'
      BY <1>3, <3>6, <3>7, <3>8 DEF AdmittedBy
    <3>12. cmd'.day <= clock'
      <4>1. d <= d
        BY <3>7
      <4> QED
        BY <3>14, <4>1
    <3>13. AdmittedBy(cmd.commitment.prompt, cmd.day)'
      BY <3>9, <3>14, <3>11 DEF AdmittedBy
    <3> QED
      BY <3>9, <3>10, <3>12, <3>13 DEF H1CmdOK, Committed, Judging, Answered
  <2> QED
    BY <2>1, <2>2, <2>3, <2>4
<1> QED
  BY <1>2, <1>4, H1Reads

-----------------------------------------------------------------------------
\* A command that reads on keeps what it read before.
LEMMA ReadsOn ==
  ASSUME H1Inv, NEW w \in H1Steps, NEW c, Read(w, c), c \in H1Cmds, [c EXCEPT !.at = w] \in H1Cmds,
         w \in Judging, c.commitment = cmd.commitment, c.day = cmd.day, cmd.at \in Judging,
         w \in Answered => c.answer \in Answers /\ Cites[c.answer] \subseteq c.commitment.evidence,
         w = "prerequisite" => c.payload \in Payloads /\ Fresh(c.payload, c.day)
  PROVE  H1Inv'
<1>1. UNCHANGED <<env, files, verdict, admitted>>
  BY DEF Read
<1>2. clock' = clock /\ admitted' = admitted
  BY <1>1 DEF env
<1>3. PICK d : d = [c EXCEPT !.at = w]
  OBVIOUS
<1>4. /\ d \in H1Cmds /\ d.at = w /\ d.commitment = cmd.commitment /\ d.day = cmd.day
      /\ d.answer = c.answer /\ d.payload = c.payload /\ c.commitment = cmd.commitment
  BY <1>3 DEF H1Cmds
<1>5. cmd' = d
  BY <1>3 DEF Read
<1>6. Good(d.commitment) /\ d.day <= clock /\ AdmittedBy(d.commitment.prompt, d.day)
  BY <1>4 DEF H1Inv, H1CmdOK, Committed, Judging
<1>7. Good(d.commitment)' /\ AdmittedBy(d.commitment.prompt, d.day)'
  BY <1>2, <1>5, <1>6 DEF Good, AdmittedBy
<1>8. /\ w \in Answered => d.answer \in Answers /\ Cites[d.answer] \subseteq d.commitment.evidence
      /\ w = "prerequisite" => d.payload \in Payloads /\ Fresh(d.payload, d.day)
  BY <1>4
<1>9. H1CmdOK'
  BY <1>2, <1>4, <1>5, <1>6, <1>7, <1>8 DEF H1CmdOK, Committed, Judging
<1> QED
  BY <1>1, <1>9, H1Reads

\* A judgement that is not CURRENT.
LEMMA JudgesOther ==
  ASSUME H1Inv, NEW outcome, outcome # "CURRENT", Judge(outcome)
  PROVE  H1Inv'
<1>1. UNCHANGED <<env, files, admitted>> /\ H1CmdOK'
  BY CmdEnds DEF Judge
<1>2. H1Types' /\ ReportOfAdmitted' /\ (commitment \notin {NoFile, Partial} => Good(commitment))'
  BY <1>1 DEF H1Inv, H1ReportSound, H1Types, ReportOfAdmitted, Good, env, files
<1>3. (\A p \in Payloads : admitted[p] # NoFile => AdmittedBy(p, clock))'
  BY <1>1 DEF H1Inv, AdmittedBy, env
<1>4. CurrentCitesCurrent'
  <2>1. verdict' = [outcome |-> outcome]
    BY DEF Judge
  <2> QED
    BY <2>1 DEF CurrentCitesCurrent
<1> QED
  BY <1>1, <1>2, <1>3, <1>4 DEF H1Inv, H1ReportSound

\* A judgement CURRENT.
LEMMA JudgesCurrent ==
  ASSUME H1Inv, cmd.at = "prerequisite", Evidence[cmd.payload] = cmd.commitment.evidence, Judge("CURRENT")
  PROVE  H1Inv'
<1>1. UNCHANGED <<env, files, admitted>> /\ H1CmdOK'
  BY CmdEnds DEF Judge
<1>2. H1Types' /\ ReportOfAdmitted' /\ (commitment \notin {NoFile, Partial} => Good(commitment))'
  BY <1>1 DEF H1Inv, H1ReportSound, H1Types, ReportOfAdmitted, Good, env, files
<1>3. (\A p \in Payloads : admitted[p] # NoFile => AdmittedBy(p, clock))'
  BY <1>1 DEF H1Inv, AdmittedBy, env
<1>4. PICK d, a, q : verdict' = [outcome |-> "CURRENT", day |-> d, answer |-> a, payload |-> q]
                     /\ d = cmd.day /\ a = cmd.answer /\ q = cmd.payload
  BY DEF Judge
<1>5. /\ Good(cmd.commitment) /\ AdmittedBy(cmd.commitment.prompt, d) /\ Fresh(q, d)
      /\ Cites[a] \subseteq cmd.commitment.evidence /\ d \in 0..LastH1Day
  BY <1>4 DEF H1Inv, H1CmdOK, H1Cmds, Committed, Judging, Answered
<1>6. PICK p \in Payloads : Evidence[p] = Evidence[q] /\ AdmittedBy(p, d)
  BY <1>4, <1>5 DEF Good, Commitments
<1>7. admitted'[p] \in 0..d
  BY <1>1, <1>5, <1>6, H1Constants DEF AdmittedBy
<1>8. Cites[a] \subseteq Evidence[q] /\ Fresh(q, d)
  BY <1>4, <1>5
<1>9. CurrentCitesCurrent'
  BY <1>4, <1>6, <1>7, <1>8 DEF CurrentCitesCurrent, Fresh
<1> QED
  BY <1>1, <1>2, <1>3, <1>9 DEF H1Inv, H1ReportSound

LEMMA Judges ==
  ASSUME H1Inv, ReadPrompt \/ ReadAnswer \/ ReadPayload \/ Conclude
  PROVE  H1Inv'
<1>1. H1Types /\ H1CmdOK /\ cmd \in H1Cmds
  BY DEF H1Inv, H1ReportSound, H1CmdOK
<1>2. CASE ReadPrompt
  <2>1. CASE Read("answer bytes", cmd)
    <3>1. cmd.at = "prompt bytes" /\ [cmd EXCEPT !.at = "answer bytes"] \in H1Cmds
      BY <1>1, <1>2 DEF ReadPrompt, H1Cmds, H1Steps
    <3> QED
      BY <1>1, <2>1, <3>1, ReadsOn DEF Judging, Answered, H1Steps
  <2>2. CASE Judge("REPORT_BINDING_MISMATCH")
    BY <2>2, JudgesOther
  <2> QED
    BY <1>2, <2>1, <2>2 DEF ReadPrompt
<1>3. CASE ReadAnswer
  <2>1. CASE Judge("REPORT_BINDING_MISMATCH")
    BY <2>1, JudgesOther
  <2>2. CASE ~Judge("REPORT_BINDING_MISMATCH")
    <3>1. /\ cmd.at = "answer bytes" /\ Parses(responded, cmd.commitment.evidence)
          /\ Read("lh2", [cmd EXCEPT !.answer = responded])
      BY <1>3, <2>2 DEF ReadAnswer
    <3>2. PICK c : c = [cmd EXCEPT !.answer = responded]
      OBVIOUS
    <3>3. responded \in Answers /\ Cites[responded] \subseteq cmd.commitment.evidence
      BY <3>1 DEF Parses
    <3>4. /\ c \in H1Cmds /\ [c EXCEPT !.at = "lh2"] \in H1Cmds
          /\ c.commitment = cmd.commitment /\ c.day = cmd.day /\ c.answer = responded
      BY <1>1, <3>2, <3>3 DEF H1Cmds, H1Steps
    <3>5. Read("lh2", c)
      BY <3>1, <3>2
    <3>6. c.answer \in Answers /\ Cites[c.answer] \subseteq c.commitment.evidence
      BY <3>3, <3>4
    <3> QED
      BY <3>1, <3>4, <3>5, <3>6, ReadsOn DEF Judging, H1Steps
  <2> QED
    BY <2>1, <2>2
<1>4. CASE ReadPayload
  <2>1. CASE Judge("CURRENT_LH2_STALE") \/ Judge("CURRENT_LH2_FUTURE")
    BY <2>1, JudgesOther
  <2>2. CASE ~(Judge("CURRENT_LH2_STALE") \/ Judge("CURRENT_LH2_FUTURE"))
    <3>1. /\ cmd.at = "lh2" /\ CurrentPayload # NoFile /\ ~Stale(source, cmd.day) /\ ~Future(source, cmd.day)
          /\ Read("prerequisite", [cmd EXCEPT !.payload = source])
      BY <1>4, <2>2 DEF ReadPayload
    <3>2. PICK c : c = [cmd EXCEPT !.payload = source]
      OBVIOUS
    <3>3. source \in Payloads
      BY <3>1 DEF CurrentPayload, Readable
    <3>4. /\ c \in H1Cmds /\ [c EXCEPT !.at = "prerequisite"] \in H1Cmds /\ c.payload = source
          /\ c.commitment = cmd.commitment /\ c.day = cmd.day /\ c.answer = cmd.answer
      BY <1>1, <3>2, <3>3 DEF H1Cmds, H1Steps
    <3>5. Read("prerequisite", c)
      BY <3>1, <3>2
    <3>6. cmd.answer \in Answers /\ Cites[cmd.answer] \subseteq cmd.commitment.evidence
      BY <1>1, <3>1 DEF H1CmdOK, Answered
    <3>7. cmd.day \in 0..LastH1Day
      BY <1>1 DEF H1Cmds
    <3>8. Fresh(source, cmd.day)
      BY <3>1, <3>3, <3>7, NeitherIsFresh
    <3>9. /\ c.answer \in Answers /\ Cites[c.answer] \subseteq c.commitment.evidence
          /\ c.payload \in Payloads /\ Fresh(c.payload, c.day)
      BY <3>3, <3>4, <3>6, <3>8
    <3> QED
      BY <3>1, <3>4, <3>5, <3>9, ReadsOn DEF Judging, H1Steps
  <2> QED
    BY <2>1, <2>2
<1>5. CASE Conclude
  <2>1. CASE Judge("CURRENT_H1_PREREQUISITE_NOT_MET") \/ Judge("CURRENT_EVIDENCE_UNIVERSE_CHANGED")
    BY <2>1, JudgesOther
  <2>2. CASE ~(Judge("CURRENT_H1_PREREQUISITE_NOT_MET") \/ Judge("CURRENT_EVIDENCE_UNIVERSE_CHANGED"))
    BY <1>5, <2>2, JudgesCurrent DEF Conclude
  <2> QED
    BY <2>1, <2>2
<1> QED
  BY <1>2, <1>3, <1>4, <1>5

-----------------------------------------------------------------------------
\* Whatever writes a file but the commitment and the report.
LEMMA H1Writes ==
  ASSUME H1Inv, UNCHANGED <<env, commitment, report, verdict, admitted>>, H1Types', H1CmdOK'
  PROVE  H1Inv'
<1>1. clock \in Nat /\ clock' = clock
  BY H1Constants DEF H1Inv, H1ReportSound, H1Types, env
<1> QED
  BY <1>1, H1Frame

LEMMA WritesLh2Receipt ==
  ASSUME H1Inv, WriteLh2Receipt
  PROVE  H1Inv'
<1>1. /\ UNCHANGED <<env, prompt, commitment, responded, receipt, report, verdict, admitted>>
      /\ lh2Receipt' = cmd.payload /\ cmd.payload \in Payloads \cup {Malformed} /\ cmd' = NoCommand
  BY DEF WriteLh2Receipt, H1Inv, H1CmdOK
<1>2. H1Types'
  BY <1>1 DEF H1Inv, H1ReportSound, H1Types, env
<1> QED
  BY <1>1, <1>2, CmdEnds, H1Writes

\* The two writes of a render that go on.
LEMMA RendersOn ==
  ASSUME H1Inv, WriteH1Prompt \/ PrepareRaw
  PROVE  H1Inv'
<1>1. H1Types /\ H1CmdOK /\ cmd \in H1Cmds /\ cmd.at \in {"prompt", "raw"}
  BY DEF H1Inv, H1ReportSound, H1CmdOK, WriteH1Prompt, PrepareRaw
<1>2. UNCHANGED <<env, lh2Receipt, commitment, receipt, report, verdict, admitted>>
  BY DEF WriteH1Prompt, PrepareRaw
<1>3. cmd.payload \in Payloads \cup {Other} /\ (cmd.payload \in Payloads => admitted[cmd.payload] # NoFile)
  BY <1>1 DEF H1CmdOK
<1>4. prompt' \in Payloads \cup {Other, NoFile} /\ responded' \in Answers \cup {Junk, NoFile}
  BY <1>1, <1>3 DEF WriteH1Prompt, PrepareRaw, H1Types
<1>5. H1Types'
  BY <1>1, <1>2, <1>4 DEF H1Types, env
<1>6. H1CmdOK'
  <2>1. CASE cmd' = NoCommand
    BY <2>1, CmdEnds
  <2>2. CASE cmd' # NoCommand
    <3>1. PICK w \in {"raw", "commit"} :
            /\ cmd' = [cmd EXCEPT !.at = w]
            /\ w = "commit" => cmd.payload # Other
      BY <2>2 DEF WriteH1Prompt, PrepareRaw
    <3>2. PICK d : d = [cmd EXCEPT !.at = w]
      OBVIOUS
    <3>3. d \in H1Cmds /\ d.at = w /\ d.payload = cmd.payload
      BY <1>1, <3>2 DEF H1Cmds, H1Steps
    <3>4. admitted' = admitted
      BY <1>2
    <3>6. cmd' = d
      BY <3>1, <3>2
    <3>5. /\ d.payload \in Payloads \cup {Other} /\ (w = "commit" => d.payload # Other)
          /\ d.payload \in Payloads => admitted[d.payload] # NoFile
      <4>1. d.payload = cmd.payload
        BY <3>3
      <4>2. w = "commit" => cmd.payload # Other
        BY <3>1
      <4> QED
        BY <1>3, <4>1, <4>2
    <3> QED
      BY <3>3, <3>4, <3>5, <3>6 DEF H1CmdOK, Committed, Judging, Answered
  <2> QED
    BY <2>1, <2>2
<1> QED
  BY <1>2, <1>5, <1>6, H1Writes

\* A payload admitted to a render keeps the day it was first admitted.
LEMMA Admits ==
  ASSUME H1Inv, AdmitPayload
  PROVE  H1Inv'
<1>1. H1Types /\ H1CmdOK /\ cmd \in H1Cmds /\ cmd.at = "payload"
  BY DEF H1Inv, H1ReportSound, H1CmdOK, AdmitPayload
<1>2. UNCHANGED <<env, files, verdict>> /\ clock' = clock /\ commitment' = commitment /\ report' = report
  BY DEF AdmitPayload, env, files
<1>3. source \in Payloads
  BY DEF AdmitPayload, CurrentPayload, Readable
<1>4. admitted \in [Payloads -> (0..LastH1Day) \cup {NoFile}] /\ clock \in 0..LastH1Day
  BY <1>1 DEF H1Types
<1>5. NoFile \notin 0..LastH1Day
  BY TokenAssumption, H1Constants
<1>6. admitted' = [admitted EXCEPT ![source] = IF @ = NoFile THEN clock ELSE @]
  BY DEF AdmitPayload
<1>7. /\ admitted' \in [Payloads -> (0..LastH1Day) \cup {NoFile}]
      /\ \A p \in Payloads : admitted[p] # NoFile => admitted'[p] = admitted[p]
      /\ \A p \in Payloads : admitted'[p] # admitted[p] => admitted'[p] = clock
      /\ admitted'[source] # NoFile
  BY <1>3, <1>4, <1>5, <1>6
<1>8. H1Types'
  BY <1>1, <1>2, <1>7 DEF H1Types, env, files
<1>9. ReportOfAdmitted'
  <2>1. report \notin {NoFile, Partial} => report.prompt \in Payloads
    BY <1>1 DEF H1Types
  <2> QED
    BY <1>2, <1>7, <2>1 DEF H1Inv, H1ReportSound, ReportOfAdmitted
<1>10. CurrentCitesCurrent'
  <2>1. CASE verdict # NoFile /\ verdict.outcome = "CURRENT"
    <3>1. PICK p \in Payloads : Evidence[p] = Evidence[verdict.payload] /\ admitted[p] \in 0..verdict.day
      BY <2>1 DEF H1Inv, H1ReportSound, CurrentCitesCurrent
    <3>2. admitted'[p] \in 0..verdict.day
      <4>1. CASE admitted[p] # NoFile
        BY <1>7, <3>1, <4>1
      <4>2. CASE admitted[p] = NoFile
        BY <3>1, <4>2, TokenAssumption
      <4> QED
        BY <4>1, <4>2
    <3> QED
      BY <1>2, <2>1, <3>1, <3>2 DEF H1Inv, H1ReportSound, CurrentCitesCurrent
  <2>2. CASE ~(verdict # NoFile /\ verdict.outcome = "CURRENT")
    BY <1>2, <2>2 DEF CurrentCitesCurrent
  <2> QED
    BY <2>1, <2>2
<1>11. (\A p \in Payloads : admitted[p] # NoFile => AdmittedBy(p, clock))'
  <2> SUFFICES ASSUME NEW p \in Payloads, admitted'[p] # NoFile
               PROVE  admitted'[p] \in Nat /\ admitted'[p] <= clock
    BY <1>2 DEF AdmittedBy
  <2>1. clock \in Nat
    BY <1>4, H1Constants
  <2>2. CASE admitted'[p] = admitted[p]
    BY <2>2 DEF H1Inv, AdmittedBy
  <2>3. CASE admitted'[p] # admitted[p]
    BY <1>7, <2>1, <2>3
  <2> QED
    BY <2>2, <2>3
<1>12. (commitment \notin {NoFile, Partial} => Good(commitment))'
  <2> SUFFICES ASSUME commitment \notin {NoFile, Partial}
               PROVE  commitment \in Commitments /\ admitted'[commitment.prompt] # NoFile
                      /\ commitment.evidence = Evidence[commitment.prompt]
    BY <1>2 DEF Good
  <2>1. /\ commitment \in Commitments /\ admitted[commitment.prompt] # NoFile
        /\ commitment.evidence = Evidence[commitment.prompt]
    BY DEF H1Inv, Good
  <2>2. commitment.prompt \in Payloads
    BY <2>1 DEF Commitments
  <2> QED
    BY <1>7, <2>1, <2>2
<1>13. H1CmdOK'
  <2>1. cmd' = [cmd EXCEPT !.at = "prompt", !.payload = source]
    BY DEF AdmitPayload
  <2>2. cmd' \in H1Cmds /\ cmd'.at = "prompt" /\ cmd'.payload = source
    BY <1>1, <1>3, <2>1 DEF H1Cmds, H1Steps
  <2> QED
    BY <1>3, <1>7, <2>2 DEF H1CmdOK, Committed, Judging, Answered
<1> QED
  BY <1>8, <1>9, <1>10, <1>11, <1>12, <1>13 DEF H1Inv, H1ReportSound

\* A commitment is of the payload its command admitted.
LEMMA Commits ==
  ASSUME H1Inv, Commit
  PROVE  H1Inv'
<1>1. H1Types /\ H1CmdOK /\ cmd.at = "commit"
  BY DEF H1Inv, H1ReportSound, Commit
<1>2. /\ UNCHANGED <<env, lh2Receipt, prompt, responded, receipt, report, verdict, admitted>> /\ clock' = clock
      /\ cmd' = NoCommand
      /\ commitment' \in {[prompt |-> cmd.payload, evidence |-> Evidence[cmd.payload]], Partial}
  BY DEF Commit, env
<1>3. cmd.payload \in Payloads /\ admitted[cmd.payload] # NoFile
  BY <1>1 DEF H1CmdOK
<1>4. PICK q \in Payloads : q = cmd.payload
  BY <1>3
<1>5. PICK c : c = [prompt |-> q, evidence |-> Evidence[q]]
  OBVIOUS
<1>6. c \in Commitments /\ c.prompt = q /\ c.evidence = Evidence[q]
  BY <1>5, H1Constants DEF Commitments
<1>7. commitment' \in {c, Partial}
  BY <1>2, <1>4, <1>5
<1>8. (commitment \notin {NoFile, Partial} => Good(commitment))'
  BY <1>2, <1>3, <1>4, <1>6, <1>7 DEF Good
<1>9. H1Types'
  BY <1>1, <1>2, <1>6, <1>7 DEF H1Types, env, Commitments
<1>10. ReportOfAdmitted' /\ CurrentCitesCurrent' /\ (\A p \in Payloads : admitted[p] # NoFile => AdmittedBy(p, clock))'
  BY <1>2 DEF H1Inv, H1ReportSound, ReportOfAdmitted, CurrentCitesCurrent, AdmittedBy
<1> QED
  BY <1>2, <1>8, <1>9, <1>10, CmdEnds DEF H1Inv, H1ReportSound

LEMMA Captures ==
  ASSUME H1Inv, WriteReceipt
  PROVE  H1Inv'
<1>1. H1Types /\ H1CmdOK /\ cmd.at = "capture answer" /\ cmd' = NoCommand
  BY DEF H1Inv, H1ReportSound, WriteReceipt
<1>2. /\ UNCHANGED <<env, lh2Receipt, prompt, commitment, responded, report, verdict, admitted>>
      /\ receipt' \in {[prompt |-> cmd.commitment.prompt, answer |-> responded], Partial}
      /\ responded \in Answers \cup {Junk}
  BY <1>1 DEF WriteReceipt, H1Types
<1>3. cmd.commitment.prompt \in Payloads
  BY <1>1 DEF H1CmdOK, Committed, Good, Commitments
<1>4. PICK r : r = [prompt |-> cmd.commitment.prompt, answer |-> responded]
  OBVIOUS
<1>5. r \in [prompt : Payloads, answer : Answers \cup {Junk}] /\ receipt' \in {r, Partial}
  BY <1>2, <1>3, <1>4
<1>6. H1Types'
  BY <1>1, <1>2, <1>5 DEF H1Types, env
<1> QED
  BY <1>1, <1>2, <1>6, CmdEnds, H1Writes

\* A report cites what its answer cites, and that is of the committed payload.
LEMMA Reports ==
  ASSUME H1Inv, WriteReport
  PROVE  H1Inv'
<1>1. H1Types /\ H1CmdOK /\ cmd.at = "report answer" /\ cmd' = NoCommand
  BY DEF H1Inv, H1ReportSound, WriteReport
<1>2. UNCHANGED <<env, lh2Receipt, prompt, commitment, responded, receipt, verdict, admitted>> /\ clock' = clock
  BY DEF WriteReport, env
<1>3. responded \in Answers /\ Cites[responded] \subseteq cmd.commitment.evidence
  BY DEF WriteReport, Parses
<1>4. PICK q \in Payloads : /\ q = cmd.commitment.prompt /\ admitted[q] # NoFile
                           /\ cmd.commitment.evidence = Evidence[q]
  BY <1>1 DEF H1CmdOK, Committed, Good, Commitments
<1>5. PICK r : r = [prompt |-> q, answer |-> responded, cites |-> Cites[responded]]
  OBVIOUS
<1>6. /\ r \in [prompt : Payloads, answer : Answers, cites : SUBSET Entries]
      /\ r.prompt = q /\ r.cites = Cites[responded]
  BY <1>3, <1>5, H1Constants
<1>7. report' \in {r, Partial}
  BY <1>4, <1>5 DEF WriteReport
<1>8. H1Types'
  BY <1>1, <1>2, <1>6, <1>7 DEF H1Types, env
<1>9. ReportOfAdmitted'
  BY <1>2, <1>3, <1>4, <1>6, <1>7 DEF ReportOfAdmitted
<1>10. CurrentCitesCurrent' /\ (\A p \in Payloads : admitted[p] # NoFile => AdmittedBy(p, clock))'
       /\ (commitment \notin {NoFile, Partial} => Good(commitment))'
  BY <1>2 DEF H1Inv, H1ReportSound, CurrentCitesCurrent, AdmittedBy, Good
<1> QED
  BY <1>1, <1>8, <1>9, <1>10, CmdEnds DEF H1Inv, H1ReportSound

LEMMA Resets ==
  ASSUME H1Inv, PrepareNextRun
  PROVE  H1Inv'
<1>1. /\ UNCHANGED <<env, lh2Receipt, cmd, admitted>> /\ clock' = clock /\ commitment' = NoFile
      /\ prompt' = NoFile /\ responded' = NoFile /\ receipt' = NoFile /\ report' = NoFile /\ verdict' = NoFile
  BY DEF PrepareNextRun, env
<1>2. H1Types'
  BY <1>1 DEF H1Inv, H1ReportSound, H1Types, env
<1>3. clock \in Nat
  BY H1Constants DEF H1Inv, H1ReportSound, H1Types
<1>4. H1CmdOK'
  BY <1>1, <1>3, CmdStays
<1>5. ReportOfAdmitted' /\ CurrentCitesCurrent' /\ (commitment \notin {NoFile, Partial} => Good(commitment))'
  BY <1>1 DEF ReportOfAdmitted, CurrentCitesCurrent
<1>6. (\A p \in Payloads : admitted[p] # NoFile => AdmittedBy(p, clock))'
  BY <1>1 DEF H1Inv, AdmittedBy
<1> QED
  BY <1>2, <1>4, <1>5, <1>6 DEF H1Inv, H1ReportSound

-----------------------------------------------------------------------------
LEMMA H1InitInv == H1Init => H1Inv
<1> SUFFICES ASSUME H1Init PROVE H1Inv
  OBVIOUS
<1>1. H1Types
  BY H1Constants DEF H1Init, H1Types
<1>2. H1CmdOK
  <2>1. NoCommand \in H1Cmds
    BY H1Constants DEF NoCommand, H1Cmds, H1Steps
  <2>2. cmd = NoCommand /\ NoCommand.at = "idle"
    BY DEF H1Init, NoCommand
  <2> HIDE DEF NoCommand
  <2> QED
    BY <2>1, <2>2 DEF H1CmdOK, Committed, Judging, Answered
<1> QED
  BY <1>1, <1>2 DEF H1Init, H1Inv, H1ReportSound, ReportOfAdmitted, CurrentCitesCurrent

LEMMA H1Step ==
  ASSUME H1Inv, [H1Next]_h1step2
  PROVE  H1Inv'
<1>1. CASE UNCHANGED h1step2
  <2>1. UNCHANGED <<env, files, verdict, cmd, admitted>> /\ clock' = clock
    BY <1>1 DEF h1step2, env
  <2>2. clock \in Nat
    BY H1Constants DEF H1Inv, H1ReportSound, H1Types
  <2>3. H1CmdOK'
    BY <2>1, <2>2, CmdStays
  <2> QED
    BY <2>1, <2>3, H1Reads
<1>2. CASE Operator
  BY <1>2, Operates, Resets DEF Operator
<1>3. CASE Commands
  BY <1>3, Operates, BeginsReading, WritesLh2Receipt, Admits, RendersOn, Commits, Captures, Reports, Judges
  DEF Commands
<1> QED
  BY <1>1, <1>2, <1>3 DEF H1Next

\* Whatever the operator edits and wherever a command is killed, an H1 report is
\* of a prompt over a payload a render admitted and cites that payload's entries
\* only, and a context judged current cites entries of the payload captured then,
\* each within the period (step2_decision_builder, step2_h1_report,
\* step2_h1_currentness).
THEOREM H1ReportSafe == H1Spec => []H1ReportSound
<1>1. H1Init => H1Inv
  BY H1InitInv
<1>2. H1Inv /\ [H1Next]_h1step2 => H1Inv'
  BY H1Step
<1>3. H1Inv => H1ReportSound
  BY DEF H1Inv
<1> QED
  BY <1>1, <1>2, <1>3, PTL DEF H1Spec

-----------------------------------------------------------------------------
(* The promotion chain.                                                     *)

USE ChainAssumption

LEMMA Targets ==
  /\ FileOf("packet") = "packet" /\ FileOf("memo") = "memo" /\ FileOf("repacket") = "packet"
  /\ FileOf("base") = "base" /\ FileOf("signals") = "signals" /\ FileOf("preview") = "preview"
  /\ FileOf("cand") = "cand" /\ FileOf("meta") = "meta" /\ FileOf("elig") = "elig"
  /\ FileOf("eview") = "eview" /\ FileOf("pview") = "pview"
  /\ FileOf("effective") = "effective" /\ FileOf("pointer") = "pointer"
  /\ FileOf("unlink") = "pointer" /\ FileOf("unlink effective") = "effective"
  /\ FileOf("verdict") = "verdict" /\ FileOf("refresh") = "verdict"
  /\ FileOf("prompt") = "prompt" /\ FileOf("marker") = "marker"
  /\ FileOf("decision") = "decision" /\ FileOf("remark") = "marker"
BY DEF FileOf

LEMMA TargetsAreFiles ==
  ASSUME NEW step \in Steps
  PROVE  FileOf(step) \in Files
BY Targets DEF Steps, Files, FileOf

LEMMA Typing ==
  /\ Contents("packet") = Packets /\ Contents("memo") = SUBSET Anchors
  /\ Contents("base") = SUBSET Anchors /\ Contents("signals") = Signals
  /\ Contents("preview") = Previews /\ Contents("cand") = Cands /\ Contents("meta") = Metas
  /\ Contents("elig") = Approvals \cup {Blocked} /\ Contents("eview") = Cands
  /\ Contents("pview") = Approvals \cup {Blocked} /\ Contents("effective") = Cands
  /\ Contents("pointer") = Approvals /\ Contents("verdict") = Verdicts
  /\ Contents("prompt") = Approvals /\ Contents("marker") = Approvals
  /\ Contents("decision") = {"packet"} /\ Contents("audit") = Approvals
BY DEF Contents

\* What the file of each step may hold.
LEMMA TargetTyping ==
  /\ Contents(FileOf("packet")) = Packets /\ Contents(FileOf("repacket")) = Packets
  /\ Contents(FileOf("memo")) = SUBSET Anchors /\ Contents(FileOf("base")) = SUBSET Anchors
  /\ Contents(FileOf("signals")) = Signals /\ Contents(FileOf("preview")) = Previews
  /\ Contents(FileOf("cand")) = Cands /\ Contents(FileOf("meta")) = Metas
  /\ Contents(FileOf("elig")) = Approvals \cup {Blocked}
  /\ Contents(FileOf("pview")) = Approvals \cup {Blocked}
  /\ Contents(FileOf("eview")) = Cands /\ Contents(FileOf("effective")) = Cands
  /\ Contents(FileOf("unlink effective")) = Cands
  /\ Contents(FileOf("pointer")) = Approvals /\ Contents(FileOf("unlink")) = Approvals
  /\ Contents(FileOf("verdict")) = Verdicts /\ Contents(FileOf("refresh")) = Verdicts
  /\ Contents(FileOf("prompt")) = Approvals /\ Contents(FileOf("marker")) = Approvals
  /\ Contents(FileOf("remark")) = Approvals /\ Contents(FileOf("decision")) = {"packet"}
BY Targets, Typing

\* What a write, a torn one included, does to the disk.
Assigns(f, values) ==
  \E v \in values \cup {None, disk[f]} : disk' = [disk EXCEPT ![f] = v]

DiskOK == disk = [f \in Files |-> disk[f]] /\ \A f \in Files : disk[f] \in Contents(f) \cup {None}

LEMMA DiskKept ==
  ASSUME TypeOK, NEW f \in Files, NEW values, values \subseteq Contents(f) \cup {None},
         Assigns(f, values)
  PROVE  DiskOK'
<1>1. PICK v \in values \cup {None, disk[f]} : disk' = [disk EXCEPT ![f] = v]
  BY DEF Assigns
<1>2. v \in Contents(f) \cup {None}
  BY DEF TypeOK
<1> QED
  BY <1>1, <1>2 DEF TypeOK, DiskOK

LEMMA TornAssigns ==
  ASSUME TypeOK, NEW f \in Files, NEW values, disk' \in Torn(f) \/ disk' \in Put(f, values)
  PROVE  Assigns(f, values)
<1>1. disk = [disk EXCEPT ![f] = disk[f]]
  BY DEF TypeOK
<1> QED
  BY <1>1 DEF Assigns, Torn, Put

\* What holds of the files while a step is under way.
StepsOK ==
  /\ pc = "meta" => disk["preview"] # None
  /\ pc = "pointer" =>
       /\ disk["pview"] \notin {None, Blocked} /\ disk["effective"] = disk["pview"].cand
       /\ today <= disk["pview"].until
  /\ pc \in {"prompt", "marker", "decision", "remark"} => Live

LEMMA MemoTyped ==
  ASSUME TypeOK
  PROVE  Memo \in SUBSET Anchors
BY Typing DEF Memo, TypeOK, Files

LEMMA RowsTyped ==
  ASSUME TypeOK
  PROVE  /\ RowsOf(disk["preview"]) \in SUBSET Anchors
         /\ RowsOf(disk["signals"]) \in SUBSET Anchors
<1>1. /\ disk["preview"] \in Previews \cup {None}
      /\ disk["signals"] \in Signals \cup {None}
  BY Typing DEF TypeOK, Files
<1> QED
  BY <1>1 DEF RowsOf, Previews, Signals

LEMMA RunsTyped ==
  ASSUME TypeOK
  PROVE  /\ Run(disk["packet"]) \in Nat \cup {None}
         /\ Run(disk["signals"]) \in Nat \cup {None}
         /\ disk["signals"] # None => disk["signals"].run \in Nat
<1>1. /\ disk["packet"] \in Packets \cup {None}
      /\ disk["signals"] \in Signals \cup {None}
  BY Typing DEF TypeOK, Files
<1> QED
  BY <1>1 DEF Run, Packets, Signals

LEMMA ApprovedTyped ==
  ASSUME TypeOK, Eligible, disk["cand"] # None
  PROVE  Approved \subseteq Approvals
<1>1. /\ disk["packet"] \in Packets /\ disk["signals"] \in Signals
      /\ disk["cand"] \in Cands
  BY Typing DEF TypeOK, Files, Eligible, ChainMatches
<1> QED
  BY <1>1 DEF Approved, Approvals, Earliest

LEMMA WriteTyped ==
  ASSUME TypeOK, NEW f \in Steps, NEW ready \in BOOLEAN, NEW values,
         ready => values \subseteq Contents(FileOf(f)) \cup {None},
         NEW next \in Steps \cup {"idle"}, NEW resume \in Steps \cup {"idle"},
         Write(f, ready, values, next, resume)
  PROVE  TypeOK'
<1>1. FileOf(f) \in Files
  BY TargetsAreFiles
<1>2. \/ ready /\ disk' \in Put(FileOf(f), values)
      \/ disk' \in Torn(FileOf(f))
  BY DEF Write, Torn
<1>3. DiskOK'
  <2>1. CASE ready /\ disk' \in Put(FileOf(f), values)
    BY <2>1, <1>1, TornAssigns, DiskKept
  <2>2. CASE disk' \in Torn(FileOf(f))
    <3>1. Assigns(FileOf(f), {})
      BY <2>2, <1>1, TornAssigns
    <3> QED
      BY <3>1, <1>1, DiskKept
  <2> QED
    BY <1>2, <2>1, <2>2
<1>4. clean' \in BOOLEAN /\ decided' \in BOOLEAN
  BY DEF TypeOK, Write
<1>5. pc' \in Steps \cup {"idle"} /\ faults' \in Nat
  BY DEF TypeOK, Write
<1> QED
  BY <1>3, <1>4, <1>5 DEF TypeOK, DiskOK, Write, inputs

LEMMA RecordTyped ==
  ASSUME TypeOK, NEW f \in Steps, NEW value \in Contents(FileOf(f)) \cup {None},
         NEW next \in Steps \cup {"idle"}, Record(f, value, next)
  PROVE  TypeOK'
<1>1. FileOf(f) \in Files
  BY TargetsAreFiles
<1>2. Assigns(FileOf(f), {value})
  BY <1>1, TornAssigns DEF Record
<1>3. DiskOK'
  BY <1>1, <1>2, DiskKept
<1> QED
  BY <1>3 DEF TypeOK, DiskOK, Record, inputs

LEMMA StepNames ==
  /\ "packet" \in Steps /\ "memo" \in Steps /\ "repacket" \in Steps /\ "base" \in Steps
  /\ "signals" \in Steps /\ "preview" \in Steps /\ "cand" \in Steps /\ "meta" \in Steps
  /\ "elig" \in Steps /\ "eview" \in Steps /\ "pview" \in Steps /\ "effective" \in Steps
  /\ "pointer" \in Steps /\ "unlink" \in Steps /\ "unlink effective" \in Steps
  /\ "verdict" \in Steps /\ "refresh" \in Steps /\ "prompt" \in Steps
  /\ "marker" \in Steps /\ "decision" \in Steps /\ "remark" \in Steps
BY DEF Steps, Files

LEMMA StepTypeOK ==
  ASSUME TypeOK, StepsOK, [Next]_vars
  PROVE  TypeOK'
<1>1. CASE BeginParse
  <2>1. clean' \in BOOLEAN /\ decided' \in BOOLEAN
    BY <1>1 DEF BeginParse
  <2> QED
    BY <1>1, <2>1 DEF TypeOK, BeginParse, Steps, Files
<1>2. CASE WritePacket
  <2>1. Packet \in Packets
    BY DEF TypeOK, Packet, Packets
  <2>2. {Packet} \subseteq Contents(FileOf("packet")) \cup {None}
    BY <2>1, TargetTyping
  <2> QED
    BY <1>2, <2>2, WriteTyped, StepNames DEF WritePacket
<1>3. CASE WriteMemo
  <2>1. pasted \in (SUBSET Anchors) \cup {None}
    BY DEF TypeOK
  <2>2. {pasted} \subseteq Contents(FileOf("memo")) \cup {None}
    BY <2>1, TargetTyping
  <2>3. \/ Write("memo", TRUE, {pasted}, "repacket", "repacket")
      \/ Write("memo", FALSE, {pasted}, "repacket", "repacket")
    BY <1>3 DEF WriteMemo, Write
  <2> QED
    BY <2>2, <2>3, WriteTyped, StepNames
<1>4. CASE RewritePacket
  <2>1. Packet \in Packets
    BY DEF TypeOK, Packet, Packets
  <2>2. {Packet} \subseteq Contents(FileOf("repacket")) \cup {None}
    BY <2>1, TargetTyping
  <2> QED
    BY <1>4, <2>2, WriteTyped, StepNames DEF RewritePacket
<1>5. CASE WriteBase
  <2>1. Memo \in SUBSET Anchors
    BY MemoTyped
  <2>2. Contents(FileOf("base")) = SUBSET Anchors
    BY TargetTyping
  <2>3. {Memo} \subseteq Contents(FileOf("base")) \cup {None}
    BY <2>1, <2>2, TargetTyping
  <2> QED
    BY <1>5, <2>3, WriteTyped, StepNames DEF WriteBase
<1>6. CASE WriteSignals
  <2>1. Grounded \in SUBSET Anchors
    BY MemoTyped DEF Grounded
  <2>2. [rows |-> Grounded, run |-> run] \in Signals
    BY <2>1 DEF Signals, TypeOK
  <2>3. {[rows |-> Grounded, run |-> run]} \subseteq Contents(FileOf("signals")) \cup {None}
    BY <2>1, <2>2, TargetTyping
  <2> QED
    BY <1>6, <2>3, WriteTyped, StepNames DEF WriteSignals
<1>7. CASE WritePreview
  <2> DEFINE values == {[rows |-> rows, packet |-> Run(disk["packet"]),
                        signals |-> Run(disk["signals"])] : rows \in SUBSET PreviewRows}
  <2>1. PreviewRows \in SUBSET Anchors
    BY RowsTyped DEF PreviewRows
  <2>2. Run(disk["packet"]) \in Nat \cup {None}
    BY RunsTyped
  <2>3. disk["signals"] # None => Run(disk["signals"]) \in Nat
    BY RunsTyped DEF Run
  <2>4. disk["signals"] # None => values \subseteq Previews
    BY <2>1, <2>2, <2>3 DEF Previews
  <2>5. disk["signals"] # None => values \subseteq Contents(FileOf("preview")) \cup {None}
    BY <2>1, <2>2, <2>3, <2>4, TargetTyping
  <2>6. \/ disk["signals"] # None /\ Write("preview", TRUE, values, "cand", "cand")
      \/ Write("preview", FALSE, values, "cand", "cand")
    BY <1>7 DEF WritePreview, Write
  <2> HIDE DEF values
  <2> QED
    BY <2>5, <2>6, WriteTyped, StepNames
<1>8. CASE WriteCand
  <2> DEFINE values == {[rows |-> RowsOf(disk["preview"]), base |-> BaseOfCand]}
  <2>1. RowsOf(disk["preview"]) \in SUBSET Anchors
    BY RowsTyped
  <2>2. BaseOfCand \in SUBSET Anchors
    BY MemoTyped, Typing DEF BaseOfCand, TypeOK, Files
  <2>3. [rows |-> RowsOf(disk["preview"]), base |-> BaseOfCand] \in Cands
    BY <2>1, <2>2 DEF Cands
  <2>4. values \subseteq Contents(FileOf("cand")) \cup {None}
    BY <2>1, <2>2, <2>3, TargetTyping
  <2>5. \/ Write("cand", TRUE, values, "meta", "elig")
      \/ Write("cand", FALSE, values, "meta", "elig")
    BY <1>8 DEF WriteCand, Write
  <2> HIDE DEF values
  <2> QED
    BY <2>4, <2>5, WriteTyped, StepNames
<1>9. CASE WriteMeta
  <2> DEFINE values == {[packet |-> Run(disk["packet"]), signals |-> Run(disk["signals"]),
                        preview |-> disk["preview"], base |-> disk["base"]]}
  <2>1. Run(disk["packet"]) \in Nat \cup {None} /\ Run(disk["signals"]) \in Nat \cup {None}
    BY RunsTyped
  <2>2. disk["preview"] \in Previews
    BY <1>9, Typing DEF WriteMeta, Write, StepsOK, TypeOK, Files
  <2>3. disk["base"] \in (SUBSET Anchors) \cup {None}
    BY Typing DEF TypeOK, Files
  <2>4. values \subseteq Metas
    BY <2>1, <2>2, <2>3 DEF Metas
  <2>5. values \subseteq Contents(FileOf("meta")) \cup {None}
    BY <2>1, <2>2, <2>3, <2>4, TargetTyping
  <2>6. Write("meta", TRUE, values, "elig", "elig")
    BY <1>9 DEF WriteMeta
  <2> HIDE DEF values
  <2> QED
    BY <2>5, <2>6, WriteTyped, StepNames
<1>10. CASE WriteElig
  <2> DEFINE values == (IF Eligible THEN Approved ELSE {}) \cup {Blocked}
  <2>1. disk["cand"] # None => values \subseteq Approvals \cup {Blocked}
    BY ApprovedTyped
  <2>2. disk["cand"] # None => values \subseteq Contents(FileOf("elig")) \cup {None}
    BY <2>1, TargetTyping
  <2>3. \/ disk["cand"] # None /\ Write("elig", TRUE, values, "eview", "eview")
      \/ Write("elig", FALSE, values, "eview", "eview")
    BY <1>10 DEF WriteElig, Write
  <2> HIDE DEF values
  <2> QED
    BY <2>2, <2>3, WriteTyped, StepNames
<1>11. CASE WriteEffectivePreview
  <2> DEFINE values == {IF Promotable THEN disk["cand"] ELSE disk["eview"]}
  <2>1. disk["cand"] \in Cands \cup {None} /\ disk["eview"] \in Cands \cup {None}
    BY Typing DEF TypeOK, Files
  <2>2. values \subseteq Contents(FileOf("eview")) \cup {None}
    BY <2>1, TargetTyping
  <2>3. \/ Write("eview", TRUE, values, "pview", "effective")
      \/ Write("eview", FALSE, values, "pview", "effective")
    BY <1>11 DEF WriteEffectivePreview, Write
  <2> HIDE DEF values
  <2> QED
    BY <2>2, <2>3, WriteTyped, StepNames
<1>12. CASE WritePointerPreview
  <2> DEFINE values == {IF Promotable THEN disk["elig"] ELSE Blocked}
  <2>1. disk["elig"] \in Approvals \cup {Blocked, None}
    BY Typing DEF TypeOK, Files
  <2>2. values \subseteq Contents(FileOf("pview")) \cup {None}
    BY <2>1, TargetTyping
  <2>3. Write("pview", TRUE, values, "effective", "effective")
    BY <1>12 DEF WritePointerPreview
  <2> HIDE DEF values
  <2> QED
    BY <2>2, <2>3, WriteTyped, StepNames
<1>13. CASE WriteEffective
  <2>1. disk["eview"] \in Cands \cup {None}
    BY Typing DEF TypeOK, Files
  <2>2. {disk["eview"]} \subseteq Contents(FileOf("effective")) \cup {None}
    BY <2>1, TargetTyping
  <2> QED
    BY <1>13, <2>2, WriteTyped, StepNames DEF WriteEffective
<1>14. CASE RefusePointer
  BY <1>14 DEF TypeOK, RefusePointer, inputs, Steps, Files
<1>15. CASE SkipPointer
  BY <1>15 DEF TypeOK, SkipPointer, inputs, Steps, Files
<1>16. CASE WritePointer
  <2>1. disk["pview"] \in Approvals
    BY <1>16, Typing DEF WritePointer, Write, StepsOK, TypeOK, Files
  <2>2. {disk["pview"]} \subseteq Contents(FileOf("pointer")) \cup {None}
    BY <2>1, TargetTyping
  <2> QED
    BY <1>16, <2>2, WriteTyped, StepNames DEF WritePointer
<1>17. CASE UnlinkPointer
  <2>1. {None} \subseteq Contents(FileOf("unlink")) \cup {None}
    BY TargetTyping
  <2> QED
    BY <1>17, <2>1, WriteTyped, StepNames DEF UnlinkPointer
<1>18. CASE UnlinkEffective
  <2>1. {None} \subseteq Contents(FileOf("unlink effective")) \cup {None}
    BY TargetTyping
  <2> QED
    BY <1>18, <2>1, WriteTyped, StepNames DEF UnlinkEffective
<1>19. CASE WriteVerdict
  <2>1. Reachable \subseteq Verdicts
    BY DEF Reachable
  <2>2. Reachable \subseteq Contents(FileOf("verdict")) \cup {None}
    BY <2>1, TargetTyping
  <2> QED
    BY <1>19, <2>2, WriteTyped, StepNames DEF WriteVerdict
<1>20. CASE AdmitStep2
  BY <1>20 DEF TypeOK, AdmitStep2, inputs, Steps, Files
<1>21. CASE WritePrompt
  <2>1. disk["pointer"] \in Contents(FileOf("prompt")) \cup {None}
    BY Targets, Typing DEF TypeOK, Files
  <2> QED
    BY <1>21, <2>1, RecordTyped, StepNames DEF WritePrompt
<1>22. CASE WriteMarker
  <2>1. disk["pointer"] \in Contents(FileOf("marker")) \cup {None}
    BY Targets, Typing DEF TypeOK, Files
  <2> QED
    BY <1>22, <2>1, RecordTyped, StepNames DEF WriteMarker
<1>23. CASE WriteDecision
  <2>1. "packet" \in Contents(FileOf("decision")) \cup {None}
    BY Targets, Typing DEF TypeOK, Files
  <2> QED
    BY <1>23, <2>1, RecordTyped, StepNames DEF WriteDecision
<1>24. CASE RewriteMarker
  <2>1. disk["pointer"] \in Contents(FileOf("remark")) \cup {None}
    BY Targets, Typing DEF TypeOK, Files
  <2> QED
    BY <1>24, <2>1, RecordTyped, StepNames DEF RewriteMarker
<1>25. CASE RefreshVerdict
  <2>1. Reachable \subseteq Verdicts
    BY DEF Reachable
  <2>2. Reachable \subseteq Contents(FileOf("refresh")) \cup {None}
    BY <2>1, TargetTyping
  <2> QED
    BY <1>25, <2>2, WriteTyped, StepNames DEF RefreshVerdict
<1>26. CASE AuditStep3
  <2>1. disk["pointer"] \in Approvals \cup {None}
    BY Typing DEF TypeOK, Files
  <2>2. Assigns("audit", {disk["pointer"]})
    BY <1>26, TornAssigns DEF AuditStep3, Files
  <2>3. DiskOK'
    BY <2>1, <2>2, DiskKept, Typing DEF Files
  <2> QED
    BY <1>26, <2>3 DEF TypeOK, DiskOK, AuditStep3, inputs
<1>27. CASE Invalidate
  <2>1. Assigns("verdict", {None})
    BY <1>27, TornAssigns DEF Invalidate, Files
  <2>2. DiskOK'
    BY <2>1, DiskKept DEF Files
  <2> QED
    BY <1>27, <2>2 DEF TypeOK, DiskOK, Invalidate, inputs, Steps
<1>28. CASE Tick
  BY <1>28 DEF TypeOK, Tick, inputs, Steps, Files
<1>29. CASE Crash
  <2>1. FileOf(pc) \in Files
    BY <1>29, TargetsAreFiles DEF Crash, TypeOK
  <2>2. Assigns(FileOf(pc), {})
    BY <1>29, <2>1, TornAssigns DEF Crash
  <2>3. DiskOK'
    BY <2>1, <2>2, DiskKept
  <2>4. clean' \in BOOLEAN /\ decided' \in BOOLEAN
    BY <1>29 DEF TypeOK, Crash
  <2> QED
    BY <1>29, <2>3, <2>4 DEF TypeOK, DiskOK, Crash, inputs
<1>30. CASE UNCHANGED vars
  BY <1>30 DEF TypeOK, vars
<1> QED
  BY <1>1, <1>2, <1>3, <1>4, <1>5, <1>6, <1>7, <1>8, <1>9, <1>10, <1>11, <1>12, <1>13,
     <1>14, <1>15, <1>16, <1>17, <1>18, <1>19, <1>20, <1>21, <1>22, <1>23, <1>24,
     <1>25, <1>26, <1>27, <1>28, <1>29, <1>30 DEF Next, Parse

\* The steps that leave a command in a place StepsOK speaks of.
LEMMA Guarded ==
  ASSUME Next, pc' \in {"meta", "pointer", "prompt", "marker", "decision", "remark"}
  PROVE  WriteCand \/ WriteEffective \/ AdmitStep2 \/ WritePrompt \/ WriteDecision
<1>1. ~(WritePacket \/ WriteMemo \/ RewritePacket \/ WriteBase \/ WriteSignals \/ WritePreview)
  BY DEF WritePacket, WriteMemo, RewritePacket, WriteBase, WriteSignals, WritePreview, Write
<1>2. ~(WriteMeta \/ WriteElig \/ WriteEffectivePreview \/ WritePointerPreview)
  BY DEF WriteMeta, WriteElig, WriteEffectivePreview, WritePointerPreview, Write
<1>3. ~(WritePointer \/ UnlinkPointer \/ UnlinkEffective \/ WriteVerdict \/ RefreshVerdict)
  BY DEF WritePointer, UnlinkPointer, UnlinkEffective, WriteVerdict, RefreshVerdict, Write
<1>4. ~(BeginParse \/ RefusePointer \/ SkipPointer \/ WriteMarker \/ RewriteMarker)
  BY DEF BeginParse, RefusePointer, SkipPointer, WriteMarker, RewriteMarker, Record
<1>5. ~(AuditStep3 \/ Invalidate \/ Tick \/ Crash)
  BY DEF AuditStep3, Invalidate, Tick, Crash
<1> QED
  BY <1>1, <1>2, <1>3, <1>4, <1>5 DEF Next, Parse

LEMMA StepStepsOK ==
  ASSUME TypeOK, StepsOK, [Next]_vars
  PROVE  StepsOK'
<1>1. CASE WriteCand
  BY <1>1, Targets DEF WriteCand, Write, StepsOK, Put, TypeOK, Files
<1>2. CASE WriteEffective
  <2>1. CASE pc' = "unlink"
    BY <2>1 DEF StepsOK
  <2>2. CASE pc' = "pointer"
    <3>1. disk' = [disk EXCEPT !["effective"] = disk["eview"]] /\ today' = today
      BY <1>2, <2>2, Targets, ZenonT(60) DEF WriteEffective, Write, Put, inputs
    <3>2. disk'["effective"] = disk["eview"] /\ disk'["pview"] = disk["pview"]
      BY <3>1 DEF TypeOK, Files
    <3> QED
      BY <1>2, <2>2, <3>1, <3>2 DEF WriteEffective, Creatable, StepsOK
  <2> QED
    BY <1>2, <2>1, <2>2 DEF WriteEffective, Write
<1>3. CASE AdmitStep2
  BY <1>3 DEF AdmitStep2, StepsOK, Live, inputs
<1>4. CASE WritePrompt \/ WriteDecision
  BY <1>4, Targets, ZenonT(60) DEF WritePrompt, WriteDecision, Record, Put, StepsOK, Live, TypeOK, Files,
     inputs
<1>5. CASE pc' \notin {"meta", "pointer", "prompt", "marker", "decision", "remark"}
  BY <1>5 DEF StepsOK
<1>6. CASE UNCHANGED vars
  BY <1>6 DEF StepsOK, Live, vars
<1> QED
  BY <1>1, <1>2, <1>3, <1>4, <1>5, <1>6, Guarded

LEMMA InitTypeOK ==
  ASSUME Init
  PROVE  TypeOK /\ StepsOK
<1>1. \A f \in Files : disk[f] \in Contents(f) \cup {None}
  BY Typing DEF Init, Files
<1>2. TypeOK
  BY <1>1 DEF Init, TypeOK
<1>3. StepsOK
  BY DEF Init, StepsOK
<1> QED
  BY <1>2, <1>3

\* Every file is written by its writer, and holds what that writer puts there.
THEOREM TypeCorrect == Spec => []TypeOK
<1>1. Init => TypeOK /\ StepsOK
  BY InitTypeOK
<1>2. TypeOK /\ StepsOK /\ [Next]_vars => TypeOK' /\ StepsOK'
  BY StepTypeOK, StepStepsOK
<1> QED
  BY <1>1, <1>2, PTL DEF Spec

-----------------------------------------------------------------------------
\* The files a verdict of eligibility is copied to, and the verdict itself.
Approving == {"elig", "pview", "pointer", "prompt", "marker", "audit"}

\* No step but WriteElig makes up an approval: every other copies one, or loses it.  A
\* packet is kept, lost, or that of the running parse.
Copied ==
  /\ \A f \in Approving : disk'[f] \in {None, Blocked} \cup {disk[g] : g \in Approving}
  /\ disk'["packet"] \in {disk["packet"], None, Packet}

PacketDay == disk["packet"] # None => disk["packet"].day <= today

LEMMA StepCopies ==
  ASSUME TypeOK, [Next]_vars
  PROVE  Copied \/ WriteElig
<1>1. CASE BeginParse
  BY <1>1 DEF BeginParse, Copied, Approving, inputs
<1>2. CASE WritePacket
  <2>1. /\ \A g \in Files : g # "packet" => disk'[g] = disk[g]
        /\ disk'["packet"] \in {disk["packet"], None, Packet}
    BY <1>2, Targets, ZenonT(60) DEF WritePacket, Write, Put, Torn, TypeOK, Files
  <2> QED
    BY <2>1 DEF Copied, Approving, Files
<1>3. CASE WriteMemo
  <2>1. \A g \in Files : g # "memo" => disk'[g] = disk[g]
    BY <1>3, Targets DEF WriteMemo, Write, Put, Torn, TypeOK, Files
  <2> QED
    BY <2>1 DEF Copied, Approving, Files
<1>4. CASE RewritePacket
  <2>1. /\ \A g \in Files : g # "packet" => disk'[g] = disk[g]
        /\ disk'["packet"] \in {disk["packet"], None, Packet}
    BY <1>4, Targets, ZenonT(60) DEF RewritePacket, Write, Put, Torn, TypeOK, Files
  <2> QED
    BY <2>1 DEF Copied, Approving, Files
<1>5. CASE WriteBase
  <2>1. \A g \in Files : g # "base" => disk'[g] = disk[g]
    BY <1>5, Targets DEF WriteBase, Write, Put, Torn, TypeOK, Files
  <2> QED
    BY <2>1 DEF Copied, Approving, Files
<1>6. CASE WriteSignals
  <2>1. \A g \in Files : g # "signals" => disk'[g] = disk[g]
    BY <1>6, Targets DEF WriteSignals, Write, Put, Torn, TypeOK, Files
  <2> QED
    BY <2>1 DEF Copied, Approving, Files
<1>7. CASE WritePreview
  <2>1. \A g \in Files : g # "preview" => disk'[g] = disk[g]
    BY <1>7, Targets DEF WritePreview, Write, Put, Torn, TypeOK, Files
  <2> QED
    BY <2>1 DEF Copied, Approving, Files
<1>8. CASE WriteCand
  <2>1. \A g \in Files : g # "cand" => disk'[g] = disk[g]
    BY <1>8, Targets DEF WriteCand, Write, Put, Torn, TypeOK, Files
  <2> QED
    BY <2>1 DEF Copied, Approving, Files
<1>9. CASE WriteMeta
  <2>1. \A g \in Files : g # "meta" => disk'[g] = disk[g]
    BY <1>9, Targets DEF WriteMeta, Write, Put, Torn, TypeOK, Files
  <2> QED
    BY <2>1 DEF Copied, Approving, Files
<1>10. CASE WriteElig
  BY <1>10
<1>11. CASE WriteEffectivePreview
  <2>1. \A g \in Files : g # "eview" => disk'[g] = disk[g]
    BY <1>11, Targets DEF WriteEffectivePreview, Write, Put, Torn, TypeOK, Files
  <2> QED
    BY <2>1 DEF Copied, Approving, Files
<1>12. CASE WritePointerPreview
  <2>1. /\ \A g \in Files : g # "pview" => disk'[g] = disk[g]
        /\ disk'["pview"] \in {disk["pview"], None, disk["elig"], Blocked}
    BY <1>12, Targets, ZenonT(60) DEF WritePointerPreview, Write, Put, Torn, TypeOK, Files
  <2> QED
    BY <2>1 DEF Copied, Approving, Files
<1>13. CASE WriteEffective
  <2>1. \A g \in Files : g # "effective" => disk'[g] = disk[g]
    BY <1>13, Targets DEF WriteEffective, Write, Put, Torn, TypeOK, Files
  <2> QED
    BY <2>1 DEF Copied, Approving, Files
<1>14. CASE RefusePointer
  BY <1>14 DEF RefusePointer, Copied, Approving, inputs
<1>15. CASE SkipPointer
  BY <1>15 DEF SkipPointer, Copied, Approving, inputs
<1>16. CASE WritePointer
  <2>1. /\ \A g \in Files : g # "pointer" => disk'[g] = disk[g]
        /\ disk'["pointer"] \in {disk["pointer"], None} \cup {disk["pview"]}
    BY <1>16, Targets DEF WritePointer, Write, Put, Torn, TypeOK, Files
  <2> QED
    BY <2>1 DEF Copied, Approving, Files
<1>17. CASE UnlinkPointer
  <2>1. /\ \A g \in Files : g # "pointer" => disk'[g] = disk[g]
        /\ disk'["pointer"] \in {disk["pointer"], None} \cup {None}
    BY <1>17, Targets DEF UnlinkPointer, Write, Put, Torn, TypeOK, Files
  <2> QED
    BY <2>1 DEF Copied, Approving, Files
<1>18. CASE UnlinkEffective
  <2>1. \A g \in Files : g # "effective" => disk'[g] = disk[g]
    BY <1>18, Targets DEF UnlinkEffective, Write, Put, Torn, TypeOK, Files
  <2> QED
    BY <2>1 DEF Copied, Approving, Files
<1>19. CASE WriteVerdict
  <2>1. \A g \in Files : g # "verdict" => disk'[g] = disk[g]
    BY <1>19, Targets DEF WriteVerdict, Write, Put, Torn, TypeOK, Files
  <2> QED
    BY <2>1 DEF Copied, Approving, Files
<1>20. CASE AdmitStep2
  BY <1>20 DEF AdmitStep2, Copied, Approving, inputs
<1>21. CASE WritePrompt
  <2>1. /\ \A g \in Files : g # "prompt" => disk'[g] = disk[g]
        /\ disk'["prompt"] = disk["pointer"]
    BY <1>21, Targets DEF WritePrompt, Record, Put, TypeOK, Files
  <2> QED
    BY <2>1 DEF Copied, Approving, Files
<1>22. CASE WriteMarker
  <2>1. /\ \A g \in Files : g # "marker" => disk'[g] = disk[g]
        /\ disk'["marker"] = disk["pointer"]
    BY <1>22, Targets DEF WriteMarker, Record, Put, TypeOK, Files
  <2> QED
    BY <2>1 DEF Copied, Approving, Files
<1>23. CASE WriteDecision
  <2>1. /\ \A g \in Files : g # "decision" => disk'[g] = disk[g]
        /\ disk'["decision"] = "packet"
    BY <1>23, Targets DEF WriteDecision, Record, Put, TypeOK, Files
  <2> QED
    BY <2>1 DEF Copied, Approving, Files
<1>24. CASE RewriteMarker
  <2>1. /\ \A g \in Files : g # "marker" => disk'[g] = disk[g]
        /\ disk'["marker"] = disk["pointer"]
    BY <1>24, Targets DEF RewriteMarker, Record, Put, TypeOK, Files
  <2> QED
    BY <2>1 DEF Copied, Approving, Files
<1>25. CASE RefreshVerdict
  <2>1. \A g \in Files : g # "verdict" => disk'[g] = disk[g]
    BY <1>25, Targets DEF RefreshVerdict, Write, Put, Torn, TypeOK, Files
  <2> QED
    BY <2>1 DEF Copied, Approving, Files
<1>26. CASE AuditStep3
  BY <1>26 DEF AuditStep3, Put, TypeOK, Copied, Approving, Files
<1>27. CASE Invalidate
  BY <1>27 DEF Invalidate, Put, TypeOK, Copied, Approving, Files
<1>28. CASE Tick
  BY <1>28 DEF Tick, Copied, Approving, inputs
<1>29. CASE Crash
  <2>1. \A f \in Files : disk'[f] \in {disk[f], None}
    BY <1>29 DEF Crash, Torn, TypeOK
  <2> QED
    BY <2>1 DEF Copied, Approving, Files
<1>30. CASE UNCHANGED vars
  BY <1>30 DEF vars, Copied, Approving
<1> QED
  BY <1>1, <1>2, <1>3, <1>4, <1>5, <1>6, <1>7, <1>8, <1>9, <1>10, <1>11, <1>12, <1>13,
     <1>14, <1>15, <1>16, <1>17, <1>18, <1>19, <1>20, <1>21, <1>22, <1>23, <1>24,
     <1>25, <1>26, <1>27, <1>28, <1>29, <1>30 DEF Next, Parse

LEMMA DayPasses ==
  ASSUME TypeOK, [Next]_vars
  PROVE  today \in Days /\ today' \in Days /\ today <= today'
<1>1. Tick \/ today' = today
  <2>1. WritePacket \/ WriteMemo \/ RewritePacket \/ WriteBase \/ WriteSignals \/ WritePreview
          => today' = today
    BY DEF WritePacket, WriteMemo, RewritePacket, WriteBase, WriteSignals, WritePreview, Write,
       inputs
  <2>2. WriteCand \/ WriteMeta \/ WriteElig \/ WriteEffectivePreview \/ WritePointerPreview
          => today' = today
    BY DEF WriteCand, WriteMeta, WriteElig, WriteEffectivePreview, WritePointerPreview, Write,
       inputs
  <2>3. WriteEffective \/ WritePointer \/ UnlinkPointer \/ UnlinkEffective \/ WriteVerdict
          \/ RefreshVerdict
          => today' = today
    BY DEF WriteEffective, WritePointer, UnlinkPointer, UnlinkEffective, WriteVerdict,
       RefreshVerdict, Write, inputs
  <2>4. BeginParse \/ RefusePointer \/ SkipPointer \/ AdmitStep2 \/ AuditStep3 \/ Invalidate
          \/ Crash
          => today' = today
    BY DEF BeginParse, RefusePointer, SkipPointer, AdmitStep2, AuditStep3, Invalidate, Crash,
       inputs
  <2>5. WritePrompt \/ WriteMarker \/ WriteDecision \/ RewriteMarker => today' = today
    BY DEF WritePrompt, WriteMarker, WriteDecision, RewriteMarker, Record, inputs
  <2>6. UNCHANGED vars => today' = today
    BY DEF vars
  <2> QED
    BY <2>1, <2>2, <2>3, <2>4, <2>5, <2>6 DEF Next, Parse
<1> QED
  BY <1>1 DEF TypeOK, Tick, Days

LEMMA StepPacketDay ==
  ASSUME TypeOK, PacketDay, [Next]_vars
  PROVE  PacketDay'
<1>1. disk'["packet"] \in {disk["packet"], None, Packet}
  <2>1. CASE WriteElig
    BY <2>1, Targets DEF WriteElig, Write, Put, Torn, TypeOK, Files
  <2> QED
    BY <2>1, StepCopies DEF Copied
<1>2. disk["packet"] \in Packets \cup {None} /\ Packet \in Packets /\ Packet.day = today
  BY Typing DEF TypeOK, Files, Packet, Packets
<1>3. disk["packet"] # None => disk["packet"].day \in Days
  BY <1>2 DEF Packets
<1> QED
  BY <1>1, <1>2, <1>3, DayPasses DEF PacketDay, Days

LEMMA ApprovalsTyped ==
  ASSUME TypeOK, NEW f \in Approving, disk[f] \notin {None, Blocked}
  PROVE  disk[f] \in Approvals
BY Typing DEF TypeOK, Files, Approving

\* Only the end of a promotion and the packet's day relate an approval to the calendar.
LEMMA BackedStays ==
  ASSUME NEW p \in Approvals, Backed(p), today \in Days, today' \in Days, today <= today'
  PROVE  Backed(p)'
<1>1. p.packet.day \in Days
  BY DEF Approvals, Packets
<1>2. p.packet.day <= today'
  BY <1>1 DEF Days, Backed
<1> QED
  BY <1>2 DEF Backed, Covers

\* An approval the eligibility layer writes is backed by the packet it was checked with.
LEMMA ApprovedBacked ==
  ASSUME TypeOK, PacketDay, Eligible, disk["cand"] # None, NEW p \in Approved
  PROVE  p \in Approvals /\ Backed(p)
<1>1. p \in Approvals
  BY ApprovedTyped
<1>2. PICK u \in Earliest : p = [cand |-> disk["cand"], until |-> u, packet |-> disk["packet"],
                                  signals |-> disk["signals"]]
  BY DEF Approved
<1>3. \A a \in disk["cand"].rows : u <= disk["packet"].anchors[a].until
  BY <1>2 DEF Earliest
<1>4. p.cand = disk["cand"] /\ p.until = u /\ p.packet = disk["packet"]
  BY <1>2
<1>5. p.packet.day <= today
  BY <1>4 DEF PacketDay, Eligible, ChainMatches
<1> QED
  BY <1>1, <1>3, <1>4, <1>5 DEF Eligible, AnchorsFresh, Backed

LEMMA StepBacked ==
  ASSUME TypeOK, PacketDay, PointerBacked, [Next]_vars
  PROVE  PointerBacked'
<1>1. ASSUME NEW f \in Approving, disk[f] \notin {None, Blocked}
      PROVE  Backed(disk[f])
  BY <1>1 DEF PointerBacked, Approving
<1>2. ASSUME NEW p \in Approvals, Backed(p)
      PROVE  Backed(p)'
  BY <1>2, BackedStays, DayPasses
<1>3. SUFFICES ASSUME NEW f \in Approving, disk'[f] \notin {None, Blocked}
               PROVE  Backed(disk[f])'
  BY DEF PointerBacked, Approving
<1>4. CASE \E g \in Approving : disk'[f] = disk[g]
  <2>1. PICK g \in Approving : disk'[f] = disk[g]
    BY <1>4
  <2>2. disk[g] \in Approvals /\ Backed(disk[g])
    BY <1>1, <1>3, <2>1, ApprovalsTyped
  <2> DEFINE p == disk'[f]
  <2>3. p \in Approvals /\ Backed(p)
    BY <2>1, <2>2
  <2> QED
    BY <1>2, <2>1, <2>2, <2>3 DEF Backed
<1>5. CASE WriteElig /\ Eligible /\ disk["cand"] # None /\ disk'[f] \in Approved
  <2> DEFINE p == disk'[f]
  <2>1. p \in Approvals /\ Backed(p)
    BY <1>5, ApprovedBacked
  <2> QED
    BY <1>2, <2>1 DEF Backed
<1>6. CASE WriteElig /\ \A g \in Approving : disk'[f] # disk[g]
  <2>1. /\ \A g \in Files : g # "elig" => disk'[g] = disk[g]
        /\ \/ disk'["elig"] \in {None, Blocked, disk["elig"]}
           \/ /\ disk["cand"] # None /\ Eligible
              /\ disk'["elig"] \in Approved
    BY <1>6, Targets, ZenonT(60) DEF WriteElig, Write, Put, Torn, TypeOK, Files
  <2>2. f = "elig"
    BY <1>6, <2>1 DEF Approving, Files
  <2>3. f \in Approving /\ disk["elig"] = disk[f]
    BY <2>2
  <2> QED
    BY <1>3, <1>5, <1>6, <2>1, <2>2, <2>3
<1> QED
  BY <1>3, <1>4, <1>5, <1>6, StepCopies DEF Copied

Inv == TypeOK /\ StepsOK /\ PacketDay /\ PointerBacked

LEMMA InitInv == Init => Inv
<1> SUFFICES ASSUME Init PROVE Inv
  OBVIOUS
<1>1. \A f \in Files : disk[f] \in {None, "packet"}
  BY DEF Init
<1>2. \A f \in Files \ {"decision"} : disk[f] = None
  BY DEF Init
<1> QED
  BY <1>2, InitTypeOK DEF Inv, PacketDay, PointerBacked, Files

LEMMA StepInv == Inv /\ [Next]_vars => Inv'
BY StepTypeOK, StepStepsOK, StepPacketDay, StepBacked DEF Inv

\* An approval on disk, live or copied, cites anchors of its packet, usable on that
\* packet's day, and ends before the first of them does.
THEOREM AlwaysBacked == Spec => []PointerBacked
<1>1. Inv => PointerBacked
  BY DEF Inv
<1> QED
  BY <1>1, InitInv, StepInv, PTL DEF Spec

-----------------------------------------------------------------------------
\* A backed approval in its term is a handoff of anchors that are all in their period.
LEMMA HandoffOf ==
  ASSUME NEW p \in Approvals, NEW date \in Days, p.cand.rows # {}, p.packet.day <= date,
         date <= p.until,
         \A a \in p.cand.rows : /\ a \in DOMAIN p.packet.anchors
                                /\ Covers(p.packet.anchors[a], p.packet.day)
                                /\ p.until <= p.packet.anchors[a].until
  PROVE  /\ Handoff(p) \in Promoted!Handoffs /\ Handoff(p) # None
         /\ \A a \in DOMAIN Handoff(p) : Covers(Handoff(p)[a], date)
<1>1. /\ p.cand.rows \in SUBSET Anchors /\ p.packet.anchors \in Registries
      /\ p.packet.day \in Days /\ p.until \in Days
  BY DEF Approvals, Cands, Packets
<1>2. \A a \in p.cand.rows : p.packet.anchors[a] \in Periods
  BY <1>1
<1>3. Handoff(p) \in [p.cand.rows -> Periods]
  BY <1>2 DEF Handoff
<1>4. Handoff(p) # None
  BY <1>1, <1>3
<1>5. Handoff(p) \in Promoted!Handoffs
  BY <1>1, <1>3 DEF Promoted!Handoffs, Promoted!Periods, Promoted!Days, Periods, Days
<1>6. ASSUME NEW a \in DOMAIN Handoff(p)
      PROVE  Covers(Handoff(p)[a], date)
  <2>1. a \in p.cand.rows /\ Handoff(p)[a] = p.packet.anchors[a]
    BY DEF Handoff
  <2>2. /\ p.packet.anchors[a].from \in Days /\ p.packet.anchors[a].until \in Days
        /\ p.packet.anchors[a].from <= p.packet.day
        /\ p.until <= p.packet.anchors[a].until
    BY <1>2, <2>1 DEF Periods, Covers
  <2> QED
    BY <1>1, <2>1, <2>2 DEF Covers, Days
<1> QED
  BY <1>4, <1>5, <1>6

LiveIsHandoff ==
  Live => /\ Handoff(disk["pointer"]) \in {h \in Promoted!Handoffs : Promoted!InPeriod(h)}
          /\ Handoff(disk["pointer"]) # None

LEMMA LiveHandoff == Inv => LiveIsHandoff
<1> SUFFICES ASSUME Inv, Live PROVE LiveIsHandoff
  BY DEF LiveIsHandoff
<1>1. disk["pointer"] \in Approvals
  BY Typing DEF Inv, TypeOK, Files, Live
<1>2. disk["pointer"] # Blocked /\ disk["pointer"] # None
  BY <1>1 DEF Live
<1>3. Backed(disk["pointer"])
  BY <1>2 DEF Inv, PointerBacked
<1>4. today \in Days /\ today <= disk["pointer"].until
  BY DEF Inv, TypeOK, Live
<1>5. /\ Handoff(disk["pointer"]) \in Promoted!Handoffs /\ Handoff(disk["pointer"]) # None
      /\ \A a \in DOMAIN Handoff(disk["pointer"]) : Covers(Handoff(disk["pointer"])[a], today)
  BY <1>1, <1>3, <1>4, HandoffOf DEF Backed
<1> QED
  BY <1>5 DEF LiveIsHandoff, Promoted!InPeriod, Promoted!Covers, Covers

LEMMA LiveHandoffNext == Inv' => LiveIsHandoff'
BY LiveHandoff, PTL

\* A step that leaves the day and the copies alone can only switch the live handoff.
LEMMA Switches ==
  ASSUME Inv', today' = today, disk'["prompt"] = disk["prompt"],
         disk'["marker"] = disk["marker"], disk'["audit"] = disk["audit"]
  PROVE  Promoted!Promote \/ Promoted!Withdraw
<1>1. CASE Live'
  <2>1. LiveIsHandoff'
    BY LiveHandoffNext
  <2> QED
    BY <1>1, <2>1 DEF Promoted!Promote, Promoted!InPeriod, LiveIsHandoff, HandoffIn, Handoff
<1>2. CASE ~Live'
  BY <1>2 DEF Promoted!Withdraw, HandoffIn, Handoff
<1> QED
  BY <1>1, <1>2

\* The steps that neither record a handoff nor pass a day.
Unrecorded ==
  /\ today' = today /\ disk'["prompt"] = disk["prompt"]
  /\ disk'["marker"] = disk["marker"] /\ disk'["audit"] = disk["audit"]

LEMMA MostUnrecorded ==
  ASSUME TypeOK, Next
  PROVE  Unrecorded \/ WritePrompt \/ WriteMarker \/ RewriteMarker \/ AuditStep3 \/ Tick \/ Crash
<1> USE Targets DEF TypeOK, Files, Unrecorded
<1>1. WritePacket \/ WriteMemo \/ RewritePacket \/ WriteBase => Unrecorded
  BY ZenonT(60) DEF WritePacket, WriteMemo, RewritePacket, WriteBase, Write, Put, Torn, inputs
<1>2. WriteSignals \/ WritePreview \/ WriteCand \/ WriteMeta => Unrecorded
  BY ZenonT(60) DEF WriteSignals, WritePreview, WriteCand, WriteMeta, Write, Put, Torn, inputs
<1>3. WriteElig \/ WriteEffectivePreview \/ WritePointerPreview => Unrecorded
  BY ZenonT(60) DEF WriteElig, WriteEffectivePreview, WritePointerPreview, Write, Put, Torn, inputs
<1>4. WriteEffective \/ WritePointer \/ UnlinkPointer \/ UnlinkEffective => Unrecorded
  BY ZenonT(60) DEF WriteEffective, WritePointer, UnlinkPointer, UnlinkEffective, Write, Put, Torn, inputs
<1>5. WriteVerdict \/ RefreshVerdict \/ Invalidate => Unrecorded
  BY ZenonT(60) DEF WriteVerdict, RefreshVerdict, Invalidate, Write, Put, Torn, inputs
<1>6. BeginParse \/ RefusePointer \/ SkipPointer \/ AdmitStep2 => Unrecorded
  BY DEF BeginParse, RefusePointer, SkipPointer, AdmitStep2, inputs
<1>7. WriteDecision => Unrecorded
  BY DEF WriteDecision, Record, Put, inputs
<1> QED
  BY <1>1, <1>2, <1>3, <1>4, <1>5, <1>6, <1>7 DEF Next, Parse

LEMMA StepPromoted ==
  ASSUME Inv, [Next]_vars
  PROVE  [Promoted!Next]_(Promoted!vars)
<1> USE DEF Promoted!Next
<1>1. Inv' /\ TypeOK /\ StepsOK
  BY StepInv DEF Inv
<1>2. Live => Handoff(disk["pointer"]) # None
  BY LiveHandoff DEF LiveIsHandoff
<1>3. CASE Unrecorded
  BY <1>1, <1>3, Switches DEF Unrecorded
<1>4. CASE WritePrompt
  <2>1. /\ Live /\ disk["pointer"] # None /\ today' = today
        /\ disk' = [disk EXCEPT !["prompt"] = disk["pointer"]]
    BY <1>1, <1>4, Targets, ZenonT(60) DEF WritePrompt, Record, Put, StepsOK, Live, inputs
  <2>2. /\ disk'["prompt"] = disk["pointer"] /\ disk'["pointer"] = disk["pointer"]
        /\ disk'["effective"] = disk["effective"] /\ disk'["marker"] = disk["marker"]
        /\ disk'["audit"] = disk["audit"]
    BY <1>1, <2>1 DEF TypeOK, Files
  <2>3. Live'
    BY <2>1, <2>2 DEF Live
  <2> QED
    BY <1>2, <2>1, <2>2, <2>3 DEF Promoted!Show, HandoffIn, Handoff
<1>5. CASE WriteMarker \/ RewriteMarker
  <2>1. /\ Live /\ disk["pointer"] # None /\ today' = today
        /\ disk' = [disk EXCEPT !["marker"] = disk["pointer"]]
    BY <1>1, <1>5, Targets, ZenonT(60) DEF WriteMarker, RewriteMarker, Record, Put, StepsOK, Live, inputs
  <2>2. /\ disk'["marker"] = disk["pointer"] /\ disk'["pointer"] = disk["pointer"]
        /\ disk'["effective"] = disk["effective"] /\ disk'["prompt"] = disk["prompt"]
        /\ disk'["audit"] = disk["audit"]
    BY <1>1, <2>1 DEF TypeOK, Files
  <2>3. Live'
    BY <2>1, <2>2 DEF Live
  <2> QED
    BY <1>2, <2>1, <2>2, <2>3 DEF Promoted!Name, HandoffIn, Handoff
<1>6. CASE AuditStep3
  <2>1. /\ Live /\ LiveMarker /\ disk["pointer"] # None /\ today' = today
        /\ disk' = [disk EXCEPT !["audit"] = disk["pointer"]]
    BY <1>6 DEF AuditStep3, Put, Live, inputs
  <2>2. /\ disk'["audit"] = disk["pointer"] /\ disk'["pointer"] = disk["pointer"]
        /\ disk'["effective"] = disk["effective"] /\ disk'["prompt"] = disk["prompt"]
        /\ disk'["marker"] = disk["marker"]
    BY <1>1, <2>1 DEF TypeOK, Files
  <2>3. Live'
    BY <2>1, <2>2 DEF Live
  <2>4. disk["marker"] = disk["pointer"]
    BY <2>1 DEF LiveMarker
  <2> QED
    BY <1>2, <2>1, <2>2, <2>3, <2>4 DEF Promoted!Audit, HandoffIn, Handoff
<1>7. CASE Tick
  <2>1. today' \in Promoted!Days /\ today' > today /\ disk' = disk
    BY <1>7 DEF Tick, Days, Promoted!Days
  <2>2. CASE Live'
    <3>1. LiveIsHandoff' /\ disk["pointer"] \in Approvals /\ today \in Days
      BY <1>1, <2>1, <2>2, LiveHandoffNext, Typing DEF TypeOK, Files, Live
    <3>2. Live
      BY <2>1, <2>2, <3>1 DEF Live, Approvals, Days, Promoted!Days
    <3> QED
      BY <1>2, <2>1, <2>2, <3>1, <3>2 DEF Promoted!Tick, Promoted!InPeriod, LiveIsHandoff,
         HandoffIn, Handoff
  <2>3. CASE ~Live'
    BY <2>1, <2>3 DEF Promoted!Tick, HandoffIn, Handoff
  <2> QED
    BY <2>2, <2>3
<1>8. CASE Crash
  <2>1. PICK f \in Files \ {"audit"} : disk' \in Torn(f)
    BY <1>1, <1>8, TargetsAreFiles, Targets DEF Crash, TypeOK, Steps, Files, FileOf
  <2>2. today' = today /\ \A g \in Files : g # f => disk'[g] = disk[g]
    BY <1>1, <1>8, <2>1 DEF Crash, Torn, TypeOK, inputs
  <2>3. CASE f \notin {"prompt", "marker"}
    BY <1>1, <2>1, <2>2, <2>3, Switches DEF Files
  <2>4. CASE f \in {"prompt", "marker"}
    <3>1. /\ disk'["pointer"] = disk["pointer"] /\ disk'["effective"] = disk["effective"]
          /\ disk'["audit"] = disk["audit"]
      BY <2>2, <2>4 DEF Files
    <3>2. /\ disk'["prompt"] \in {disk["prompt"], None}
          /\ disk'["marker"] \in {disk["marker"], None}
      BY <1>1, <2>1 DEF Torn, TypeOK, Files
    <3>3. Live' = Live
      BY <2>2, <3>1 DEF Live
    <3> QED
      BY <2>2, <3>1, <3>2, <3>3 DEF Promoted!Lose, HandoffIn, Handoff
  <2> QED
    BY <2>3, <2>4
<1>9. CASE UNCHANGED vars
  BY <1>9 DEF vars, Promoted!vars, Live, HandoffIn, Handoff
<1> QED
  BY <1>1, <1>3, <1>4, <1>5, <1>6, <1>7, <1>8, <1>9, MostUnrecorded

\* Prompts show, markers name and audits cover only a handoff whose anchors are all in
\* their period at the time, and an audit only one that Step 2 named.
THEOREM Implements == Spec => PromotedSpec
<1>1. Init => Promoted!Init
  <2> SUFFICES ASSUME Init PROVE Promoted!Init
    OBVIOUS
  <2>1. \A f \in Files \ {"decision"} : disk[f] = None
    BY DEF Init
  <2> QED
    BY <2>1 DEF Promoted!Init, Init, Live, HandoffIn, Files, Days, Promoted!Days
<1>2. Inv /\ [Next]_vars => [Promoted!Next]_(Promoted!vars)
  BY StepPromoted
<1> QED
  BY <1>1, <1>2, InitInv, StepInv, PTL DEF Spec, PromotedSpec, Promoted!Spec

-----------------------------------------------------------------------------
(***************************************************************************)
(* What a Step 1 parse that meets no failure leaves behind.  Each layer    *)
(* reads files the earlier ones have just written, so a pointer it leaves  *)
(* was derived from the files beside it, and the Step 2 marker of an       *)
(* earlier parse, which names an older packet, cannot match it.            *)
(***************************************************************************)

\* The steps of a parse before its packet, signals, preview, ... are final.
ToPacket == {"packet", "memo", "repacket"}
ToSignals == ToPacket \cup {"base", "signals"}
ToPreview == ToSignals \cup {"preview"}
ToCand == ToPreview \cup {"cand"}
ToMeta == ToCand \cup {"meta"}
ToElig == ToMeta \cup {"elig"}
ToPview == ToElig \cup {"eview", "pview"}
ToPointer == ToPview \cup {"effective", "pointer", "unlink"}
ToVerdict == ToPointer \cup {"unlink effective", "verdict"}

\* An approval of the packet and the signals on disk, of rows they accept.
Derived(p) ==
  /\ p.packet = disk["packet"] /\ p.signals = disk["signals"]
  /\ p.cand.rows \subseteq disk["signals"].rows

\* What each layer finds when none before it has failed.
CleanOK ==
  clean =>
    /\ pc \notin ToPacket => disk["packet"] # None /\ disk["packet"].run = run
    /\ pc \notin ToSignals => disk["signals"] # None
    /\ pc \notin ToPreview => /\ disk["preview"] # None
                              /\ disk["preview"].rows \subseteq disk["signals"].rows
    /\ pc \notin ToCand => /\ disk["cand"] # None
                           /\ disk["cand"].rows \subseteq disk["signals"].rows
    /\ pc \notin ToMeta => disk["meta"] # None
    /\ pc \notin ToElig => /\ disk["elig"] # None
                           /\ disk["elig"] # Blocked => Derived(disk["elig"])
    /\ pc \notin ToPview => /\ disk["pview"] # None
                            /\ disk["pview"] # Blocked => Derived(disk["pview"])
    /\ pc \notin ToPointer /\ disk["pointer"] # None => Derived(disk["pointer"])
    /\ pc \notin ToVerdict /\ disk["verdict"] = "AUDIT_ONLY" => decided

\* No file speaks of a parse that has not begun.
Aged ==
  /\ disk["packet"] # None => disk["packet"].run <= run
  /\ \A f \in Approving : disk[f] \notin {None, Blocked} => disk[f].packet.run <= run

\* Until Step 2 is admitted the marker names the packet of an earlier parse.
MarkerOld ==
  /\ pc \in {"prompt", "marker", "decision", "remark"} => decided
  /\ ~decided /\ disk["marker"] # None => disk["marker"].packet.run < run

CleanInv == Inv /\ CleanOK /\ Aged /\ MarkerOld

-----------------------------------------------------------------------------
\* A write that met no failure.
LEMMA CleanWrite ==
  ASSUME TypeOK, NEW f \in Steps, NEW ready \in BOOLEAN, NEW values, NEW next, NEW resume,
         Write(f, ready, values, next, resume), clean'
  PROVE  /\ clean /\ pc = f /\ run' = run /\ decided' = decided
         /\ \A g \in Files : g # FileOf(f) => disk'[g] = disk[g]
         /\ \/ ready /\ disk'[FileOf(f)] \in values /\ pc' = next
            \/ ~ready /\ disk'[FileOf(f)] = disk[FileOf(f)] /\ pc' = resume
<1>1. FileOf(f) \in Files
  BY TargetsAreFiles
<1>2. /\ clean /\ pc = f /\ run' = run /\ decided' = decided
      /\ \/ ready /\ disk' \in Put(FileOf(f), values) /\ pc' = next
         \/ ~ready /\ disk' = disk /\ pc' = resume
  BY DEF Write, inputs
<1>3. CASE ready /\ disk' \in Put(FileOf(f), values) /\ pc' = next
  <2>1. PICK v \in values : disk' = [disk EXCEPT ![FileOf(f)] = v]
    BY <1>3 DEF Put
  <2> QED
    BY <1>1, <1>2, <1>3, <2>1 DEF TypeOK
<1>4. CASE ~ready /\ disk' = disk /\ pc' = resume
  BY <1>2, <1>4
<1> QED
  BY <1>2, <1>3, <1>4

\* ... of the one value there is to write.
LEMMA CleanPut ==
  ASSUME TypeOK, NEW f \in Steps, NEW value, NEW next, NEW resume,
         Write(f, TRUE, {value}, next, resume), clean'
  PROVE  /\ clean /\ pc = f /\ pc' = next /\ run' = run /\ decided' = decided
         /\ \A g \in Files : g # FileOf(f) => disk'[g] = disk[g]
         /\ disk'[FileOf(f)] = value
<1> DEFINE values == {value}
<1>1. Write(f, TRUE, values, next, resume)
  OBVIOUS
<1> HIDE DEF values
<1>2. /\ clean /\ pc = f /\ pc' = next /\ run' = run /\ decided' = decided
      /\ \A g \in Files : g # FileOf(f) => disk'[g] = disk[g]
      /\ disk'[FileOf(f)] \in values
  BY <1>1, CleanWrite
<1> QED
  BY <1>2 DEF values

LEMMA StepRun ==
  ASSUME TypeOK, [Next]_vars
  PROVE  BeginParse \/ (run' = run /\ (decided => decided'))
<1>1. WritePacket \/ WriteMemo \/ RewritePacket \/ WriteBase \/ WriteSignals \/ WritePreview
        => run' = run /\ decided' = decided
  BY DEF WritePacket, WriteMemo, RewritePacket, WriteBase, WriteSignals, WritePreview, Write,
     inputs
<1>2. WriteCand \/ WriteMeta \/ WriteElig \/ WriteEffectivePreview \/ WritePointerPreview
        => run' = run /\ decided' = decided
  BY DEF WriteCand, WriteMeta, WriteElig, WriteEffectivePreview, WritePointerPreview, Write,
     inputs
<1>3. WriteEffective \/ WritePointer \/ UnlinkPointer \/ UnlinkEffective \/ WriteVerdict
        \/ RefreshVerdict
        => run' = run /\ decided' = decided
  BY DEF WriteEffective, WritePointer, UnlinkPointer, UnlinkEffective, WriteVerdict,
     RefreshVerdict, Write, inputs
<1>4. RefusePointer \/ SkipPointer \/ AdmitStep2 \/ AuditStep3 \/ Invalidate \/ Crash \/ Tick
        => run' = run /\ (decided => decided')
  BY DEF RefusePointer, SkipPointer, AdmitStep2, AuditStep3, Invalidate, Crash, Tick, inputs
<1>5. WritePrompt \/ WriteMarker \/ WriteDecision \/ RewriteMarker
        => run' = run /\ decided' = decided
  BY DEF WritePrompt, WriteMarker, WriteDecision, RewriteMarker, Record, inputs
<1>6. UNCHANGED vars => run' = run /\ decided' = decided
  BY DEF vars
<1> QED
  BY <1>1, <1>2, <1>3, <1>4, <1>5, <1>6 DEF Next, Parse

LEMMA RunsOf ==
  ASSUME TypeOK
  PROVE  /\ run \in Nat
         /\ disk["packet"] # None => disk["packet"].run \in Nat
         /\ \A f \in Approving : disk[f] \notin {None, Blocked} => disk[f].packet.run \in Nat
<1>1. disk["packet"] \in Packets \cup {None}
  BY Typing DEF TypeOK, Files
<1>2. ASSUME NEW f \in Approving, disk[f] \notin {None, Blocked}
      PROVE  disk[f].packet.run \in Nat
  BY <1>2, ApprovalsTyped DEF Approvals, Packets
<1> QED
  BY <1>1, <1>2 DEF TypeOK, Packets

LEMMA StepAged ==
  ASSUME TypeOK, Aged, [Next]_vars
  PROVE  Aged'
<1>1. run \in Nat /\ run' \in Nat /\ run <= run'
  <2>1. run' \in {run, run + 1}
    BY StepRun DEF BeginParse
  <2> QED
    BY <2>1, RunsOf
<1>2. Packet.run = run
  BY DEF Packet
<1>3. CASE Copied
  <2>1. disk'["packet"] # None => disk'["packet"].run <= run'
    BY <1>1, <1>2, <1>3, RunsOf DEF Copied, Aged
  <2>2. ASSUME NEW f \in Approving, disk'[f] \notin {None, Blocked}
        PROVE  disk'[f].packet.run <= run'
    <3>1. PICK g \in Approving : disk'[f] = disk[g]
      BY <1>3, <2>2 DEF Copied
    <3>2. disk[g].packet.run \in Nat /\ disk[g].packet.run <= run
      BY <2>2, <3>1, RunsOf DEF Aged
    <3> QED
      BY <1>1, <3>1, <3>2
  <2> QED
    BY <2>1, <2>2 DEF Aged
<1>4. CASE WriteElig
  <2>1. /\ \A g \in Files : g # "elig" => disk'[g] = disk[g]
        /\ \/ disk'["elig"] \in {None, Blocked, disk["elig"]}
           \/ Eligible /\ disk'["elig"] \in Approved
    BY <1>4, Targets, ZenonT(60) DEF WriteElig, Write, Put, Torn, TypeOK, Files
  <2>2. \A g \in Approving : g # "elig" => disk'[g] = disk[g]
    BY <2>1 DEF Approving, Files
  <2>3. Eligible /\ disk'["elig"] \in Approved => disk'["elig"].packet.run <= run
    BY DEF Approved, Eligible, ChainMatches, Aged
  <2>4. disk'["elig"] \notin {None, Blocked} => disk'["elig"].packet.run <= run
    BY <2>1, <2>3 DEF Aged, Approving
  <2>5. run' = run /\ disk'["packet"] = disk["packet"]
    BY <1>4, <2>1 DEF WriteElig, Write, inputs, Files
  <2> QED
    BY <2>2, <2>4, <2>5 DEF Aged
<1> QED
  BY <1>3, <1>4, StepCopies

LEMMA StepMarkerOld ==
  ASSUME TypeOK, Aged, MarkerOld, [Next]_vars
  PROVE  MarkerOld'
<1>1. pc' \in {"prompt", "marker", "decision", "remark"} => decided'
  <2>1. CASE UNCHANGED vars
    BY <2>1 DEF vars, MarkerOld
  <2>2. CASE Next /\ pc' \in {"prompt", "marker", "decision", "remark"}
    <3>1. CASE AdmitStep2
      BY <3>1 DEF AdmitStep2
    <3>2. CASE WritePrompt \/ WriteDecision
      BY <3>2 DEF WritePrompt, WriteDecision, Record, MarkerOld
    <3>3. ~WriteCand /\ ~WriteEffective
      BY <2>2 DEF WriteCand, WriteEffective, Write
    <3> QED
      BY <2>2, <3>1, <3>2, <3>3, Guarded
  <2> QED
    BY <2>1, <2>2
<1>2. WriteMarker \/ RewriteMarker => decided'
  BY DEF WriteMarker, RewriteMarker, Record, MarkerOld
<1>3. disk'["marker"] \in {disk["marker"], None} \/ WriteMarker \/ RewriteMarker
  <2>1. WritePrompt => disk'["marker"] = disk["marker"]
    BY Targets DEF WritePrompt, Record, Put, TypeOK, Files
  <2>2. AuditStep3 => disk'["marker"] = disk["marker"]
    BY DEF AuditStep3, Put, TypeOK, Files
  <2>3. Tick => disk'["marker"] = disk["marker"]
    BY DEF Tick
  <2>4. Crash => disk'["marker"] \in {disk["marker"], None}
    BY DEF Crash, Torn, TypeOK, Files
  <2>5. UNCHANGED vars => disk'["marker"] = disk["marker"]
    BY DEF vars
  <2> QED
    BY <2>1, <2>2, <2>3, <2>4, <2>5, MostUnrecorded DEF Unrecorded
<1>4. ASSUME ~decided', disk'["marker"] # None
      PROVE  disk'["marker"].packet.run < run'
  <2>1. disk'["marker"] = disk["marker"] /\ disk["marker"] # None
    BY <1>2, <1>3, <1>4
  <2>2. disk["marker"] \in Approvals
    BY <2>1, Typing DEF TypeOK, Files
  <2>3. disk["marker"].packet.run \in Nat /\ disk["marker"].packet.run <= run
    BY <2>1, <2>2 DEF Aged, Approving, Approvals, Packets
  <2>4. CASE BeginParse
    BY <2>1, <2>3, <2>4 DEF BeginParse, TypeOK
  <2>5. CASE run' = run /\ ~decided
    BY <2>1, <2>5 DEF MarkerOld
  <2> QED
    BY <1>4, <2>4, <2>5, StepRun
<1> QED
  BY <1>1, <1>4 DEF MarkerOld

-----------------------------------------------------------------------------
\* The files CleanOK speaks of.
Layered == {"packet", "signals", "preview", "cand", "meta", "elig", "pview", "pointer"}

\* A step that leaves those files as they are, and the verdict, or a lesser one.
LEMMA CleanKept ==
  ASSUME CleanOK, clean' => clean, run' = run, decided => decided',
         \A f \in Layered : disk'[f] = disk[f],
         disk'["verdict"] = "AUDIT_ONLY" => disk["verdict"] = "AUDIT_ONLY",
         pc' = pc \/ (pc \notin ToVerdict /\ pc' \notin ToVerdict)
  PROVE  CleanOK'
BY DEF CleanOK, Layered, Derived, ToVerdict, ToPointer, ToPview, ToElig, ToMeta, ToCand,
   ToPreview, ToSignals, ToPacket

\* After a clean parse the marker is the pointer only if Step 2 has been admitted since.
LEMMA CleanReachable ==
  ASSUME CleanInv, clean, pc \notin ToPointer, "AUDIT_ONLY" \in Reachable
  PROVE  decided
<1>1. disk["marker"] # None /\ disk["pointer"] # None /\ disk["marker"] = disk["pointer"]
  BY DEF Reachable, LiveMarker, Live
<1>2. disk["pointer"].packet = disk["packet"] /\ disk["packet"].run = run
  BY <1>1 DEF CleanInv, CleanOK, Derived, ToPointer, ToPview, ToElig, ToMeta, ToCand,
     ToPreview, ToSignals, ToPacket
<1>3. run \in Nat
  BY DEF CleanInv, Inv, TypeOK
<1> QED
  BY <1>1, <1>2, <1>3 DEF CleanInv, MarkerOld

\* The layers of the evidence: packet, signals, preview, candidate, metadata.
LEMMA StepPacket ==
  ASSUME TypeOK, CleanOK, clean',
         WritePacket \/ WriteMemo \/ RewritePacket \/ WriteBase
  PROVE  CleanOK'
<1>1. CASE WritePacket \/ WriteMemo
  <2>1. pc' \in {"memo", "repacket"}
    BY <1>1, CleanWrite, StepNames DEF WritePacket, WriteMemo
  <2> QED
    BY <2>1 DEF CleanOK, ToVerdict, ToPointer, ToPview, ToElig, ToMeta, ToCand, ToPreview,
       ToSignals, ToPacket
<1>2. CASE RewritePacket
  <2>0. FileOf("repacket") = "packet"
    BY Targets
  <2>1. /\ pc' = "base" /\ run' = run /\ disk'["packet"] = Packet
    BY <1>2, <2>0, CleanPut, StepNames DEF RewritePacket
  <2>2. Packet # None /\ Packet.run = run
    BY ContentAssumption DEF Packet, Packets, TypeOK
  <2> QED
    BY <2>1, <2>2 DEF CleanOK, ToVerdict, ToPointer, ToPview, ToElig, ToMeta, ToCand, ToPreview,
       ToSignals, ToPacket
<1>3. CASE WriteBase
  <2>0. FileOf("base") = "base"
    BY Targets
  <2>1. /\ clean /\ pc = "base" /\ pc' = "signals" /\ run' = run
        /\ disk'["packet"] = disk["packet"]
    BY <1>3, <2>0, CleanWrite, StepNames DEF WriteBase, Files
  <2> QED
    BY <2>1 DEF CleanOK, ToVerdict, ToPointer, ToPview, ToElig, ToMeta, ToCand, ToPreview,
       ToSignals, ToPacket
<1> QED
  BY <1>1, <1>2, <1>3

LEMMA StepSignals ==
  ASSUME TypeOK, CleanOK, clean',
         WriteSignals \/ WritePreview \/ WriteCand \/ WriteMeta
  PROVE  CleanOK'
<1>1. CASE WriteSignals
  <2> DEFINE signals == [rows |-> Grounded, run |-> run]
  <2>0. FileOf("signals") = "signals"
    BY Targets
  <2>1. /\ clean /\ pc = "signals" /\ pc' = "preview" /\ run' = run
        /\ disk'["packet"] = disk["packet"] /\ disk'["signals"] = signals
    BY <1>1, <2>0, CleanPut, StepNames DEF WriteSignals, Files
  <2>2. signals # None
    <3>1. Grounded \in SUBSET Anchors
      BY MemoTyped DEF Grounded
    <3> QED
      BY <3>1, ContentAssumption DEF Signals, TypeOK
  <2> QED
    BY <2>1, <2>2 DEF CleanOK, ToVerdict, ToPointer, ToPview, ToElig, ToMeta, ToCand, ToPreview,
       ToSignals, ToPacket
<1>2. CASE WritePreview
  <2> DEFINE previews == {[rows |-> rows, packet |-> Run(disk["packet"]),
                          signals |-> Run(disk["signals"])] : rows \in SUBSET PreviewRows}
  <2>0. FileOf("preview") = "preview"
    BY Targets
  <2>1. /\ clean /\ pc = "preview" /\ pc' = "cand" /\ run' = run
        /\ \A g \in Files : g # "preview" => disk'[g] = disk[g]
        /\ disk["signals"] # None => disk'["preview"] \in previews
    BY <1>2, <2>0, CleanWrite, StepNames DEF WritePreview
  <2>2. disk["signals"] # None /\ disk["packet"] # None /\ disk["packet"].run = run
    BY <2>1 DEF CleanOK, ToVerdict, ToPointer, ToPview, ToElig, ToMeta, ToCand, ToPreview,
       ToSignals, ToPacket
  <2>3. PICK rows \in SUBSET PreviewRows :
          disk'["preview"] = [rows |-> rows, packet |-> Run(disk["packet"]),
                              signals |-> Run(disk["signals"])]
    BY <2>1, <2>2
  <2>4. rows \in SUBSET disk["signals"].rows /\ rows \in SUBSET Anchors
    BY <2>2, RowsTyped DEF PreviewRows, RowsOf
  <2>5. Run(disk["packet"]) \in Nat \cup {None} /\ Run(disk["signals"]) \in Nat
    BY <2>2, RunsTyped DEF Run
  <2>6. disk'["preview"] # None /\ disk'["preview"].rows = rows
    BY <2>3, <2>4, <2>5, ContentAssumption DEF Previews
  <2>7. disk'["packet"] = disk["packet"] /\ disk'["signals"] = disk["signals"]
    BY <2>1 DEF Files
  <2> QED
    BY <2>1, <2>2, <2>4, <2>6, <2>7 DEF CleanOK, ToVerdict, ToPointer, ToPview, ToElig, ToMeta, ToCand, ToPreview,
       ToSignals, ToPacket
<1>3. CASE WriteCand
  <2> DEFINE cand == [rows |-> RowsOf(disk["preview"]), base |-> BaseOfCand]
  <2>0. FileOf("cand") = "cand"
    BY Targets
  <2>1. clean /\ pc = "cand"
    BY <1>3 DEF WriteCand, Write
  <2>2. /\ disk["packet"] # None /\ disk["packet"].run = run /\ disk["signals"] # None
        /\ disk["preview"] # None /\ disk["preview"].rows \subseteq disk["signals"].rows
    BY <2>1 DEF CleanOK, ToVerdict, ToPointer, ToPview, ToElig, ToMeta, ToCand, ToPreview,
       ToSignals, ToPacket
  <2>3. cand \in Cands
    BY RowsTyped, MemoTyped, Typing DEF BaseOfCand, TypeOK, Files, Cands
  <2>4. cand # None /\ cand.rows \subseteq disk["signals"].rows
    BY <2>2, <2>3, ContentAssumption DEF RowsOf
  <2>5. Write("cand", TRUE, {cand}, "meta", "elig")
    BY <1>3, <2>2 DEF WriteCand, Write
  <2> HIDE DEF cand
  <2>6. /\ pc' = "meta" /\ run' = run /\ disk'["cand"] = cand
        /\ \A g \in Files : g # "cand" => disk'[g] = disk[g]
    BY <2>0, <2>5, CleanPut, StepNames
  <2>7. /\ disk'["packet"] = disk["packet"] /\ disk'["signals"] = disk["signals"]
        /\ disk'["preview"] = disk["preview"]
    BY <2>6 DEF Files
  <2> QED
    BY <2>1, <2>2, <2>4, <2>6, <2>7 DEF CleanOK, ToVerdict, ToPointer, ToPview, ToElig, ToMeta, ToCand, ToPreview,
       ToSignals, ToPacket
<1>4. CASE WriteMeta
  <2> DEFINE meta == [packet |-> Run(disk["packet"]), signals |-> Run(disk["signals"]),
                      preview |-> disk["preview"], base |-> disk["base"]]
  <2>0. FileOf("meta") = "meta"
    BY Targets
  <2>1. clean /\ pc = "meta" /\ Write("meta", TRUE, {meta}, "elig", "elig")
    BY <1>4 DEF WriteMeta, Write
  <2>2. disk["preview"] # None
    BY <2>1 DEF CleanOK, ToVerdict, ToPointer, ToPview, ToElig, ToMeta, ToCand, ToPreview,
       ToSignals, ToPacket
  <2>3. disk["preview"] \in Previews /\ disk["base"] \in (SUBSET Anchors) \cup {None}
    BY <2>2, Typing DEF TypeOK, Files
  <2>4. meta \in Metas
    BY <2>3, RunsTyped DEF Metas
  <2> HIDE DEF meta
  <2>5. meta # None
    BY <2>4, ContentAssumption
  <2>6. /\ pc' = "elig" /\ run' = run /\ disk'["meta"] = meta
        /\ \A g \in Files : g # "meta" => disk'[g] = disk[g]
    BY <2>0, <2>1, CleanPut, StepNames
  <2>7. /\ disk'["packet"] = disk["packet"] /\ disk'["signals"] = disk["signals"]
        /\ disk'["preview"] = disk["preview"] /\ disk'["cand"] = disk["cand"]
    BY <2>6 DEF Files
  <2> QED
    BY <2>1, <2>5, <2>6, <2>7 DEF CleanOK, ToVerdict, ToPointer, ToPview, ToElig, ToMeta, ToCand, ToPreview,
       ToSignals, ToPacket
<1> QED
  BY <1>1, <1>2, <1>3, <1>4

\* The layers of the approval: eligibility and the two previews.
LEMMA StepApproval ==
  ASSUME TypeOK, CleanOK, clean',
         WriteElig \/ WriteEffectivePreview \/ WritePointerPreview
  PROVE  CleanOK'
<1>1. CASE WriteElig
  <2> DEFINE verdicts == (IF Eligible THEN Approved ELSE {}) \cup {Blocked}
  <2>0. FileOf("elig") = "elig"
    BY Targets
  <2>1. clean /\ pc = "elig"
    BY <1>1 DEF WriteElig, Write
  <2>2. /\ disk["packet"] # None /\ disk["packet"].run = run /\ disk["signals"] # None
        /\ disk["cand"] # None /\ disk["cand"].rows \subseteq disk["signals"].rows
        /\ disk["meta"] # None
    BY <2>1 DEF CleanOK, ToVerdict, ToPointer, ToPview, ToElig, ToMeta, ToCand, ToPreview,
       ToSignals, ToPacket
  <2>3. Write("elig", TRUE, verdicts, "eview", "eview")
    BY <1>1, <2>2 DEF WriteElig, Write
  <2>4. ASSUME NEW v \in verdicts
        PROVE  v # None /\ (v # Blocked => Derived(v))
    <3>1. CASE v = Blocked
      BY <3>1
    <3>2. CASE Eligible /\ v \in Approved
      <4>1. v # None
        BY <2>2, <3>2, ApprovedTyped, ContentAssumption
      <4>2. v.packet = disk["packet"] /\ v.signals = disk["signals"] /\ v.cand = disk["cand"]
        BY <3>2 DEF Approved
      <4> QED
        BY <2>2, <4>1, <4>2 DEF Derived
    <3> QED
      BY <3>1, <3>2
  <2> HIDE DEF verdicts
  <2>5. /\ pc' = "eview" /\ run' = run /\ disk'["elig"] \in verdicts
        /\ \A g \in Files : g # "elig" => disk'[g] = disk[g]
    BY <2>0, <2>3, CleanWrite, StepNames
  <2>6. /\ disk'["packet"] = disk["packet"] /\ disk'["signals"] = disk["signals"]
        /\ disk'["preview"] = disk["preview"] /\ disk'["cand"] = disk["cand"]
        /\ disk'["meta"] = disk["meta"]
    BY <2>5 DEF Files
  <2>7. disk'["elig"] # None /\ (disk'["elig"] # Blocked => Derived(disk["elig"])')
    BY <2>4, <2>5, <2>6 DEF Derived
  <2> QED
    BY <2>1, <2>2, <2>5, <2>6, <2>7 DEF CleanOK, ToVerdict, ToPointer, ToPview, ToElig, ToMeta, ToCand, ToPreview,
       ToSignals, ToPacket
<1>2. CASE WriteEffectivePreview
  <2> DEFINE value == IF Promotable THEN disk["cand"] ELSE disk["eview"]
  <2>0. FileOf("eview") = "eview"
    BY Targets
  <2>1. clean /\ pc = "eview"
    BY <1>2 DEF WriteEffectivePreview, Write
  <2>2. disk["elig"] # None
    BY <2>1 DEF CleanOK, ToVerdict, ToPointer, ToPview, ToElig, ToMeta, ToCand, ToPreview,
       ToSignals, ToPacket
  <2>3. Write("eview", TRUE, {value}, "pview", "effective")
    BY <1>2, <2>2 DEF WriteEffectivePreview, Write
  <2> HIDE DEF value
  <2>4. /\ pc' = "pview" /\ run' = run
        /\ \A g \in Files : g # "eview" => disk'[g] = disk[g]
    BY <2>0, <2>3, CleanPut, StepNames
  <2>5. \A g \in Layered : disk'[g] = disk[g]
    BY <2>4 DEF Layered, Files
  <2> QED
    BY <2>1, <2>4, <2>5 DEF CleanOK, Layered, Derived, ToVerdict, ToPointer, ToPview, ToElig, ToMeta, ToCand, ToPreview,
       ToSignals, ToPacket
<1>3. CASE WritePointerPreview
  <2> DEFINE value == IF Promotable THEN disk["elig"] ELSE Blocked
  <2>0. FileOf("pview") = "pview"
    BY Targets
  <2>1. clean /\ pc = "pview" /\ Write("pview", TRUE, {value}, "effective", "effective")
    BY <1>3 DEF WritePointerPreview, Write
  <2>2. disk["elig"] # None /\ (disk["elig"] # Blocked => Derived(disk["elig"]))
    BY <2>1 DEF CleanOK, ToVerdict, ToPointer, ToPview, ToElig, ToMeta, ToCand, ToPreview,
       ToSignals, ToPacket
  <2>3. value # None /\ (value # Blocked => Derived(value))
    BY <2>2
  <2> HIDE DEF value
  <2>4. /\ pc' = "effective" /\ run' = run /\ disk'["pview"] = value
        /\ \A g \in Files : g # "pview" => disk'[g] = disk[g]
    BY <2>0, <2>1, CleanPut, StepNames
  <2>5. \A g \in Layered : g # "pview" => disk'[g] = disk[g]
    BY <2>4 DEF Layered, Files
  <2>6. disk'["pview"] # None /\ (disk'["pview"] # Blocked => Derived(disk["pview"])')
    BY <2>3, <2>4, <2>5 DEF Derived, Layered
  <2> QED
    BY <2>1, <2>4, <2>5, <2>6 DEF CleanOK, Layered, Derived, ToVerdict, ToPointer, ToPview, ToElig, ToMeta, ToCand, ToPreview,
       ToSignals, ToPacket
<1> QED
  BY <1>1, <1>2, <1>3

\* The pointer writer: in a parse without failures it writes the pointer or removes it.
LEMMA StepPointer ==
  ASSUME TypeOK, StepsOK, CleanOK, clean',
         \/ WriteEffective \/ RefusePointer \/ SkipPointer
         \/ WritePointer \/ UnlinkPointer \/ UnlinkEffective
  PROVE  CleanOK'
<1>1. CASE WriteEffective
  <2>0. FileOf("effective") = "effective"
    BY Targets
  <2>1. clean /\ Write("effective", TRUE, {disk["eview"]}, "pointer", "unlink")
    BY <1>1 DEF WriteEffective, Write
  <2>2. /\ pc = "effective" /\ pc' = "pointer" /\ run' = run
        /\ \A g \in Files : g # "effective" => disk'[g] = disk[g]
    BY <2>0, <2>1, CleanPut, StepNames
  <2>3. \A g \in Layered : disk'[g] = disk[g]
    BY <2>2 DEF Layered, Files
  <2> QED
    BY <2>1, <2>2, <2>3 DEF CleanOK, Layered, Derived, ToVerdict, ToPointer, ToPview, ToElig, ToMeta, ToCand, ToPreview,
       ToSignals, ToPacket
<1>2. CASE RefusePointer
  BY <1>2 DEF RefusePointer, inputs, CleanOK, Derived, ToVerdict, ToPointer, ToPview, ToElig, ToMeta, ToCand, ToPreview,
       ToSignals, ToPacket
<1>3. CASE SkipPointer
  BY <1>3 DEF SkipPointer, CleanOK, ToVerdict, ToPointer, ToPview, ToElig, ToMeta, ToCand, ToPreview,
       ToSignals, ToPacket
<1>4. CASE WritePointer
  <2>0. FileOf("pointer") = "pointer"
    BY Targets
  <2>1. clean /\ pc = "pointer" /\ Write("pointer", TRUE, {disk["pview"]}, "verdict", "unlink")
    BY <1>4 DEF WritePointer, Write
  <2>2. disk["pview"] # None /\ disk["pview"] # Blocked /\ Derived(disk["pview"])
    BY <2>1 DEF StepsOK, CleanOK, ToVerdict, ToPointer, ToPview, ToElig, ToMeta, ToCand, ToPreview,
       ToSignals, ToPacket
  <2>3. /\ pc' = "verdict" /\ run' = run /\ disk'["pointer"] = disk["pview"]
        /\ \A g \in Files : g # "pointer" => disk'[g] = disk[g]
    BY <2>0, <2>1, CleanPut, StepNames
  <2>4. \A g \in Layered : g # "pointer" => disk'[g] = disk[g]
    BY <2>3 DEF Layered, Files
  <2>5. Derived(disk["pointer"])'
    BY <2>2, <2>3, <2>4 DEF Derived, Layered
  <2> QED
    BY <2>1, <2>3, <2>4, <2>5 DEF CleanOK, Layered, Derived, ToVerdict, ToPointer, ToPview, ToElig, ToMeta, ToCand, ToPreview,
       ToSignals, ToPacket
<1>5. CASE UnlinkPointer
  <2>0. FileOf("unlink") = "pointer"
    BY Targets
  <2>1. clean /\ Write("unlink", TRUE, {None}, "unlink effective", "unlink effective")
    BY <1>5 DEF UnlinkPointer, Write
  <2>2. /\ pc = "unlink" /\ pc' = "unlink effective" /\ run' = run /\ disk'["pointer"] = None
        /\ \A g \in Files : g # "pointer" => disk'[g] = disk[g]
    BY <2>0, <2>1, CleanPut, StepNames
  <2>3. \A g \in Layered : g # "pointer" => disk'[g] = disk[g]
    BY <2>2 DEF Layered, Files
  <2> QED
    BY <2>1, <2>2, <2>3 DEF CleanOK, Layered, Derived, ToVerdict, ToPointer, ToPview, ToElig, ToMeta, ToCand, ToPreview,
       ToSignals, ToPacket
<1>6. CASE UnlinkEffective
  <2>0. FileOf("unlink effective") = "effective"
    BY Targets
  <2>1. clean /\ Write("unlink effective", TRUE, {None}, "verdict", "verdict")
    BY <1>6 DEF UnlinkEffective, Write
  <2>2. /\ pc = "unlink effective" /\ pc' = "verdict" /\ run' = run
        /\ \A g \in Files : g # "effective" => disk'[g] = disk[g]
    BY <2>0, <2>1, CleanPut, StepNames
  <2>3. \A g \in Layered : disk'[g] = disk[g]
    BY <2>2 DEF Layered, Files
  <2> QED
    BY <2>1, <2>2, <2>3 DEF CleanOK, Layered, Derived, ToVerdict, ToPointer, ToPview, ToElig, ToMeta, ToCand, ToPreview,
       ToSignals, ToPacket
<1> QED
  BY <1>1, <1>2, <1>3, <1>4, <1>5, <1>6

\* The evaluations at the end of a parse and after it.
LEMMA StepEvaluate ==
  ASSUME CleanInv, clean', WriteVerdict \/ RefreshVerdict
  PROVE  CleanOK'
<1>1. PICK f \in {"verdict", "refresh"} : Write(f, TRUE, Reachable, "idle", "idle")
  BY DEF WriteVerdict, RefreshVerdict
<1>2. FileOf(f) = "verdict" /\ f \in Steps
  BY Targets, StepNames
<1>3. /\ clean /\ pc = f /\ pc' = "idle" /\ run' = run /\ decided' = decided
      /\ \A g \in Files : g # "verdict" => disk'[g] = disk[g]
      /\ disk'["verdict"] \in Reachable
  BY <1>1, <1>2, CleanWrite DEF CleanInv, Inv
<1>4. pc \notin ToPointer
  BY <1>3 DEF ToVerdict, ToPointer, ToPview, ToElig, ToMeta, ToCand, ToPreview,
       ToSignals, ToPacket
<1>5. \A g \in Layered : disk'[g] = disk[g]
  BY <1>3 DEF Layered, Files
<1>6. disk'["verdict"] = "AUDIT_ONLY" => decided'
  BY <1>3, <1>4, CleanReachable
<1> QED
  BY <1>3, <1>4, <1>5, <1>6 DEF CleanInv, CleanOK, Layered, Derived, ToVerdict, ToPointer, ToPview, ToElig, ToMeta, ToCand, ToPreview,
       ToSignals, ToPacket

\* Everything else: the start of a parse, the commands of Step 2 and Step 3, the clock.
LEMMA StepOthers ==
  ASSUME TypeOK, CleanOK, clean',
         \/ BeginParse \/ AdmitStep2 \/ WritePrompt \/ WriteMarker \/ WriteDecision
         \/ RewriteMarker \/ AuditStep3 \/ Invalidate \/ Tick \/ Crash \/ UNCHANGED vars
  PROVE  CleanOK'
<1>1. CASE BeginParse
  BY <1>1 DEF BeginParse, CleanOK, ToVerdict, ToPointer, ToPview, ToElig, ToMeta, ToCand, ToPreview,
       ToSignals, ToPacket
<1>2. CASE AdmitStep2
  BY <1>2, CleanKept DEF AdmitStep2, inputs, ToVerdict, ToPointer, ToPview, ToElig, ToMeta, ToCand, ToPreview,
       ToSignals, ToPacket
<1>3. CASE WritePrompt \/ WriteMarker \/ WriteDecision \/ RewriteMarker
  <2>1. /\ clean /\ run' = run /\ decided' = decided
        /\ pc \notin ToVerdict /\ pc' \notin ToVerdict
    BY <1>3 DEF WritePrompt, WriteMarker, WriteDecision, RewriteMarker, Record, inputs, ToVerdict, ToPointer, ToPview, ToElig, ToMeta, ToCand, ToPreview,
       ToSignals, ToPacket
  <2>2. \A g \in Layered \cup {"verdict"} : disk'[g] = disk[g]
    BY <1>3, Targets, ZenonT(60) DEF WritePrompt, WriteMarker, WriteDecision, RewriteMarker, Record, Put,
       TypeOK, Files, Layered
  <2> QED
    BY <2>1, <2>2, CleanKept
<1>4. CASE AuditStep3
  <2>1. \A g \in Layered \cup {"verdict"} : disk'[g] = disk[g]
    BY <1>4 DEF AuditStep3, Put, TypeOK, Files, Layered
  <2> QED
    BY <1>4, <2>1, CleanKept DEF AuditStep3, inputs
<1>5. CASE Invalidate
  <2>1. /\ \A g \in Layered : disk'[g] = disk[g]
        /\ disk'["verdict"] = None
    BY <1>5 DEF Invalidate, Put, TypeOK, Files, Layered
  <2>2. clean /\ run' = run /\ decided' = decided /\ pc \notin ToVerdict /\ pc' \notin ToVerdict
    BY <1>5 DEF Invalidate, inputs, ToVerdict, ToPointer, ToPview, ToElig, ToMeta, ToCand, ToPreview,
       ToSignals, ToPacket
  <2>3. None # "AUDIT_ONLY"
    BY ContentAssumption DEF Verdicts
  <2> QED
    BY <2>1, <2>2, <2>3, CleanKept
<1>6. CASE Tick
  BY <1>6, CleanKept DEF Tick
<1>7. CASE Crash
  BY <1>7 DEF Crash
<1>8. CASE UNCHANGED vars
  BY <1>8, CleanKept DEF vars
<1> QED
  BY <1>1, <1>2, <1>3, <1>4, <1>5, <1>6, <1>7, <1>8

LEMMA StepCleanOK ==
  ASSUME CleanInv, [Next]_vars
  PROVE  CleanOK'
<1>1. CASE ~clean'
  BY <1>1 DEF CleanOK
<1>2. CASE clean'
  BY <1>2, StepPacket, StepSignals, StepApproval, StepPointer, StepEvaluate, StepOthers
     DEF CleanInv, Inv, Next, Parse
<1> QED
  BY <1>1, <1>2

LEMMA InitCleanInv == Init => CleanInv
<1> SUFFICES ASSUME Init PROVE CleanInv
  OBVIOUS
<1>1. \A f \in Files \ {"decision"} : disk[f] = None
  BY DEF Init
<1>2. ~clean /\ pc = "idle"
  BY DEF Init
<1> QED
  BY <1>1, <1>2, InitInv DEF CleanInv, CleanOK, Aged, MarkerOld, Approving, Files

LEMMA StepCleanInv == CleanInv /\ [Next]_vars => CleanInv'
BY StepInv, StepCleanOK, StepAged, StepMarkerOld DEF CleanInv, Inv

\* After a parse that met no failure a pointer is of that parse: it was derived from the
\* packet and the signals on disk, and promotes only rows they accept.
THEOREM PointerIsCurrent == Spec => []CleanParseCurrent
<1>1. CleanInv => CleanParseCurrent
  BY DEF CleanInv, CleanOK, CleanParseCurrent, Derived, ToVerdict, ToPointer, ToPview, ToElig,
     ToMeta, ToCand, ToPreview, ToSignals, ToPacket
<1> QED
  BY <1>1, InitCleanInv, StepCleanInv, PTL DEF Spec

\* After such a parse Step 3 is only allowed once Step 2 has been admitted again.
THEOREM AuditWaitsForStep2 == Spec => []AuditNeedsThisStep2
<1>1. CleanInv => AuditNeedsThisStep2
  BY DEF CleanInv, CleanOK, AuditNeedsThisStep2, ToVerdict, ToPointer, ToPview, ToElig,
     ToMeta, ToCand, ToPreview, ToSignals, ToPacket
<1> QED
  BY <1>1, InitCleanInv, StepCleanInv, PTL DEF Spec

(***************************************************************************)
(* The availability decision (module Availability).                        *)
(***************************************************************************)

SeenFields == {"valid", "candidate", "output", "source", "now", "stamp", "universe", "good",
               "compiled", "pointer", "effective", "checked", "facts", "step2", "step3", "mixed"}

\* What a running evaluation has read can bear a decision: a verdict not mixed with
\* another answer's is of an answer found valid, as is all that stands in for one.
SeenSound ==
  /\ DOMAIN seen = SeenFields
  /\ seen.now \in Int /\ seen.source \in Int
  /\ seen.candidate \in BOOLEAN /\ seen.output \in BOOLEAN
  /\ seen.compiled \in {"none", "evidence", "grounded"}
  /\ seen.valid /\ ~seen.mixed => \E a \in answers : a.day = seen.source
  /\ seen.good \subseteq answers

Reads == at[1] \in {"step 2 dry run", "step 3 dry run", "write"}

\* The answer on disk is the one whose verdict is about to be written.
BeingJudged ==
  at[1] \in {"candidate", "validation"} => mixed /\ payload = {a.day : a \in raw}

\* Once it is found valid, its date and universe are among the answers'.
BeingKept ==
  at[1] \in {"last good", "last good metadata"} =>
    \A d \in payload : [day |-> d, universe |-> settings.universe] \in answers

VerdictStands ==
  ~mixed /\ validated => \A d \in payload : \E a \in answers : a.day = d

AnswersTyped ==
  /\ answers \subseteq [day : Dates, universe : Universes]
  /\ raw \subseteq [day : Dates, valid : BOOLEAN]

\* Inductive: what stands on disk, and what the running command holds in hand.
AvailInv ==
  /\ DecisionSound
  /\ AnswersTyped /\ BeingJudged /\ BeingKept /\ VerdictStands
  /\ goodMeta \subseteq answers
  /\ Reads => SeenSound

LEMMA SettingsTyped ==
  ASSUME settings \in Choices
  PROVE  settings.day \in Int /\ settings.universe \in Universes \cup {NoUniverse}
BY AvailabilityAssumption

\* A state names the rung of the ladder it came from.
LEMMA LegacyRungs ==
  ASSUME NEW i, i.candidate \in BOOLEAN, i.output \in BOOLEAN
  PROVE  /\ Legacy(i) \in {"STRICT_FRESH", "STRICT_STALE", "MANUAL_REVIEW_REQUIRED",
                           "DEGRADED_WITH_LAST_GOOD", "INVALID_CONTRACT",
                           "DEGRADED_NO_RESEARCH", "NO_OUTPUT"}
         /\ Legacy(i) = "STRICT_FRESH" => i.valid /\ ClassifyCurrentValid(i) = "STRICT_FRESH"
         /\ Legacy(i) = "DEGRADED_WITH_LAST_GOOD" =>
              i.good # {} /\ \A g \in i.good : Usable(i, g)
<1>1. ClassifyCurrentValid(i) \in {"STRICT_FRESH", "STRICT_STALE", "MANUAL_REVIEW_REQUIRED"}
  BY DEF ClassifyCurrentValid
<1>2. CASE i.good # {}
  <2>1. ClassifyFallback(i) = IF \A g \in i.good : Usable(i, g)
                              THEN "DEGRADED_WITH_LAST_GOOD" ELSE "MANUAL_REVIEW_REQUIRED"
    BY <1>2 DEF ClassifyFallback
  <2> QED BY <1>1, <1>2, <2>1 DEF Legacy
<1>3. CASE i.good = {}
  <2>1. ClassifyFallback(i) \in {"INVALID_CONTRACT", "DEGRADED_NO_RESEARCH", "NO_OUTPUT"}
    BY <1>3 DEF ClassifyFallback
  <2> QED BY <1>1, <2>1 DEF Legacy
<1> QED BY <1>2, <1>3

LEMMA PromotionRungs ==
  ASSUME NEW i, i.candidate \in BOOLEAN, i.output \in BOOLEAN
  PROVE  /\ Promotion(i) \in States
         /\ Promotion(i) \in {"STRICT_FRESH", "DEGRADED_WITH_LAST_GOOD"} =>
              Legacy(i) = Promotion(i)
         /\ Promotion(i) \in {"STEP2_DECISION_ONLY", "STEP3_AUDIT_ONLY"} =>
              Recognised(i) /\ UpgradeOk(i, i.step2)
         /\ Promotion(i) = "STEP3_AUDIT_ONLY" => UpgradeOk(i, i.step3)
<1>1. Compiled(i) \in {Legacy(i), "MANUAL_REVIEW_REQUIRED", "GROUNDED", "EVIDENCE_ONLY"}
  BY DEF Compiled
<1>2. /\ Pending(i) \in {Compiled(i), "PENDING_GATES"}
      /\ Pending(i) = "PENDING_GATES" => Compiled(i) = "PENDING_GATES" \/ Recognised(i)
  BY DEF Pending
<1>3. /\ Promotion(i) \in {Pending(i), "STEP2_DECISION_ONLY", "STEP3_AUDIT_ONLY"}
      /\ Promotion(i) # Pending(i) => Pending(i) = "PENDING_GATES" /\ UpgradeOk(i, i.step2)
      /\ Promotion(i) = "STEP3_AUDIT_ONLY" /\ Promotion(i) # Pending(i) => UpgradeOk(i, i.step3)
  BY DEF Promotion
<1> QED BY <1>1, <1>2, <1>3, LegacyRungs DEF States

LEMMA EvaluatedRungs ==
  ASSUME NEW i, i.candidate \in BOOLEAN, i.output \in BOOLEAN
  PROVE  /\ Evaluated(i) \in States
         /\ Evaluated(i) \in {"STRICT_FRESH", "DEGRADED_WITH_LAST_GOOD",
                              "STEP2_DECISION_ONLY", "STEP3_AUDIT_ONLY"} =>
              Evaluated(i) = Promotion(i)
<1>1. Evaluated(i) \in {Promotion(i), "MANUAL_REVIEW_REQUIRED", "H1_MAPPED_FRESH"}
  BY DEF Evaluated
<1> QED BY <1>1, PromotionRungs DEF States

\* Each of the permissions says what it was computed from.
LEMMA FreshJudged ==
  ASSUME NEW i, i.candidate \in BOOLEAN, i.output \in BOOLEAN, i.now \in Int, i.source \in Int,
         Evaluated(i) = "STRICT_FRESH"
  PROVE  /\ i.valid /\ i.now - i.source \in 0..FreshDays
         /\ Basis(i) = [now |-> i.now, source |-> i.source, mixed |-> i.mixed]
<1>1. i.valid /\ ClassifyCurrentValid(i) = "STRICT_FRESH"
  BY EvaluatedRungs, PromotionRungs, LegacyRungs
<1>2. /\ ~OutOfRange(i, i.source) /\ Dated(i, i.source)
      /\ i.now - i.source <= FreshDays
  BY <1>1 DEF ClassifyCurrentValid
<1>3. i.now - i.source \in 0..StaleDays
  BY <1>2 DEF OutOfRange
<1>4. i.now - i.source \in 0..FreshDays
  BY <1>2, <1>3, AvailabilityAssumption
<1> QED BY <1>1, <1>4 DEF Basis

LEMMA FallbackJudged ==
  ASSUME NEW i, i.candidate \in BOOLEAN, i.output \in BOOLEAN,
         Evaluated(i) = "DEGRADED_WITH_LAST_GOOD"
  PROVE  /\ \E g \in i.good : g.universe = i.universe /\ i.now - g.day \in 0..StaleDays
         /\ Basis(i) = [now |-> i.now, universe |-> i.universe]
<1>1. i.good # {} /\ \A g \in i.good : Usable(i, g)
  BY EvaluatedRungs, PromotionRungs, LegacyRungs
<1>2. PICK g \in i.good : Usable(i, g)
  BY <1>1
<1>3. g.universe = i.universe /\ i.now - g.day \in 0..StaleDays
  BY <1>2 DEF Usable, Within
<1> QED BY <1>3 DEF Basis

LEMMA PromotionJudged ==
  ASSUME NEW i, i.candidate \in BOOLEAN, i.output \in BOOLEAN,
         Evaluated(i) \in {"STEP2_DECISION_ONLY", "STEP3_AUDIT_ONLY"}
  PROVE  /\ Recognised(i) /\ UpgradeOk(i, i.step2)
         /\ Evaluated(i) = "STEP3_AUDIT_ONLY" => UpgradeOk(i, i.step3)
         /\ Basis(i) = [now |-> i.now, pointer |-> i.pointer, effective |-> i.effective,
                        step2 |-> i.step2, step3 |-> i.step3]
<1>1. Recognised(i) /\ UpgradeOk(i, i.step2)
      /\ (Evaluated(i) = "STEP3_AUDIT_ONLY" => UpgradeOk(i, i.step3))
  BY EvaluatedRungs, PromotionRungs
<1> QED BY <1>1 DEF Basis

LEMMA AvailInitInv == AvailInit => AvailInv
<1> SUFFICES ASSUME AvailInit PROVE AvailInv
  OBVIOUS
<1>1. AvailTypeOK
  <2>1. edits \in 0..MaxEdits
    BY AvailabilityAssumption DEF AvailInit
  <2> QED BY <2>1 DEF AvailInit, AvailTypeOK, NoDecision
<1>2. OrdersFromFreshResearch /\ PromotionAgreed /\ FallbackStoodOnce
  BY DEF AvailInit, NoDecision, OrdersFromFreshResearch, PromotionAgreed, FallbackStoodOnce
<1>3. at[1] = "idle"
  BY DEF AvailInit, Idle
<1> QED
  BY <1>1, <1>2, <1>3 DEF AvailInit, AvailInv, DecisionSound, AnswersTyped, BeingJudged, BeingKept,
     VerdictStands, Reads

\* The parts of a decision's soundness that a step leaving it alone keeps.
LEMMA DecisionKept ==
  ASSUME AvailInv, UNCHANGED <<decision, judged>>, answers \subseteq answers'
  PROVE  (OrdersFromFreshResearch /\ PromotionAgreed /\ FallbackStoodOnce)'
<1> USE DEF AvailInv, DecisionSound
<1>1. OrdersFromFreshResearch'
  BY DEF OrdersFromFreshResearch
<1>2. PromotionAgreed'
  BY DEF PromotionAgreed
<1>3. FallbackStoodOnce'
  BY DEF FallbackStoodOnce
<1> QED BY <1>1, <1>2, <1>3

LEMMA NothingDecided ==
  ASSUME decision' \in {"NO_OUTPUT", NoDecision}
  PROVE  (OrdersFromFreshResearch /\ PromotionAgreed /\ FallbackStoodOnce)'
BY DEF NoDecision, OrdersFromFreshResearch, PromotionAgreed, FallbackStoodOnce

Elsewhere == at[1] \notin {"candidate", "validation", "last good", "last good metadata"}

\* A step that leaves the research and its history alone keeps what is said of them.
LEMMA ResearchKept ==
  ASSUME AvailInv, UNCHANGED <<settings, raw, payload, validated, goodMeta, answers, mixed>>,
         Elsewhere'
  PROVE  /\ (AnswersTyped /\ BeingJudged /\ BeingKept /\ VerdictStands)'
         /\ goodMeta' \subseteq answers'
<1> USE DEF AvailInv, Elsewhere
<1>1. AnswersTyped'
  BY DEF AnswersTyped
<1>2. VerdictStands'
  BY DEF VerdictStands
<1> QED BY <1>1, <1>2 DEF BeingJudged, BeingKept

LEMMA SeenKept ==
  ASSUME AvailInv, UNCHANGED <<at, seen, answers>>
  PROVE  Reads' => SeenSound'
BY DEF AvailInv, Reads, SeenSound

LEMMA AvailStep == AvailInv /\ [AvailNext]_avail => AvailInv'
<1> SUFFICES ASSUME AvailInv, [AvailNext]_avail PROVE AvailInv'
  OBVIOUS
<1>a. AvailTypeOK /\ settings.day \in Int /\ settings.universe \in Universes \cup {NoUniverse}
  BY SettingsTyped DEF AvailInv, DecisionSound, AvailTypeOK
<1>b. /\ OrdersFromFreshResearch /\ PromotionAgreed /\ FallbackStoodOnce
      /\ AnswersTyped /\ BeingJudged /\ BeingKept /\ VerdictStands
      /\ goodMeta \subseteq answers /\ (Reads => SeenSound)
  BY DEF AvailInv, DecisionSound
<1>q. ASSUME AvailTypeOK', (OrdersFromFreshResearch /\ PromotionAgreed /\ FallbackStoodOnce)',
             (AnswersTyped /\ BeingJudged /\ BeingKept /\ VerdictStands)',
             goodMeta' \subseteq answers', Reads' => SeenSound'
      PROVE  AvailInv'
  BY <1>q DEF AvailInv, DecisionSound
<1> USE DEF research, promoted, step2
<1>1. CASE EditSettings
  <2>1. AvailTypeOK'
    BY <1>1, <1>a, AvailabilityAssumption DEF EditSettings, AvailTypeOK
  <2>2. at[1] = "idle" /\ at' = at
    BY <1>1 DEF EditSettings, Idle
  <2>3. (OrdersFromFreshResearch /\ PromotionAgreed /\ FallbackStoodOnce)'
    BY <1>1, DecisionKept DEF EditSettings
  <2>4. (AnswersTyped /\ BeingJudged /\ BeingKept /\ VerdictStands)'
    BY <1>1, <1>b, <2>2 DEF EditSettings, AnswersTyped, BeingJudged, BeingKept, VerdictStands
  <2> QED BY <1>1, <1>b, <1>q, <2>1, <2>2, <2>3, <2>4, SeenKept DEF EditSettings
<1>2. CASE PasteAnswer
  <2>1. AvailTypeOK'
    BY <1>2, <1>a, AvailabilityAssumption DEF PasteAnswer, AvailTypeOK
  <2>2. at[1] = "idle" /\ at' = at
    BY <1>2 DEF PasteAnswer, Idle
  <2>3. (OrdersFromFreshResearch /\ PromotionAgreed /\ FallbackStoodOnce)'
    BY <1>2, DecisionKept DEF PasteAnswer
  <2>4. raw' \subseteq [day : Dates, valid : BOOLEAN]
    <3>1. PICK new \in {{}} \cup {{[day |-> d, valid |-> v]} : d \in Dates, v \in BOOLEAN} :
            raw' = new
      BY <1>2 DEF PasteAnswer
    <3> QED BY <3>1
  <2>5. (AnswersTyped /\ BeingJudged /\ BeingKept /\ VerdictStands)'
    BY <1>2, <1>b, <2>2, <2>4 DEF PasteAnswer, AnswersTyped, BeingJudged, BeingKept, VerdictStands
  <2> QED BY <1>2, <1>b, <1>q, <2>1, <2>2, <2>3, <2>5, SeenKept DEF PasteAnswer
<1>3. CASE Promote
  <2>a. /\ pointer' \subseteq [handoff : Compilations, until : Dates]
        /\ effective' \subseteq Compilations /\ checked' \in BOOLEAN
        /\ compiled' \in {"none", "evidence", "grounded"}
    <3>1. CASE compiled' \in {"evidence", "grounded"} /\ pointer' = {} /\ effective' = {}
               /\ checked' = FALSE
      BY <3>1
    <3>2. ASSUME NEW h \in Compilations, NEW d \in Dates, compiled' = "grounded",
                 pointer' = {[handoff |-> h, until |-> d]}, effective' = {h}, checked' = TRUE
          PROVE  /\ pointer' \subseteq [handoff : Compilations, until : Dates]
                 /\ effective' \subseteq Compilations /\ checked' \in BOOLEAN
                 /\ compiled' \in {"none", "evidence", "grounded"}
      BY <3>2
    <3> QED BY <1>3, <3>1, <3>2 DEF Promote
  <2>b. edits' \in 0..MaxEdits
    BY <1>3, <1>a, AvailabilityAssumption DEF Promote, AvailTypeOK
  <2>1. AvailTypeOK'
    BY <1>3, <1>a, <2>a, <2>b DEF Promote, AvailTypeOK
  <2>2. Elsewhere'
    BY <1>3 DEF Promote, Idle, Elsewhere
  <2>3. (OrdersFromFreshResearch /\ PromotionAgreed /\ FallbackStoodOnce)'
    BY <1>3, DecisionKept DEF Promote
  <2> QED BY <1>3, <1>q, <2>1, <2>2, <2>3, ResearchKept, SeenKept DEF Promote
<1>4. CASE Overwrite
  <2>a. /\ pointer' \subseteq [handoff : Compilations, until : Dates]
        /\ effective' \subseteq Compilations /\ checked' \in BOOLEAN
    <3>1. ASSUME NEW ps \in SUBSET [handoff : Compilations, until : Dates],
                 NEW hs \in SUBSET Compilations, NEW valid \in BOOLEAN, Replaced(ps, hs, valid)
          PROVE  /\ pointer' \subseteq [handoff : Compilations, until : Dates]
                 /\ effective' \subseteq Compilations /\ checked' \in BOOLEAN
      BY <1>a, <3>1 DEF Replaced, AvailTypeOK
    <3>2. CASE Replaced({}, {}, FALSE)
      BY <3>1, <3>2
    <3>3. ASSUME NEW h \in Compilations, NEW d \in Dates,
                 Replaced({[handoff |-> h, until |-> d]}, {h}, TRUE)
          PROVE  /\ pointer' \subseteq [handoff : Compilations, until : Dates]
                 /\ effective' \subseteq Compilations /\ checked' \in BOOLEAN
      <4>1. {[handoff |-> h, until |-> d]} \in SUBSET [handoff : Compilations, until : Dates]
        OBVIOUS
      <4>2. {h} \in SUBSET Compilations
        OBVIOUS
      <4> QED BY <3>1, <3>3, <4>1, <4>2
    <3> QED BY <1>4, <3>2, <3>3 DEF Overwrite
  <2>c. /\ UNCHANGED <<settings, raw, research, compiled, step2, decision, at, seen,
                        answers, mixed, judged>>
        /\ at[1] \in {"evaluate", "step 2 dry run", "step 3 dry run"}
        /\ edits < MaxEdits /\ edits' = edits + 1
    BY <1>4 DEF Overwrite
  <2>b. edits' \in 0..MaxEdits
    <3>1. edits < MaxEdits /\ edits' = edits + 1
      BY <2>c
    <3>2. edits \in 0..MaxEdits /\ MaxEdits \in Nat
      BY <1>a, AvailabilityAssumption DEF AvailTypeOK
    <3> QED BY <3>1, <3>2
  <2>1. AvailTypeOK'
    BY <1>a, <2>a, <2>b, <2>c DEF AvailTypeOK
  <2>2. Elsewhere'
    BY <2>c DEF Elsewhere
  <2>3. (OrdersFromFreshResearch /\ PromotionAgreed /\ FallbackStoodOnce)'
    BY <2>c, DecisionKept
  <2> QED BY <1>q, <2>c, <2>1, <2>2, <2>3, ResearchKept, SeenKept
<1>5. CASE ExtractResearch
  <2>1. AvailTypeOK'
    BY <1>5, <1>a, <1>b DEF ExtractResearch, AvailTypeOK, AnswersTyped
  <2>2. at'[1] = "candidate" /\ mixed' = TRUE /\ payload' = {a.day : a \in raw'}
    BY <1>5 DEF ExtractResearch
  <2>3. (OrdersFromFreshResearch /\ PromotionAgreed /\ FallbackStoodOnce)'
    BY <1>5, DecisionKept DEF ExtractResearch
  <2>4. (AnswersTyped /\ BeingJudged /\ BeingKept /\ VerdictStands)'
    BY <1>5, <1>b, <2>2 DEF ExtractResearch, AnswersTyped, BeingJudged, BeingKept, VerdictStands
  <2> QED BY <1>5, <1>b, <1>q, <2>1, <2>2, <2>3, <2>4 DEF ExtractResearch, Reads
<1>6. CASE ExtractionFails
  <2>1. AvailTypeOK'
    BY <1>6, <1>a DEF ExtractionFails, AvailTypeOK
  <2>2. at'[1] = "no output"
    BY <1>6 DEF ExtractionFails
  <2>3. (OrdersFromFreshResearch /\ PromotionAgreed /\ FallbackStoodOnce)'
    BY <1>6, DecisionKept DEF ExtractionFails
  <2> QED BY <1>6, <1>q, <2>1, <2>2, <2>3, ResearchKept DEF ExtractionFails, Elsewhere, Reads
<1>7. CASE WriteCandidate
  <2>1. AvailTypeOK'
    BY <1>7, <1>a DEF WriteCandidate, AvailTypeOK
  <2>2. at[1] = "candidate" /\ at' = <<"validation">>
    BY <1>7 DEF WriteCandidate
  <2>3. (OrdersFromFreshResearch /\ PromotionAgreed /\ FallbackStoodOnce)'
    BY <1>7, DecisionKept DEF WriteCandidate
  <2>4. (AnswersTyped /\ BeingJudged /\ BeingKept /\ VerdictStands)'
    BY <1>7, <1>b, <2>2 DEF WriteCandidate, AnswersTyped, BeingJudged, BeingKept, VerdictStands
  <2> QED BY <1>7, <1>b, <1>q, <2>1, <2>2, <2>3, <2>4 DEF WriteCandidate, Reads
<1>8. CASE WriteValidation
  <2> DEFINE found == {[day |-> a.day, universe |-> settings.universe] : a \in raw}
  <2>1. AvailTypeOK'
    BY <1>8, <1>a DEF WriteValidation, AvailTypeOK
  <2>2. payload = {a.day : a \in raw}
    BY <1>8, <1>b DEF WriteValidation, BeingJudged
  <2>3. answers \subseteq answers' /\ (validated' => found \subseteq answers')
    BY <1>8 DEF WriteValidation
  <2>4. (OrdersFromFreshResearch /\ PromotionAgreed /\ FallbackStoodOnce)'
    BY <1>8, <2>3, DecisionKept DEF WriteValidation
  <2>5. AnswersTyped'
    <3>1. validated' => settings.universe \in Universes
      BY <1>8, <1>a DEF WriteValidation
    <3>2. \A a \in raw : a.day \in Dates
      BY <1>b DEF AnswersTyped
    <3>3. validated' => found \subseteq [day : Dates, universe : Universes]
      BY <3>1, <3>2
    <3>4. answers' = IF validated' THEN answers \cup found ELSE answers
      BY <1>8 DEF WriteValidation
    <3>5. raw' = raw
      BY <1>8 DEF WriteValidation
    <3> QED BY <1>b, <3>3, <3>4, <3>5 DEF AnswersTyped
  <2>6. validated' => \A d \in payload : [day |-> d, universe |-> settings.universe] \in answers'
    BY <2>2, <2>3
  <2>7. at'[1] \in {"last good", "evaluate"} /\ (at'[1] = "last good" => validated')
    BY <1>8 DEF WriteValidation
  <2>8. (BeingJudged /\ BeingKept)'
    BY <1>8, <2>6, <2>7 DEF WriteValidation, BeingJudged, BeingKept
  <2>9. VerdictStands'
    BY <1>8, <2>6 DEF WriteValidation, VerdictStands
  <2>10. goodMeta' \subseteq answers'
    BY <1>8, <1>b, <2>3 DEF WriteValidation
  <2> QED BY <1>q, <2>1, <2>4, <2>5, <2>7, <2>8, <2>9, <2>10 DEF Reads
<1>9. CASE WriteLastGood
  <2>1. AvailTypeOK'
    BY <1>9, <1>a DEF WriteLastGood, AvailTypeOK
  <2>2. at[1] = "last good" /\ at'[1] \in {"last good metadata", "evaluate"}
    <3>1. CASE at' = <<"last good metadata">>
      BY <1>9, <3>1 DEF WriteLastGood
    <3>2. CASE at' = <<"evaluate", {}>>
      <4>1. at'[1] = "evaluate"
        BY <3>2
      <4> QED BY <1>9, <4>1 DEF WriteLastGood
    <3> QED BY <1>9, <3>1, <3>2, Zenon DEF WriteLastGood
  <2>3. (OrdersFromFreshResearch /\ PromotionAgreed /\ FallbackStoodOnce)'
    BY <1>9, DecisionKept DEF WriteLastGood
  <2>4. (AnswersTyped /\ BeingJudged /\ BeingKept /\ VerdictStands)'
    BY <1>9, <1>b, <2>2 DEF WriteLastGood, AnswersTyped, BeingJudged, BeingKept, VerdictStands
  <2> QED BY <1>9, <1>b, <1>q, <2>1, <2>2, <2>3, <2>4 DEF WriteLastGood, Reads
<1>10. CASE WriteLastGoodMetadata
  <2>1. at[1] = "last good metadata" /\ at'[1] = "evaluate"
    BY <1>10 DEF WriteLastGoodMetadata
  <2>2. goodMeta' \subseteq answers
    <3> DEFINE kept == {[day |-> d, universe |-> settings.universe] : d \in payload}
    <3>1. kept \subseteq answers
      BY <1>b, <2>1 DEF BeingKept
    <3>2. goodMeta' \in {goodMeta, {}, kept}
      BY <1>10 DEF WriteLastGoodMetadata
    <3> HIDE DEF kept
    <3> QED BY <1>b, <3>1, <3>2
  <2>3. AvailTypeOK'
    BY <1>10, <1>a, <1>b, <2>2 DEF WriteLastGoodMetadata, AvailTypeOK, AnswersTyped
  <2>4. (OrdersFromFreshResearch /\ PromotionAgreed /\ FallbackStoodOnce)'
    BY <1>10, DecisionKept DEF WriteLastGoodMetadata
  <2>5. (AnswersTyped /\ BeingJudged /\ BeingKept /\ VerdictStands)'
    BY <1>10, <1>b, <2>1 DEF WriteLastGoodMetadata, AnswersTyped, BeingJudged, BeingKept, VerdictStands
  <2> QED BY <1>10, <1>q, <2>1, <2>2, <2>3, <2>4, <2>5 DEF WriteLastGoodMetadata, Reads
<1>11. CASE Evaluate
  <2>1. AvailTypeOK'
    BY <1>11, <1>a DEF Evaluate, AvailTypeOK
  <2>2. Elsewhere'
    BY <1>11 DEF Evaluate, Elsewhere
  <2>3. (OrdersFromFreshResearch /\ PromotionAgreed /\ FallbackStoodOnce)'
    BY <1>11, DecisionKept DEF Evaluate
  <2>4. SeenSound'
    <3>1. PICK origin \in payload :
            seen' = [valid |-> validated, candidate |-> TRUE, output |-> TRUE, source |-> origin,
                     now |-> IF settings.day # Missing THEN settings.day ELSE origin,
                     stamp |-> settings.day, universe |-> settings.universe,
                     good |-> ReadLastGood, compiled |-> compiled, pointer |-> pointer,
                     effective |-> effective, checked |-> checked, facts |-> at[2],
                     step2 |-> {}, step3 |-> {}, mixed |-> mixed]
      BY <1>11 DEF Evaluate
    <3>2. origin \in Int
      BY <1>a DEF AvailTypeOK, Dates
    <3>3. DOMAIN seen' = SeenFields
      BY <3>1 DEF SeenFields
    <3>4. seen'.now \in Int /\ seen'.source = origin /\ seen'.candidate = TRUE
          /\ seen'.output = TRUE /\ seen'.compiled = compiled /\ seen'.valid = validated
          /\ seen'.mixed = mixed /\ seen'.good = ReadLastGood
      BY <3>1, <3>2, <1>a
    <3>5. ReadLastGood \subseteq answers
      BY <1>b DEF ReadLastGood
    <3>6. answers' = answers
      BY <1>11 DEF Evaluate
    <3> QED BY <1>a, <1>b, <3>2, <3>3, <3>4, <3>5, <3>6 DEF SeenSound, VerdictStands, AvailTypeOK
  <2> QED BY <1>11, <1>q, <2>1, <2>2, <2>3, <2>4, ResearchKept DEF Evaluate
<1>12. CASE WritePromotedStep2DryRun
  <2>1. AvailTypeOK'
    BY <1>12, <1>a DEF WritePromotedStep2DryRun, AvailTypeOK
  <2>2. Elsewhere' /\ Reads
    BY <1>12 DEF WritePromotedStep2DryRun, Elsewhere, Reads
  <2>3. (OrdersFromFreshResearch /\ PromotionAgreed /\ FallbackStoodOnce)'
    BY <1>12, DecisionKept DEF WritePromotedStep2DryRun
  <2>4. SeenSound'
    BY <1>12, <1>b, <2>2 DEF WritePromotedStep2DryRun, SeenSound, SeenFields
  <2> QED BY <1>12, <1>q, <2>1, <2>2, <2>3, <2>4, ResearchKept DEF WritePromotedStep2DryRun
<1>13. CASE WritePromotedStep3DryRun
  <2>1. AvailTypeOK'
    BY <1>13, <1>a DEF WritePromotedStep3DryRun, AvailTypeOK
  <2>2. Elsewhere' /\ Reads
    BY <1>13 DEF WritePromotedStep3DryRun, Elsewhere, Reads
  <2>3. (OrdersFromFreshResearch /\ PromotionAgreed /\ FallbackStoodOnce)'
    BY <1>13, DecisionKept DEF WritePromotedStep3DryRun
  <2>4. SeenSound'
    BY <1>13, <1>b, <2>2 DEF WritePromotedStep3DryRun, SeenSound, SeenFields
  <2> QED BY <1>13, <1>q, <2>1, <2>2, <2>3, <2>4, ResearchKept DEF WritePromotedStep3DryRun
<1>14. CASE EvaluateNoOutput
  <2>1. AvailTypeOK'
    BY <1>14, <1>a DEF EvaluateNoOutput, AvailTypeOK
  <2>2. Elsewhere'
    BY <1>14 DEF EvaluateNoOutput, Elsewhere
  <2>3. (OrdersFromFreshResearch /\ PromotionAgreed /\ FallbackStoodOnce)'
    BY <1>14, DecisionKept DEF EvaluateNoOutput
  <2>4. SeenSound'
    <3>1. ReadLastGood \subseteq answers
      BY <1>b DEF ReadLastGood
    <3>2. DOMAIN seen' = SeenFields
      BY <1>14 DEF EvaluateNoOutput, SeenFields
    <3>3. /\ seen'.now = settings.day /\ seen'.source = Missing /\ seen'.candidate = FALSE
          /\ seen'.output = FALSE /\ seen'.compiled = "none" /\ seen'.valid = FALSE
          /\ seen'.good = ReadLastGood /\ answers' = answers
      BY <1>14 DEF EvaluateNoOutput
    <3>4. ~seen'.valid
      BY <3>3
    <3>5. seen'.now \in Int /\ seen'.source \in Int /\ seen'.good \subseteq answers'
      BY <1>a, <3>1, <3>3 DEF Missing
    <3>6. seen'.candidate \in BOOLEAN /\ seen'.output \in BOOLEAN
      BY <3>3
    <3> QED BY <3>2, <3>3, <3>4, <3>5, <3>6 DEF SeenSound
  <2> QED BY <1>14, <1>q, <2>1, <2>2, <2>3, <2>4, ResearchKept DEF EvaluateNoOutput
<1>15. CASE PersistDecision
  <2>1. at[1] = "write" /\ decision' = Evaluated(seen) /\ judged' = Basis(seen) /\ at' = Idle
        /\ answers' = answers
    BY <1>15 DEF PersistDecision
  <2>2. SeenSound
    BY <1>b, <2>1 DEF Reads
  <2>3. /\ seen.candidate \in BOOLEAN /\ seen.output \in BOOLEAN
        /\ seen.now \in Int /\ seen.source \in Int
    BY <2>2 DEF SeenSound
  <2>4. AvailTypeOK'
    BY <1>15, <1>a, <2>1, <2>3, EvaluatedRungs DEF PersistDecision, AvailTypeOK
  <2>5. OrdersFromFreshResearch'
    <3> SUFFICES ASSUME Evaluated(seen) = "STRICT_FRESH" PROVE OrdersFromFreshResearch'
      BY <2>1 DEF OrdersFromFreshResearch
    <3>1. /\ seen.valid /\ seen.now - seen.source \in 0..FreshDays
          /\ judged' = [now |-> seen.now, source |-> seen.source, mixed |-> seen.mixed]
      BY <2>1, <2>3, FreshJudged
    <3>2. judged'.now = seen.now /\ judged'.source = seen.source /\ judged'.mixed = seen.mixed
      BY <3>1
    <3>3. ~seen.mixed => \E a \in answers' : a.day = seen.source
      BY <2>1, <2>2, <3>1 DEF SeenSound
    <3> QED BY <3>1, <3>2, <3>3 DEF OrdersFromFreshResearch
  <2>6. FallbackStoodOnce'
    <3> SUFFICES ASSUME Evaluated(seen) = "DEGRADED_WITH_LAST_GOOD" PROVE FallbackStoodOnce'
      BY <2>1 DEF FallbackStoodOnce
    <3>1. /\ \E g \in seen.good : g.universe = seen.universe /\ seen.now - g.day \in 0..StaleDays
          /\ judged' = [now |-> seen.now, universe |-> seen.universe]
      BY <2>1, <2>3, FallbackJudged
    <3>2. judged'.now = seen.now /\ judged'.universe = seen.universe
      BY <3>1
    <3>3. seen.good \subseteq answers'
      BY <2>1, <2>2 DEF SeenSound
    <3> QED BY <3>1, <3>2, <3>3 DEF FallbackStoodOnce
  <2>7. PromotionAgreed'
    <3> SUFFICES ASSUME Evaluated(seen) \in {"STEP2_DECISION_ONLY", "STEP3_AUDIT_ONLY"}
                 PROVE  PromotionAgreed'
      BY <2>1 DEF PromotionAgreed
    <3>1. /\ Recognised(seen) /\ UpgradeOk(seen, seen.step2)
          /\ Evaluated(seen) = "STEP3_AUDIT_ONLY" => UpgradeOk(seen, seen.step3)
          /\ judged' = [now |-> seen.now, pointer |-> seen.pointer, effective |-> seen.effective,
                        step2 |-> seen.step2, step3 |-> seen.step3]
      BY <2>1, <2>3, PromotionJudged
    <3>2. /\ judged'.now = seen.now /\ judged'.pointer = seen.pointer
          /\ judged'.effective = seen.effective /\ judged'.step2 = seen.step2
          /\ judged'.step3 = seen.step3
      BY <3>1
    <3>3. PICK p \in seen.pointer : p.until >= seen.now /\ seen.effective = {p.handoff}
      BY <3>1 DEF Recognised
    <3>4. PICK v \in seen.step2 : v.until >= seen.now /\ seen.effective = {v.handoff}
      BY <3>1 DEF UpgradeOk
    <3>5. p.handoff = v.handoff
      BY <3>3, <3>4
    <3>6. Evaluated(seen) = "STEP3_AUDIT_ONLY" =>
            \E w \in seen.step3 : w.handoff = v.handoff /\ w.until >= seen.now
      BY <3>1, <3>4 DEF UpgradeOk
    <3> QED BY <2>1, <3>2, <3>3, <3>4, <3>5, <3>6 DEF PromotionAgreed
  <2>8. Elsewhere' /\ ~Reads'
    BY <2>1 DEF Elsewhere, Reads, Idle
  <2> QED BY <1>15, <1>q, <2>4, <2>5, <2>6, <2>7, <2>8, ResearchKept DEF PersistDecision
<1>16. CASE WriteFails
  <2>1. AvailTypeOK'
    BY <1>16, <1>a DEF WriteFails, AvailTypeOK
  <2>2. Elsewhere' /\ ~Reads'
    BY <1>16 DEF WriteFails, Elsewhere, Reads, Idle
  <2>3. (OrdersFromFreshResearch /\ PromotionAgreed /\ FallbackStoodOnce)'
    BY <1>16, DecisionKept, NothingDecided DEF WriteFails
  <2> QED BY <1>16, <1>q, <2>1, <2>2, <2>3, ResearchKept DEF WriteFails
<1>17. CASE WriteFallback
  <2>1. AvailTypeOK'
    BY <1>17, <1>a DEF WriteFallback, AvailTypeOK, States
  <2>2. Elsewhere' /\ ~Reads'
    BY <1>17 DEF WriteFallback, Elsewhere, Reads, Idle
  <2>3. (OrdersFromFreshResearch /\ PromotionAgreed /\ FallbackStoodOnce)'
    BY <1>17, DecisionKept, NothingDecided DEF WriteFallback
  <2> QED BY <1>17, <1>q, <2>1, <2>2, <2>3, ResearchKept DEF WriteFallback
<1>18. CASE ParseStep2
  <2>1. AvailTypeOK'
    BY <1>18, <1>a DEF ParseStep2, AvailTypeOK
  <2>2. Elsewhere'
    BY <1>18 DEF ParseStep2, Elsewhere, Idle
  <2>3. (OrdersFromFreshResearch /\ PromotionAgreed /\ FallbackStoodOnce)'
    BY <1>18, DecisionKept DEF ParseStep2
  <2> QED BY <1>18, <1>q, <2>1, <2>2, <2>3, ResearchKept, SeenKept DEF ParseStep2
<1>19. CASE RenderPromotedStep2
  <2>1. AvailTypeOK'
    BY <1>19, <1>a DEF RenderPromotedStep2, AvailTypeOK
  <2>2. Elsewhere' /\ ~Reads'
    BY <1>19 DEF RenderPromotedStep2, Elsewhere, Reads
  <2>3. (OrdersFromFreshResearch /\ PromotionAgreed /\ FallbackStoodOnce)'
    BY <1>19, DecisionKept DEF RenderPromotedStep2
  <2> QED BY <1>19, <1>q, <2>1, <2>2, <2>3, ResearchKept DEF RenderPromotedStep2
<1>20. CASE ParsePromotedStep2
  <2>1. AvailTypeOK'
    BY <1>20, <1>a DEF ParsePromotedStep2, AvailTypeOK
  <2>2. Elsewhere' /\ ~Reads'
    BY <1>20 DEF ParsePromotedStep2, Elsewhere, Reads
  <2>3. (OrdersFromFreshResearch /\ PromotionAgreed /\ FallbackStoodOnce)'
    BY <1>20, DecisionKept DEF ParsePromotedStep2
  <2> QED BY <1>20, <1>q, <2>1, <2>2, <2>3, ResearchKept DEF ParsePromotedStep2
<1>21. CASE PersistMarker
  <2>1. AvailTypeOK'
    BY <1>21, <1>a DEF PersistMarker, AvailTypeOK
  <2>2. Elsewhere' /\ ~Reads'
    BY <1>21 DEF PersistMarker, Elsewhere, Reads, Idle
  <2>3. (OrdersFromFreshResearch /\ PromotionAgreed /\ FallbackStoodOnce)'
    BY <1>21, DecisionKept DEF PersistMarker
  <2> QED BY <1>21, <1>q, <2>1, <2>2, <2>3, ResearchKept DEF PersistMarker
<1>22. CASE ClearDecision
  <2>1. AvailTypeOK'
    BY <1>22, <1>a DEF ClearDecision, AvailTypeOK
  <2>a. PICK facts \in {{}} \cup {{f} : f \in Facts} : at' = <<"clear reports", facts>>
    BY <1>22 DEF ClearDecision
  <2>b. at'[1] = "clear reports"
    BY <2>a
  <2>2. Elsewhere' /\ ~Reads'
    BY <2>b DEF Elsewhere, Reads
  <2>3. (OrdersFromFreshResearch /\ PromotionAgreed /\ FallbackStoodOnce)'
    BY <1>22, NothingDecided DEF ClearDecision
  <2> QED BY <1>22, <1>q, <2>1, <2>2, <2>3, ResearchKept DEF ClearDecision
<1>23. CASE ClearReports
  <2>1. AvailTypeOK'
    BY <1>23, <1>a DEF ClearReports, AvailTypeOK
  <2>2. Elsewhere' /\ ~Reads'
    BY <1>23 DEF ClearReports, Elsewhere, Reads, Idle
  <2>3. (OrdersFromFreshResearch /\ PromotionAgreed /\ FallbackStoodOnce)'
    BY <1>23, DecisionKept DEF ClearReports
  <2> QED BY <1>23, <1>q, <2>1, <2>2, <2>3, ResearchKept DEF ClearReports
<1>24. CASE Kill
  <2>1. AvailTypeOK'
    BY <1>24, <1>a DEF Kill, AvailTypeOK
  <2>2. Elsewhere' /\ ~Reads'
    BY <1>24 DEF Kill, Elsewhere, Reads, Idle
  <2>3. (OrdersFromFreshResearch /\ PromotionAgreed /\ FallbackStoodOnce)'
    BY <1>24, DecisionKept DEF Kill
  <2> QED BY <1>24, <1>q, <2>1, <2>2, <2>3, ResearchKept DEF Kill
<1>25. CASE UNCHANGED avail
  <2>1. AvailTypeOK'
    BY <1>25, <1>a DEF avail, AvailTypeOK
  <2>2. (OrdersFromFreshResearch /\ PromotionAgreed /\ FallbackStoodOnce)'
    BY <1>25, DecisionKept DEF avail
  <2>3. (AnswersTyped /\ BeingJudged /\ BeingKept /\ VerdictStands)'
    BY <1>25, <1>b DEF avail, AnswersTyped, BeingJudged, BeingKept, VerdictStands
  <2> QED BY <1>25, <1>b, <1>q, <2>1, <2>2, <2>3, SeenKept DEF avail
<1> QED
  BY <1>1, <1>2, <1>3, <1>4, <1>5, <1>6, <1>7, <1>8, <1>9, <1>10, <1>11, <1>12, <1>13, <1>14,
     <1>15, <1>16, <1>17, <1>18, <1>19, <1>20, <1>21, <1>22, <1>23, <1>24, <1>25 DEF AvailNext

\* A decision on disk always allows no more than its sources carry: orders rest on
\* an answer found valid and fresh then, a promoted permission on readings that
\* agree on one handoff, a fallback on an answer of its universe that stood once
\* (evaluate_research_availability and the parse that drives it).
THEOREM DecisionSafe == AvailSpec => []DecisionSound
<1>1. AvailInv => DecisionSound
  BY DEF AvailInv
<1> QED BY <1>1, AvailInitInv, AvailStep, PTL DEF AvailSpec

=============================================================================
