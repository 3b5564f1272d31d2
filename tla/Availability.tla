---------------------------- MODULE Availability ----------------------------
(***************************************************************************)
(* How much a Step 1 result allows.  Every Step 1 parse, every promoted    *)
(* Step 2 parse and every H1 command ends in one evaluation: it reads what *)
(* the parse left (the payload's date and the candidate's validity), the   *)
(* last good handoff, the compiled handoff, the promoted pointer and its   *)
(* effective handoff, climbs a ladder of states and writes the availability*)
(* report and the decision every later step obeys                          *)
(* (state/research_availability.py, driven by workflow/step1_research.py). *)
(*                                                                         *)
(* The evaluation is not one read: after its first pass the two promoted   *)
(* verifications read pointer, effective handoff, marker and packet again  *)
(* from disk, and another command may have replaced a file in between.  A  *)
(* parse may be killed between any two of its writes, and a write that     *)
(* fails is swallowed.  The last good handoff and its metadata are two     *)
(* files written one after the other.                                      *)
(***************************************************************************)
EXTENDS Integers, FiniteSets

CONSTANTS
  DayLimit,   \* dates are 1..DayLimit
  FreshDays,  \* DEFAULT_STALE_POLICY, scaled down
  StaleDays,
  Universes,  \* the ticker universes the settings may name
  Choices,    \* the settings the operator may have: a day, Missing or Unclear
              \* (something that is no date), and a universe or NoUniverse
  NoUniverse,
  Compilations, \* the promoted handoffs; equal hashes are equal values
  Facts,      \* what H1 offers: the days of the oldest fact it requires and of the
              \* newest, the time of its context included
  MaxEdits    \* bound: how often the operator or another command changes a file

ASSUME AvailabilityAssumption ==
  /\ DayLimit \in Nat \ {0}
  /\ NoUniverse \notin Universes
  /\ Choices \subseteq [day : 1..DayLimit \cup {0, -1}, universe : Universes \cup {NoUniverse}]
  /\ FreshDays \in Nat /\ StaleDays \in Nat /\ FreshDays <= StaleDays
  /\ MaxEdits \in Nat
  /\ Facts \subseteq [oldest : 0..DayLimit, newest : 0..DayLimit]

VARIABLES
  settings,     \* strategy settings; unreadable ones have neither day nor universe
  raw,          \* the answer the operator pasted: {} if nothing in it can be extracted
  payload,      \* research_output.json: {} or its as_of date
  candidate,    \* research_handoff_candidate.json is readable
  validated,    \* the candidate's validation on disk says valid
  goodHandoff,  \* last_good_research_handoff.json is readable
  goodMeta,     \* its metadata: {} or the source's date and universe
  compiled,     \* what Step 1C left: "none", "evidence" or "grounded"
  pointer,      \* active_research_handoff_source.json: {} or handoff and expiry
  effective,    \* research_handoff_candidate_effective.json: {} or the handoff
  checked,      \* its validation on disk says valid (and not of which handoff)
  marker,       \* step2_promoted_decision_only.json: {} or what it names
  packet,       \* a valid Step 2 decision packet is on disk
  decision,     \* research_degraded_mode_decision.json: the state it states
  at,           \* where the running command stands
  seen,         \* what the running evaluation has read
  edits,
  answers,      \* history: date and universe of every answer found valid
  mixed,        \* history: the payload was replaced and its validation not yet
  judged        \* history: what the decision on disk was computed from

research == <<payload, candidate, validated, goodHandoff, goodMeta>>
promoted == <<compiled, pointer, effective, checked>>
step2 == <<marker, packet>>
avail == <<settings, raw, research, promoted, step2, decision,
          at, seen, edits, answers, mixed, judged>>

Dates == 1..DayLimit
Missing == 0
Unclear == -1
NoDecision == "none"
Idle == <<"idle">>

States == {"STRICT_FRESH", "STRICT_STALE", "MANUAL_REVIEW_REQUIRED",
           "DEGRADED_WITH_LAST_GOOD", "INVALID_CONTRACT",
           "DEGRADED_NO_RESEARCH", "NO_OUTPUT",
           "EVIDENCE_ONLY", "GROUNDED", "PENDING_GATES",
           "STEP2_DECISION_ONLY", "STEP3_AUDIT_ONLY", "H1_MAPPED_FRESH"}

Replaceable == {"INVALID_CONTRACT", "DEGRADED_NO_RESEARCH", "NO_OUTPUT",
                "DEGRADED_WITH_LAST_GOOD"}

-----------------------------------------------------------------------------
(* The ladder: what an evaluation concludes from what it read. *)

Dated(i, day) == {i.now, day} \cap {Missing, Unclear} = {}
Within(i, day, limit) == Dated(i, day) /\ i.now - day \in 0..limit
OutOfRange(i, day) == Dated(i, day) /\ i.now - day \notin 0..StaleDays

\* A valid candidate is judged by its own date alone.
ClassifyCurrentValid(i) ==
  IF OutOfRange(i, i.source) THEN "MANUAL_REVIEW_REQUIRED"
  ELSE IF Dated(i, i.source) /\ i.now - i.source <= FreshDays THEN "STRICT_FRESH"
  ELSE "STRICT_STALE"

\* Otherwise the last good handoff stands in, or a human is asked.
Usable(i, g) ==
  g.universe = i.universe /\ i.universe # NoUniverse /\ Within(i, g.day, StaleDays)

ClassifyFallback(i) ==
  CASE i.good # {} -> IF \A g \in i.good : Usable(i, g)
                        THEN "DEGRADED_WITH_LAST_GOOD" ELSE "MANUAL_REVIEW_REQUIRED"
    [] i.good = {} /\ i.candidate -> "INVALID_CONTRACT"
    [] i.good = {} /\ ~i.candidate /\ i.output -> "DEGRADED_NO_RESEARCH"
    [] i.good = {} /\ ~i.candidate /\ ~i.output -> "NO_OUTPUT"

Legacy(i) == IF i.valid THEN ClassifyCurrentValid(i) ELSE ClassifyFallback(i)

\* The compiled handoff is dated by the settings; they date the run as well, so
\* its age is none or unknown.
Compiled(i) ==
  IF i.valid \/ i.compiled = "none" \/ Legacy(i) \notin Replaceable THEN Legacy(i)
  ELSE IF Dated(i, i.stamp) /\ i.now < i.stamp THEN "MANUAL_REVIEW_REQUIRED"
  ELSE IF ~Within(i, i.stamp, FreshDays) THEN Legacy(i)
  ELSE IF i.compiled = "grounded" THEN "GROUNDED" ELSE "EVIDENCE_ONLY"

Recognised(i) ==
  /\ \E p \in i.pointer : Dated(i, p.until) /\ p.until >= i.now /\ i.effective = {p.handoff}
  /\ i.checked

Pending(i) ==
  IF Compiled(i) = "GROUNDED" /\ Recognised(i) THEN "PENDING_GATES" ELSE Compiled(i)

\* Mutant: any passing verification upgrades.
UpgradeOkAnyHandoff(i, verification) == \E v \in verification : v.until >= i.now

\* A verification taken later in the run must be about the handoff recognised first.
UpgradeOk(i, verification) ==
  \E v \in verification : v.until >= i.now /\ i.effective = {v.handoff}

Promotion(i) ==
  IF Pending(i) = "PENDING_GATES" /\ UpgradeOk(i, i.step2)
    THEN IF UpgradeOk(i, i.step3) THEN "STEP3_AUDIT_ONLY" ELSE "STEP2_DECISION_ONLY"
    ELSE Pending(i)

H1Freshness(i, f) ==
  IF ~Dated(i, f.oldest) \/ ~Dated(i, f.newest) THEN "unknown"
  ELSE IF f.newest > i.now THEN "future_dated"
  ELSE IF Within(i, f.oldest, FreshDays) THEN "fresh"
  ELSE IF Within(i, f.oldest, StaleDays) THEN "stale" ELSE "too_old"

\* Manual review because the last good handoff has expired and for no other reason.
SolelyExpiredLastGood(i) ==
  /\ ~i.candidate /\ ~i.output /\ Promotion(i) = "MANUAL_REVIEW_REQUIRED"
  /\ \E g \in i.good : Dated(i, g.day) /\ i.now - g.day > StaleDays

Evaluated(i) ==
  LET state == Promotion(i)
      how == {H1Freshness(i, f) : f \in i.facts} IN
  IF how \cap {"future_dated", "too_old"} # {} /\ state \in Replaceable
    THEN "MANUAL_REVIEW_REQUIRED"
  ELSE IF how = {"fresh"} /\ (state \in Replaceable \/ SolelyExpiredLastGood(i))
    THEN "H1_MAPPED_FRESH"
  ELSE state

\* What the conclusion rests on, kept as history beside the decision.
Basis(i) ==
  CASE Evaluated(i) = "STRICT_FRESH" -> [now |-> i.now, source |-> i.source, mixed |-> i.mixed]
    [] Evaluated(i) = "DEGRADED_WITH_LAST_GOOD" -> [now |-> i.now, universe |-> i.universe]
    [] Evaluated(i) \in {"STEP2_DECISION_ONLY", "STEP3_AUDIT_ONLY"} ->
         [now |-> i.now, pointer |-> i.pointer, effective |-> i.effective,
          step2 |-> i.step2, step3 |-> i.step3]
    [] OTHER -> [now |-> Missing]

-----------------------------------------------------------------------------
(* The two verifications, each over what is on disk when it runs. *)

\* Settings without a date leave the verifiers the machine's own date.
Today == IF settings.day \in Dates THEN settings.day ELSE DayLimit

\* The validation on disk names no handoff, so its hash is never compared.
StandsLive(p) == p.until >= Today /\ effective = {p.handoff} /\ checked

\* What a passing verification states: nothing when it does not pass.
Verification(p) == [handoff |-> p.handoff, until |-> p.until]

VerifiedForStep2 == {Verification(p) : p \in {q \in pointer : StandsLive(q)}}

MarkerNames(p) == marker = {[pointer |-> p, effective |-> p.handoff]}

VerifiedForStep3 == {Verification(p) : p \in {q \in pointer : StandsLive(q) /\ MarkerNames(q) /\ packet}}

\* The dry runs pass a verification on only under the decision it would change.
Step2DryRunAllows(i) == Pending(i) = "PENDING_GATES"
Step3DryRunAllows(i) == Promotion(i) = "STEP2_DECISION_ONLY"

-----------------------------------------------------------------------------

NotRead == [now |-> Missing]

AvailInit ==
  /\ settings \in Choices
  /\ raw = {} /\ payload = {} /\ candidate = FALSE /\ validated = FALSE
  /\ goodHandoff = FALSE /\ goodMeta = {}
  /\ compiled = "none" /\ pointer = {} /\ effective = {} /\ checked = FALSE
  /\ marker = {} /\ packet = FALSE
  /\ decision = NoDecision
  /\ at = Idle /\ seen = NotRead /\ edits = 0
  /\ answers = {} /\ mixed = FALSE /\ judged = NotRead

EditSettings ==
  /\ at = Idle /\ edits < MaxEdits
  /\ settings' \in Choices \ {settings}
  /\ edits' = edits + 1
  /\ UNCHANGED <<raw, research, promoted, step2, decision, at, seen,
                 answers, mixed, judged>>

\* The operator pastes another answer: research of some day, or unusable text.
PasteAnswer ==
  /\ at = Idle /\ edits < MaxEdits
  /\ \E new \in {{}} \cup {{[day |-> d, valid |-> v]} : d \in Dates, v \in BOOLEAN} :
       new # raw /\ raw' = new
  /\ edits' = edits + 1
  /\ UNCHANGED <<settings, research, promoted, step2, decision, at, seen,
                 answers, mixed, judged>>

\* The compile and the promotion layers of a Step 1 parse, done completely.
Promote ==
  /\ at = Idle /\ edits < MaxEdits
  /\ \/ compiled' \in {"evidence", "grounded"}
        /\ pointer' = {} /\ effective' = {} /\ checked' = FALSE
     \/ compiled' = "grounded" /\ \E h \in Compilations, d \in Dates :
          /\ pointer' = {[handoff |-> h, until |-> d]}
          /\ effective' = {h} /\ checked' = TRUE
  /\ edits' = edits + 1
  /\ UNCHANGED <<settings, raw, research, step2, decision, at, seen,
                 answers, mixed, judged>>

\* One file of the promotion is replaced or removed, or all three are.
Replaced(ps, hs, valid) ==
  \/ pointer' = ps /\ UNCHANGED <<effective, checked>>
  \/ effective' = hs /\ UNCHANGED <<pointer, checked>>
  \/ checked' = valid /\ UNCHANGED <<pointer, effective>>
  \/ pointer' = ps /\ effective' = hs /\ checked' = valid

\* An overlapping command does so while a run still has to read them.
Overwrite ==
  /\ edits < MaxEdits /\ at[1] \in {"evaluate", "step 2 dry run", "step 3 dry run"}
  /\ \/ Replaced({}, {}, FALSE)
     \/ \E h \in Compilations, d \in Dates : Replaced({[handoff |-> h, until |-> d]}, {h}, TRUE)
  /\ edits' = edits + 1
  /\ UNCHANGED <<settings, raw, research, compiled, step2, decision, at, seen,
                 answers, mixed, judged>>

-----------------------------------------------------------------------------
(* The Step 1 parse, from the extraction on. *)

ExtractResearch ==
  /\ at = Idle /\ raw # {}
  /\ payload' = {a.day : a \in raw}
  /\ at' = <<"candidate">> /\ mixed' = TRUE
  /\ UNCHANGED <<settings, raw, candidate, validated, goodHandoff, goodMeta, promoted, step2,
                 decision, seen, edits, answers, judged>>

ExtractionFails ==
  /\ at = Idle /\ raw = {}
  /\ at' = <<"no output", {}>>
  /\ UNCHANGED <<settings, raw, research, promoted, step2, decision,
                 seen, edits, answers, mixed, judged>>

WriteCandidate ==
  /\ at = <<"candidate">>
  /\ candidate' = TRUE /\ at' = <<"validation">>
  /\ UNCHANGED <<settings, raw, payload, validated, goodHandoff, goodMeta, promoted, step2,
                 decision, seen, edits, answers, mixed, judged>>

WriteValidation ==
  /\ at = <<"validation">>
  /\ validated' = (settings.universe # NoUniverse /\ \E a \in raw : a.valid)
  /\ answers' = IF validated'
                 THEN answers \cup {[day |-> a.day, universe |-> settings.universe] : a \in raw}
                 ELSE answers
  /\ mixed' = FALSE
  /\ at' = IF validated' THEN <<"last good">> ELSE <<"evaluate", {}>>
  /\ UNCHANGED <<settings, raw, payload, candidate, goodHandoff, goodMeta, promoted, step2,
                 decision, seen, edits, judged>>

\* write_last_good_research_handoff_if_valid: the handoff, then its metadata;
\* a failure of either is recorded and swallowed.
WriteLastGood ==
  /\ at = <<"last good">>
  /\ \/ goodHandoff' = TRUE /\ at' = <<"last good metadata">>
     \/ goodHandoff' \in {goodHandoff, FALSE} /\ at' = <<"evaluate", {}>>
  /\ UNCHANGED <<settings, raw, payload, candidate, validated, goodMeta, promoted, step2,
                 decision, seen, edits, answers, mixed, judged>>

WriteLastGoodMetadata ==
  /\ at = <<"last good metadata">>
  /\ goodMeta' \in {goodMeta, {}, {[day |-> d, universe |-> settings.universe] : d \in payload}}
  /\ at' = <<"evaluate", {}>>
  /\ UNCHANGED <<settings, raw, payload, candidate, validated, goodHandoff, promoted, step2,
                 decision, seen, edits, answers, mixed, judged>>

-----------------------------------------------------------------------------
(* The evaluation. *)

ReadLastGood == IF goodHandoff THEN goodMeta ELSE {}

\* First pass: everything but the two verifications is read here.
Evaluate ==
  /\ at[1] = "evaluate"
  /\ \E source \in payload :
       seen' = [valid |-> validated, candidate |-> TRUE, output |-> TRUE, source |-> source,
                now |-> IF settings.day # Missing THEN settings.day ELSE source,
                stamp |-> settings.day, universe |-> settings.universe,
                good |-> ReadLastGood, compiled |-> compiled, pointer |-> pointer,
                effective |-> effective, checked |-> checked, facts |-> at[2],
                step2 |-> {}, step3 |-> {}, mixed |-> mixed]
  /\ at' = <<"step 2 dry run">>
  /\ UNCHANGED <<settings, raw, research, promoted, step2, decision,
                 edits, answers, mixed, judged>>

\* _write_promoted_step2_gate_dry_run_report_only: only a pending decision passes
\* the dry run, and a refused write leaves no verification to upgrade by.
WritePromotedStep2DryRun ==
  /\ at = <<"step 2 dry run">>
  /\ \/ seen' = [seen EXCEPT !.step2 =
                   IF Step2DryRunAllows(seen) THEN VerifiedForStep2 ELSE {}]
     \/ UNCHANGED seen
  /\ at' = <<"step 3 dry run">>
  /\ UNCHANGED <<settings, raw, research, promoted, step2, decision,
                 edits, answers, mixed, judged>>

WritePromotedStep3DryRun ==
  /\ at = <<"step 3 dry run">>
  /\ \/ seen' = [seen EXCEPT !.step3 =
                   IF Step3DryRunAllows(seen) THEN VerifiedForStep3 ELSE {}]
     \/ UNCHANGED seen
  /\ at' = <<"write", "evaluation">>
  /\ UNCHANGED <<settings, raw, research, promoted, step2, decision,
                 edits, answers, mixed, judged>>

\* The no-output writer knows of the last good handoff and of H1 alone.
EvaluateNoOutput ==
  /\ at[1] = "no output"
  /\ seen' = [valid |-> FALSE, candidate |-> FALSE, output |-> FALSE, source |-> Missing,
              now |-> settings.day, stamp |-> Missing,
              universe |-> settings.universe, good |-> ReadLastGood,
              compiled |-> "none", pointer |-> {}, effective |-> {}, checked |-> FALSE,
              facts |-> at[2], step2 |-> {}, step3 |-> {}, mixed |-> FALSE]
  /\ at' = <<"write", "no output">>
  /\ UNCHANGED <<settings, raw, research, promoted, step2, decision,
                 edits, answers, mixed, judged>>

\* The decision is written last, after the two reports that state the same and
\* that no command obeys.
PersistDecision ==
  /\ at[1] = "write"
  /\ decision' = Evaluated(seen) /\ judged' = Basis(seen)
  /\ seen' = NotRead /\ at' = Idle
  /\ UNCHANGED <<settings, raw, research, promoted, step2, edits, answers, mixed>>

\* One of the three writes fails, the last perhaps with a torn file.  The evaluation
\* then writes the conservative fallback; the no-output writer gives up.
WriteFails ==
  /\ at[1] = "write"
  /\ \/ UNCHANGED <<decision, judged>>
     \/ decision' = NoDecision /\ judged' = NotRead
  /\ at' = IF at[2] = "evaluation" THEN <<"fallback">> ELSE Idle
  /\ seen' = NotRead
  /\ UNCHANGED <<settings, raw, research, promoted, step2, edits, answers, mixed>>

\* Best effort: it reaches the decision, tears it or does not get there.
WriteFallback ==
  /\ at = <<"fallback">>
  /\ \/ decision' \in {"NO_OUTPUT", NoDecision} /\ judged' = NotRead
     \/ UNCHANGED <<decision, judged>>
  /\ at' = Idle
  /\ UNCHANGED <<settings, raw, research, promoted, step2, seen, edits, answers, mixed>>

-----------------------------------------------------------------------------
(* Step 2.  Under fresh research a parse leaves a packet and no more; under  *)
(* a promotion, verified live, a render leaves a marker, and a parse leaves  *)
(* a packet, a marker and a fresh evaluation.                                *)

MarkerOf(ps) == {[pointer |-> p, effective |-> p.handoff] : p \in ps}

ParseStep2 ==
  /\ at = Idle /\ decision = "STRICT_FRESH"
  /\ packet' = TRUE
  /\ UNCHANGED <<settings, raw, research, promoted, marker, decision, at,
                 seen, edits, answers, mixed, judged>>

RenderPromotedStep2 ==
  /\ at = Idle /\ decision = "STEP2_DECISION_ONLY" /\ VerifiedForStep2 # {}
  /\ at' = <<"render marker", MarkerOf(pointer)>>
  /\ UNCHANGED <<settings, raw, research, promoted, step2, decision,
                 seen, edits, answers, mixed, judged>>

ParsePromotedStep2 ==
  /\ at = Idle /\ decision = "STEP2_DECISION_ONLY" /\ VerifiedForStep2 # {}
  /\ packet' = TRUE
  /\ at' = <<"parse marker", MarkerOf(pointer)>>
  /\ UNCHANGED <<settings, raw, research, promoted, marker, decision,
                 seen, edits, answers, mixed, judged>>

PersistMarker ==
  /\ at[1] \in {"render marker", "parse marker"}
  /\ marker' = at[2]
  /\ at' = IF at[1] = "parse marker" /\ candidate /\ payload # {}
           THEN <<"evaluate", {}>> ELSE Idle
  /\ UNCHANGED <<settings, raw, research, promoted, packet, decision,
                 seen, edits, answers, mixed, judged>>

-----------------------------------------------------------------------------
(* The H1 commands: clear the decision, then the reports, then rebuild, with *)
(* the facts of a consumed mapping or with none.                             *)

ClearDecision ==
  /\ at = Idle
  /\ \E facts \in {{}} \cup {{f} : f \in Facts} : at' = <<"clear reports", facts>>
  /\ decision' = NoDecision /\ judged' = NotRead
  /\ UNCHANGED <<settings, raw, research, promoted, step2,
                 seen, edits, answers, mixed>>

\* Without a candidate only an answer nothing can be extracted from warrants
\* the no-output decision; otherwise there stays none.
ClearReports ==
  /\ at[1] = "clear reports"
  /\ at' = IF candidate /\ payload # {} THEN <<"evaluate", at[2]>>
           ELSE IF raw = {} THEN <<"no output", at[2]>> ELSE Idle
  /\ UNCHANGED <<settings, raw, research, promoted, step2, decision,
                 seen, edits, answers, mixed, judged>>

\* The running command is killed.
Kill ==
  /\ at # Idle
  /\ at' = Idle /\ seen' = NotRead
  /\ UNCHANGED <<settings, raw, research, promoted, step2, decision,
                 edits, answers, mixed, judged>>

AvailNext ==
  \/ EditSettings \/ PasteAnswer \/ Promote \/ Overwrite
  \/ ExtractResearch \/ ExtractionFails \/ WriteCandidate \/ WriteValidation
  \/ WriteLastGood \/ WriteLastGoodMetadata
  \/ Evaluate \/ WritePromotedStep2DryRun \/ WritePromotedStep3DryRun
  \/ EvaluateNoOutput \/ PersistDecision \/ WriteFails \/ WriteFallback
  \/ ParseStep2 \/ RenderPromotedStep2 \/ ParsePromotedStep2 \/ PersistMarker
  \/ ClearDecision \/ ClearReports \/ Kill

AvailSpec == AvailInit /\ [][AvailNext]_avail

-----------------------------------------------------------------------------

\* The files and the control state.
AvailTypeOK ==
  /\ settings \in Choices
  /\ payload \subseteq Dates /\ candidate \in BOOLEAN /\ validated \in BOOLEAN
  /\ goodHandoff \in BOOLEAN /\ goodMeta \subseteq [day : Dates, universe : Universes]
  /\ compiled \in {"none", "evidence", "grounded"}
  /\ pointer \subseteq [handoff : Compilations, until : Dates]
  /\ effective \subseteq Compilations /\ checked \in BOOLEAN
  /\ packet \in BOOLEAN
  /\ decision \in States \cup {NoDecision}
  /\ edits \in 0..MaxEdits /\ mixed \in BOOLEAN

\* Orders may be made only from an answer that a parse found valid, and that is
\* of the run's day up to FreshDays before it: neither an overlay, a refused write,
\* a kill nor an H1 rebuild over what is left on disk gets there by another way.
\* (A kill between the payload's write and its validation's is set apart: then
\* an H1 rebuild judges the new date by the old verdict.)
OrdersFromFreshResearch ==
  decision = "STRICT_FRESH" =>
    \/ judged.mixed
    \/ \E a \in answers : a.day = judged.source /\ judged.now - a.day \in 0..FreshDays

\* A promoted permission names a handoff that every reading of the run agreed on:
\* the pointer recognised first, the verification before Step 2 and, for an audit,
\* the one that found the Step 2 marker and packet; and none had expired.
PromotionAgreed ==
  decision \in {"STEP2_DECISION_ONLY", "STEP3_AUDIT_ONLY"} =>
    \E p \in judged.pointer, v \in judged.step2 :
      /\ p.handoff = v.handoff /\ judged.effective = {v.handoff}
      /\ p.until >= judged.now /\ v.until >= judged.now
      /\ decision = "STEP3_AUDIT_ONLY" =>
           \E w \in judged.step3 : w.handoff = v.handoff /\ w.until >= judged.now

\* Carrying on from the last good handoff means that an answer of that universe,
\* not older than StaleDays, was found valid once: also when its metadata was
\* not written, written by half, or is older than the handoff beside it.
FallbackStoodOnce ==
  decision = "DEGRADED_WITH_LAST_GOOD" =>
    \E a \in answers : a.universe = judged.universe /\ judged.now - a.day \in 0..StaleDays

\* A degraded-mode decision allows no more than its sources carry: orders from
\* fresh research only, promotion as its files agree, fallback on what stood once.
DecisionSound ==
  AvailTypeOK /\ OrdersFromFreshResearch /\ PromotionAgreed /\ FallbackStoodOnce

=============================================================================
