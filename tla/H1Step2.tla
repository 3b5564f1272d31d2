------------------------------ MODULE H1Step2 ------------------------------
(***************************************************************************)
(* Step 2 over H1 research: the operator writes a long-horizon (LH2)       *)
(* source and captures it (cli/run_lh2_manual_capture.py); an admitted     *)
(* render (workflow/step2_decision_builder.py) writes a prompt over its    *)
(* entries and commits to it; the operator pastes an answer, captures it   *)
(* for the committed prompt (step2_h1_provenance.py) and has it made a     *)
(* report (step2_h1_report.py); at any later time the currentness of the   *)
(* report is judged (step2_h1_currentness.py).                             *)
(*                                                                         *)
(* An entry is its identity.  An H1 prompt is the payload it is rendered   *)
(* from, and a digest what it is taken from.  A capture of the source is   *)
(* one read (SourceCapture shows why).  One command runs at a time; it     *)
(* shares its files with the operator and the gate decision with Step 1.   *)
(* A write that is no rename may be killed half way (Partial).  Left out:  *)
(* texts, and files other than these.                                      *)
(***************************************************************************)
EXTENDS Naturals, FiniteSets

CONSTANTS
  Entries,      \* the source entries the operator may collect
  Published,    \* the day each was published
  Payloads,     \* the LH2 sources he may write
  Evidence,     \* the entries of each
  Answers,      \* the answers he may paste
  Cites,        \* the entries each cites
  MaxAgeDays,   \* H1_LH2_MAX_AGE_DAYS
  LastH1Day,    \* bound: the last day
  Malformed,    \* a source no payload can be read from
  Other,        \* a prompt that is no H1 prompt of a payload
  Junk,         \* an answer that does not parse
  Partial,      \* a half-written file
  NoFile        \* no file

ASSUME EntryAssumption == Published \in [Entries -> Nat] /\ MaxAgeDays \in Nat /\ LastH1Day \in Nat
ASSUME EvidenceAssumption ==
  /\ Evidence \in [Payloads -> (SUBSET Entries) \ {{}}]
  /\ Cites \in [Answers -> (SUBSET Entries) \ {{}}]
ASSUME TokenAssumption ==
  /\ Payloads \cap {Malformed, Other, NoFile} = {}
  /\ Answers \cap {Junk, NoFile} = {}
  /\ NoFile \notin Nat

\* Any other decision blocks every command that asks.
Gates == {"allowed", "h1"}

VARIABLES
  source,      \* the LH2 source file
  lh2Receipt,  \* its capture receipt: the digest taken
  gate,        \* what the Step 1 decision on disk warrants
  clock,
  prompt,      \* prompt.txt
  commitment,  \* the render commitment: its prompt and evidence
  responded,   \* raw_output.txt
  receipt,     \* the capture receipt of the answer: its prompt and answer
  report,      \* h1_qualitative_report.json
  verdict,     \* the last currentness evaluation
  cmd,         \* the running command: its next step and what it has read
  admitted     \* (for the properties) the day each payload was first admitted to a render

env == <<source, gate, clock>>
files == <<lh2Receipt, prompt, commitment, responded, receipt, report>>
h1step2 == <<env, files, verdict, cmd, admitted>>

NoCommand == [at |-> "idle", day |-> 0, commitment |-> NoFile, answer |-> NoFile, payload |-> NoFile]

H1Init ==
  /\ source \in Payloads \cup {Malformed, NoFile}
  /\ gate \in Gates
  /\ clock \in 0..LastH1Day
  /\ lh2Receipt = NoFile /\ prompt = NoFile /\ commitment = NoFile
  /\ responded = NoFile /\ receipt = NoFile /\ report = NoFile
  /\ verdict = NoFile
  /\ cmd = NoCommand
  /\ admitted = [p \in Payloads |-> NoFile]

-----------------------------------------------------------------------------
(* The operator, Step 1 and the clock.                                     *)

EditSource ==
  /\ source' \in (Payloads \cup {Malformed}) \ {source}
  /\ UNCHANGED <<gate, clock, files, verdict, cmd, admitted>>

PasteH1Answer ==
  /\ responded # NoFile
  /\ responded' \in (Answers \cup {Junk}) \ {responded}
  /\ UNCHANGED <<env, lh2Receipt, prompt, commitment, receipt, report, verdict, cmd, admitted>>

EditPrompt ==
  /\ prompt \in Payloads
  /\ prompt' = Other
  /\ UNCHANGED <<env, lh2Receipt, commitment, responded, receipt, report, verdict, cmd, admitted>>

DecideGate ==
  /\ gate' \in Gates \ {gate}
  /\ UNCHANGED <<source, clock, files, verdict, cmd, admitted>>

ClockTicks ==
  /\ clock < LastH1Day
  /\ clock' = clock + 1
  /\ UNCHANGED <<source, gate, files, verdict, cmd, admitted>>

-----------------------------------------------------------------------------
(* Commands.                                                               *)

\* A refusal, an error or a kill between two writes: the command ends here.
Stop == cmd # NoCommand /\ cmd' = NoCommand /\ UNCHANGED <<env, files, verdict, admitted>>

Read(at, c) == cmd' = [c EXCEPT !.at = at] /\ UNCHANGED <<env, files, verdict, admitted>>

(* run_lh2_manual_capture: a stable digest, then the receipt by a rename.  *)

DigestSource ==
  /\ cmd = NoCommand
  /\ source # NoFile
  /\ Read("write lh2 receipt", [cmd EXCEPT !.payload = source])

WriteLh2Receipt ==
  /\ cmd.at = "write lh2 receipt"
  /\ lh2Receipt' = cmd.payload
  /\ cmd' = NoCommand
  /\ UNCHANGED <<env, prompt, commitment, responded, receipt, report, verdict, admitted>>

(* The current payload: the source as the receipt names it.                *)

Readable(s) == s \in Payloads
CurrentPayload == IF source = lh2Receipt /\ Readable(source) THEN source ELSE NoFile

Age(e, day) == IF day >= Published[e] THEN day - Published[e] ELSE 0
Stale(p, day) == \E e \in Evidence[p] : Age(e, day) > MaxAgeDays
Future(p, day) == \E e \in Evidence[p] : Published[e] > day

(* render_step2_prompt *)

AdmitOrdinary ==
  /\ cmd = NoCommand
  /\ gate = "allowed"
  /\ Read("prompt", [cmd EXCEPT !.payload = Other])

AdmitH1 ==
  /\ cmd = NoCommand
  /\ gate = "h1"
  /\ Read("payload", cmd)

\* Mutant: admitted once, the source is read again for the prompt.
WritePromptReread ==
  /\ cmd.at = "prompt"
  /\ prompt' = IF cmd.payload # Other /\ source \in Payloads THEN source ELSE cmd.payload
  /\ cmd' = [cmd EXCEPT !.at = "raw", !.payload = prompt']
  /\ UNCHANGED <<env, lh2Receipt, commitment, responded, receipt, report, verdict, admitted>>

\* A payload that is not the captured one, or not of the period, blocks the render.
AdmitPayload ==
  /\ cmd.at = "payload"
  /\ CurrentPayload # NoFile
  /\ ~Stale(source, clock) /\ ~Future(source, clock)
  /\ cmd' = [cmd EXCEPT !.at = "prompt", !.payload = source]
  /\ admitted' = [admitted EXCEPT ![source] = IF @ = NoFile THEN clock ELSE @]
  /\ UNCHANGED <<env, files, verdict>>

WriteH1Prompt ==
  /\ cmd.at = "prompt"
  /\ \/ prompt' = cmd.payload /\ cmd' = [cmd EXCEPT !.at = "raw"]
     \/ prompt' = Other /\ cmd' = NoCommand  \* killed half way
  /\ UNCHANGED <<env, lh2Receipt, commitment, responded, receipt, report, verdict, admitted>>

\* An answer that is there is kept.
PrepareRaw ==
  /\ cmd.at = "raw"
  /\ responded' = IF responded = NoFile THEN Junk ELSE responded
  /\ cmd' = IF cmd.payload = Other THEN NoCommand ELSE [cmd EXCEPT !.at = "commit"]
  /\ UNCHANGED <<env, lh2Receipt, prompt, commitment, receipt, report, verdict, admitted>>

Commit ==
  /\ cmd.at = "commit"
  /\ commitment' \in {[prompt |-> cmd.payload, evidence |-> Evidence[cmd.payload]], Partial}
  /\ cmd' = NoCommand
  /\ UNCHANGED <<env, lh2Receipt, prompt, responded, receipt, report, verdict, admitted>>

(* capture_h1_response: the answer on disk belongs to the committed prompt. *)

ReadCommitted(to) ==
  /\ cmd = NoCommand
  /\ commitment \notin {NoFile, Partial}
  /\ prompt = commitment.prompt
  /\ Read(to, [cmd EXCEPT !.commitment = commitment])

CaptureForPrompt == ReadCommitted("capture answer")

WriteReceipt ==
  /\ cmd.at = "capture answer"
  /\ responded # NoFile
  /\ receipt' \in {[prompt |-> cmd.commitment.prompt, answer |-> responded], Partial}
  /\ cmd' = NoCommand
  /\ UNCHANGED <<env, lh2Receipt, prompt, commitment, responded, report, verdict, admitted>>

(* validate_h1_report_workflow *)

Parses(answer, evidence) == answer \in Answers /\ Cites[answer] \subseteq evidence

ReportForPrompt == ReadCommitted("report answer")

WriteReport ==
  /\ cmd.at = "report answer"
  /\ receipt = [prompt |-> cmd.commitment.prompt, answer |-> responded]
  /\ Parses(responded, cmd.commitment.evidence)
  /\ report' \in {[prompt |-> cmd.commitment.prompt, answer |-> responded, cites |-> Cites[responded]], Partial}
  /\ cmd' = NoCommand
  /\ UNCHANGED <<env, lh2Receipt, prompt, commitment, responded, receipt, verdict, admitted>>

(* evaluate_current_h1_context *)

Judge(outcome) ==
  /\ verdict' = IF outcome # "CURRENT" THEN [outcome |-> outcome]
                ELSE [outcome |-> outcome, day |-> cmd.day, answer |-> cmd.answer, payload |-> cmd.payload]
  /\ cmd' = NoCommand
  /\ UNCHANGED <<env, files, admitted>>

\* The date first, then the report, the commitment and the prompt.
ReadReport ==
  /\ cmd = NoCommand
  /\ report \notin {NoFile, Partial} /\ commitment \notin {NoFile, Partial}
  /\ Read("prompt bytes", [cmd EXCEPT !.day = clock, !.commitment = commitment])

ReadPrompt ==
  /\ cmd.at = "prompt bytes"
  /\ IF report.prompt = cmd.commitment.prompt /\ prompt = cmd.commitment.prompt
     THEN Read("answer bytes", cmd)
     ELSE Judge("REPORT_BINDING_MISMATCH")

ReadAnswer ==
  /\ cmd.at = "answer bytes"
  /\ receipt \notin {NoFile, Partial}
  /\ LET bound == /\ receipt.prompt = cmd.commitment.prompt
                  /\ report.answer = receipt.answer
                  /\ responded = receipt.answer
     IN \/ ~bound /\ Judge("REPORT_BINDING_MISMATCH")
        \/ /\ bound /\ Parses(responded, cmd.commitment.evidence)
           /\ IF report.cites = Cites[responded] THEN Read("lh2", [cmd EXCEPT !.answer = responded])
              ELSE Judge("REPORT_BINDING_MISMATCH")

ReadPayload ==
  /\ cmd.at = "lh2"
  /\ CurrentPayload # NoFile
  /\ \/ Stale(source, cmd.day) /\ Judge("CURRENT_LH2_STALE")
     \/ ~Stale(source, cmd.day) /\ Future(source, cmd.day) /\ Judge("CURRENT_LH2_FUTURE")
     \/ /\ ~Stale(source, cmd.day) /\ ~Future(source, cmd.day)
        /\ Read("prerequisite", [cmd EXCEPT !.payload = source])

Conclude ==
  /\ cmd.at = "prerequisite"
  /\ \/ gate # "h1" /\ Judge("CURRENT_H1_PREREQUISITE_NOT_MET")
     \/ gate = "h1" /\ Evidence[cmd.payload] # cmd.commitment.evidence /\ Judge("CURRENT_EVIDENCE_UNIVERSE_CHANGED")
     \/ gate = "h1" /\ Evidence[cmd.payload] = cmd.commitment.evidence /\ Judge("CURRENT")

(* prepare_next_run deletes the Step 2 files; the LH2 files are inputs.    *)
PrepareNextRun ==
  /\ cmd = NoCommand
  /\ prompt' = NoFile /\ commitment' = NoFile /\ responded' = NoFile /\ receipt' = NoFile /\ report' = NoFile
  /\ verdict' = NoFile
  /\ UNCHANGED <<env, lh2Receipt, cmd, admitted>>

Operator == EditSource \/ PasteH1Answer \/ EditPrompt \/ DecideGate \/ ClockTicks \/ PrepareNextRun
Commands ==
  \/ Stop \/ DigestSource \/ WriteLh2Receipt \/ AdmitOrdinary \/ AdmitH1 \/ AdmitPayload
  \/ WriteH1Prompt \/ PrepareRaw \/ Commit \/ CaptureForPrompt \/ WriteReceipt
  \/ ReportForPrompt \/ WriteReport \/ ReadReport \/ ReadPrompt \/ ReadAnswer
  \/ ReadPayload \/ Conclude

H1Next == Operator \/ Commands
H1Spec == H1Init /\ [][H1Next]_h1step2

-----------------------------------------------------------------------------
(* Properties.                                                             *)

\* Every file keeps its shape.
H1Types ==
  /\ source \in Payloads \cup {Malformed, NoFile}
  /\ lh2Receipt \in Payloads \cup {Malformed, NoFile}
  /\ gate \in Gates /\ clock \in 0..LastH1Day
  /\ prompt \in Payloads \cup {Other, NoFile}
  /\ responded \in Answers \cup {Junk, NoFile}
  /\ commitment \notin {Partial, NoFile} => commitment \in [prompt : Payloads, evidence : SUBSET Entries]
  /\ receipt \notin {Partial, NoFile} => receipt \in [prompt : Payloads, answer : Answers \cup {Junk}]
  /\ report \notin {Partial, NoFile} =>
       report \in [prompt : Payloads, answer : Answers, cites : SUBSET Entries]
  /\ admitted \in [Payloads -> (0..LastH1Day) \cup {NoFile}]

\* Whatever is rendered, responded, edited and killed in between, a report is of a
\* prompt over a payload that was admitted, captured and of the period, and cites
\* entries of that payload only.
ReportOfAdmitted ==
  report \notin {NoFile, Partial} =>
    /\ admitted[report.prompt] # NoFile
    /\ report.cites \subseteq Evidence[report.prompt]

\* An H1 context judged current cites only entries of the payload that stood
\* captured when it was judged, each published within the period before the day of
\* the judgement, under a prompt admitted over exactly these entries.
CurrentCitesCurrent ==
  verdict # NoFile /\ verdict.outcome = "CURRENT" =>
    /\ Cites[verdict.answer] \subseteq Evidence[verdict.payload]
    /\ \A e \in Evidence[verdict.payload] :
         Published[e] <= verdict.day /\ verdict.day - Published[e] <= MaxAgeDays
    /\ \E p \in Payloads : /\ Evidence[p] = Evidence[verdict.payload]
                          /\ admitted[p] \in 0..verdict.day

\* An H1 qualitative report is of a prompt over an admitted, captured payload,
\* and a context judged current cites only entries of the payload captured then,
\* each within the period.
H1ReportSound == H1Types /\ ReportOfAdmitted /\ CurrentCitesCurrent
=============================================================================
