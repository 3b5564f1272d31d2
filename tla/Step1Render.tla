----------------------------- MODULE Step1Render -----------------------------
(***************************************************************************)
(* The standard Step 1 render and the continuity check at the head of the  *)
(* Step 1 parse (workflow/step1_research.py).  A render reads the operator *)
(* sources once, retires all evidence of earlier runs, publishes the       *)
(* prompt and writes render_commitment.json last and atomically.  A parse  *)
(* retires the previous continuity report and then compares the CURRENT    *)
(* sources and prompt, read one after another, with the commitment.        *)
(*                                                                         *)
(* Bytes are abstract: a source is a version, the prompt is the pair of    *)
(* versions it was compiled from, and a SHA-256 digest is the value it     *)
(* identifies.  The operator edits any file between two file operations;   *)
(* a crash, or an exception that ends the command, may hit any of them.    *)
(***************************************************************************)

CONSTANTS
    Versions,   \* the contents an operator source can have
    NoFile,     \* an absent file
    Torn,       \* prompt bytes no render produced: half written, or edited
    Unusable,   \* commitment bytes its loader rejects
    NoRead      \* a buffer the running command has not filled

ASSUME FileStatesDistinct ==
    /\ NoFile # Torn /\ NoFile # Unusable
    /\ {NoFile, Torn, Unusable, NoRead} \cap Versions = {}

VARIABLES
    strategy, portfolio,    \* operator sources under inputs/current
    prompt,                 \* the rendered Step 1 prompt
    rawOutput,              \* raw_output.txt, where the operator pastes
    commitment,             \* render_commitment.json
    report,                 \* the render continuity report
    retired,                \* the v1 leaves an older installation left behind
    pc,                     \* the next file operation of the running command
    buf,                    \* what the running command has read or found
    promptEdited,           \* history: prompt bytes were edited after a render
    edited                  \* history: some endpoint was edited since the parse
                            \*   retired the previous report

inputs == <<strategy, portfolio>>
vars == <<strategy, portfolio, prompt, rawOutput, commitment, report, retired,
          pc, buf, promptEdited, edited>>

Source == Versions \cup {NoFile}
Paste == Versions \cup {NoFile, "empty"}
CompiledPrompt == [strategy : Versions, portfolio : Versions]

\* The v2 contract: the two source digests and the digest of the prompt text.
Commitment == [strategy : Versions, portfolio : Versions, prompt : CompiledPrompt]

MismatchCodes == {"strategy", "portfolio", "prompt"}
ReasonCodes == MismatchCodes \cup {"commitmentMissing", "commitmentInvalid"}
Report == [status : {"COMPLETE_MATCH", "UNVERIFIED"}, reasons : SUBSET ReasonCodes]

RenderSteps == {"readPortfolio", "unlinkRetiredReport", "unlinkReport",
                "unlinkRetiredCommitment", "unlinkCommitment", "openPrompt",
                "fillPrompt", "prepareRaw", "commit"}
ParseSteps == {"unlinkOldReport", "loadCommitment", "checkStrategy",
               "checkPortfolio", "checkPrompt", "publishReport"}

NoBuf == [strategy |-> NoRead, portfolio |-> NoRead, expected |-> NoRead,
          reasons |-> {}]

TypeOK ==
    /\ strategy \in Source /\ portfolio \in Source
    /\ prompt \in CompiledPrompt \cup {NoFile, Torn}
    /\ rawOutput \in Paste
    /\ commitment \in Commitment \cup {NoFile, Unusable}
    /\ report \in Report \cup {NoFile}
    /\ retired \in SUBSET {"report", "commitment"}
    /\ pc \in RenderSteps \cup ParseSteps \cup {"idle"}
    /\ buf \in [strategy : Versions \cup {NoRead}, portfolio : Versions \cup {NoRead},
                expected : Commitment \cup {NoRead}, reasons : SUBSET ReasonCodes]
    /\ promptEdited \in BOOLEAN /\ edited \in BOOLEAN

Init ==
    /\ strategy \in Source /\ portfolio \in Source
    /\ prompt = NoFile /\ rawOutput = NoFile
    /\ commitment = NoFile /\ report = NoFile
    /\ retired \in SUBSET {"report", "commitment"}
    /\ pc = "idle" /\ buf = NoBuf
    /\ promptEdited = FALSE /\ edited = FALSE

-----------------------------------------------------------------------------
(* render_step1_prompt.  Reading a missing source raises before any file is *)
(* touched, so a render only gets under way when its source is there.       *)

Compiled == [strategy |-> buf.strategy, portfolio |-> buf.portfolio]

BeginRender ==
    /\ pc = "idle" /\ strategy # NoFile
    /\ buf' = [NoBuf EXCEPT !.strategy = strategy]
    /\ pc' = "readPortfolio"
    /\ UNCHANGED <<inputs, prompt, rawOutput, commitment, report, retired, promptEdited, edited>>

ReadPortfolio ==
    /\ pc = "readPortfolio" /\ portfolio # NoFile
    /\ buf' = [buf EXCEPT !.portfolio = portfolio]
    /\ pc' = "unlinkRetiredReport"
    /\ UNCHANGED <<inputs, prompt, rawOutput, commitment, report, retired, promptEdited, edited>>

UnlinkRetiredReport ==
    /\ pc = "unlinkRetiredReport"
    /\ retired' = retired \ {"report"}
    /\ pc' = "unlinkReport"
    /\ UNCHANGED <<inputs, prompt, rawOutput, commitment, report, buf, promptEdited, edited>>

UnlinkReport ==
    /\ pc = "unlinkReport"
    /\ report' = NoFile
    /\ pc' = "unlinkRetiredCommitment"
    /\ UNCHANGED <<inputs, prompt, rawOutput, commitment, retired, buf, promptEdited, edited>>

UnlinkRetiredCommitment ==
    /\ pc = "unlinkRetiredCommitment"
    /\ retired' = retired \ {"commitment"}
    /\ pc' = "unlinkCommitment"
    /\ UNCHANGED <<inputs, prompt, rawOutput, commitment, report, buf, promptEdited, edited>>

\* Mutant: the previous commitment stays until the new one replaces it.
UnlinkCommitmentForgotten ==
    /\ pc = "unlinkCommitment" /\ pc' = "openPrompt"
    /\ UNCHANGED <<inputs, prompt, rawOutput, commitment, report, retired, buf, promptEdited, edited>>

UnlinkCommitment ==
    /\ pc = "unlinkCommitment"
    /\ commitment' = NoFile
    /\ pc' = "openPrompt"
    /\ UNCHANGED <<inputs, prompt, rawOutput, report, retired, buf, promptEdited, edited>>

\* write_text truncates the prompt before it fills it.
OpenPrompt ==
    /\ pc = "openPrompt"
    /\ prompt' = Torn
    /\ pc' = "fillPrompt"
    /\ UNCHANGED <<inputs, rawOutput, commitment, report, retired, buf, promptEdited, edited>>

FillPrompt ==
    /\ pc = "fillPrompt"
    /\ prompt' = Compiled /\ promptEdited' = FALSE
    /\ pc' = "prepareRaw"
    /\ UNCHANGED <<inputs, rawOutput, commitment, report, retired, buf, edited>>

\* An existing raw_output.txt is kept: it may outlive a rerender.  The metadata
\* template written beside it is left out: neither command modelled here reads it.
PrepareRaw ==
    /\ pc = "prepareRaw"
    /\ rawOutput' = IF rawOutput = NoFile THEN "empty" ELSE rawOutput
    /\ pc' = "commit"
    /\ UNCHANGED <<inputs, prompt, commitment, report, retired, buf, promptEdited, edited>>

\* The digests come from the buffers, never from a second read of the files.
Commit ==
    /\ pc = "commit"
    /\ commitment' = [strategy |-> buf.strategy, portfolio |-> buf.portfolio,
                      prompt |-> Compiled]
    /\ pc' = "idle" /\ buf' = NoBuf
    /\ UNCHANGED <<inputs, prompt, rawOutput, report, retired, promptEdited, edited>>

-----------------------------------------------------------------------------
(* _write_step1_render_continuity_report, the first thing a parse does.     *)

BeginParse ==
    /\ pc = "idle"
    /\ retired' = retired \ {"report"}
    /\ pc' = "unlinkOldReport" /\ buf' = NoBuf
    /\ UNCHANGED <<inputs, prompt, rawOutput, commitment, report, promptEdited, edited>>

\* Mutant: the report is only ever replaced, never retired first.
UnlinkOldReportForgotten ==
    /\ pc = "unlinkOldReport" /\ pc' = "loadCommitment" /\ edited' = FALSE
    /\ UNCHANGED <<inputs, prompt, rawOutput, commitment, report, retired, buf, promptEdited>>

UnlinkOldReport ==
    /\ pc = "unlinkOldReport"
    /\ report' = NoFile /\ edited' = FALSE
    /\ pc' = "loadCommitment"
    /\ UNCHANGED <<inputs, prompt, rawOutput, commitment, retired, buf, promptEdited>>

\* Without a usable commitment no endpoint is read at all.
LoadCommitment ==
    /\ pc = "loadCommitment"
    /\ \/ /\ commitment \in {NoFile, Unusable}
          /\ buf' = [buf EXCEPT !.reasons =
                        {IF commitment = NoFile THEN "commitmentMissing"
                                                ELSE "commitmentInvalid"}]
          /\ pc' = "publishReport"
       \/ /\ commitment \notin {NoFile, Unusable}
          /\ buf' = [buf EXCEPT !.expected = commitment]
          /\ pc' = "checkStrategy"
    /\ UNCHANGED <<inputs, prompt, rawOutput, commitment, report, retired, promptEdited, edited>>

\* A read failure and a digest mismatch are both reasons of that endpoint.
Check(step, endpoint, current, expected, next) ==
    /\ pc = step
    /\ buf' = [buf EXCEPT !.reasons =
                  @ \cup (IF current = expected THEN {} ELSE {endpoint})]
    /\ pc' = next
    /\ UNCHANGED <<inputs, prompt, rawOutput, commitment, report, retired, promptEdited, edited>>

CheckStrategy ==
    Check("checkStrategy", "strategy", strategy, buf.expected.strategy, "checkPortfolio")
\* Mutant: the portfolio is compared with itself.
CheckPortfolioVacuous ==
    Check("checkPortfolio", "portfolio", portfolio, portfolio, "checkPrompt")
CheckPortfolio ==
    Check("checkPortfolio", "portfolio", portfolio, buf.expected.portfolio, "checkPrompt")
CheckPrompt ==
    Check("checkPrompt", "prompt", prompt, buf.expected.prompt, "publishReport")

\* An OSError of the atomic write is swallowed: the parse goes on, reportless.
PublishReport ==
    /\ pc = "publishReport"
    /\ \/ report' = [status |-> IF buf.reasons = {} THEN "COMPLETE_MATCH" ELSE "UNVERIFIED",
                     reasons |-> buf.reasons]
       \/ report' = report
    /\ pc' = "idle" /\ buf' = NoBuf
    /\ UNCHANGED <<inputs, prompt, rawOutput, commitment, retired, promptEdited, edited>>

-----------------------------------------------------------------------------
\* The process dies, or an OSError propagates out of the running command.
Crash ==
    /\ pc # "idle"
    /\ pc' = "idle" /\ buf' = NoBuf
    /\ UNCHANGED <<inputs, prompt, rawOutput, commitment, report, retired, promptEdited, edited>>

EditInputs ==
    /\ strategy' \in Source /\ portfolio' \in Source
    /\ edited' = TRUE
    /\ UNCHANGED <<prompt, rawOutput, commitment, report, retired, pc, buf, promptEdited>>

EditPrompt ==
    /\ prompt' \in {Torn, NoFile} /\ promptEdited' = TRUE /\ edited' = TRUE
    /\ UNCHANGED <<inputs, rawOutput, commitment, report, retired, pc, buf>>

PasteRaw ==
    /\ rawOutput' \in Versions
    /\ UNCHANGED <<inputs, prompt, commitment, report, retired, pc, buf, promptEdited, edited>>

\* Damage to the commitment file between commands.
DamageCommitment ==
    /\ pc = "idle" /\ commitment # NoFile
    /\ commitment' = Unusable /\ edited' = TRUE
    /\ UNCHANGED <<inputs, prompt, rawOutput, report, retired, pc, buf, promptEdited>>

Render ==
    \/ BeginRender \/ ReadPortfolio
    \/ UnlinkRetiredReport \/ UnlinkReport
    \/ UnlinkRetiredCommitment \/ UnlinkCommitment
    \/ OpenPrompt \/ FillPrompt \/ PrepareRaw \/ Commit

Parse ==
    \/ BeginParse \/ UnlinkOldReport \/ LoadCommitment
    \/ CheckStrategy \/ CheckPortfolio \/ CheckPrompt \/ PublishReport

Operator == EditInputs \/ EditPrompt \/ PasteRaw \/ DamageCommitment

Next == Render \/ Parse \/ Crash \/ Operator

Spec == Init /\ [][Next]_vars

-----------------------------------------------------------------------------
\* "No surviving commitment can ever describe a prompt that was not fully
\* published" (render_step1_prompt's docstring), and one surviving a failed
\* render still describes an unmutated prompt: whatever crash came between,
\* unless the operator has edited the prompt the commitment names its bytes.
CommitmentDescribesPrompt ==
    commitment \notin {NoFile, Unusable} /\ ~promptEdited => prompt = commitment.prompt

\* Evidence is retired before the claim it rests on: a COMPLETE_MATCH report
\* never outlives the commitment it was checked against, however a render dies.
MatchHasCommitment ==
    report # NoFile /\ report.status = "COMPLETE_MATCH" => commitment # NoFile

\* What is left of a render that died at any step is still evidence: a
\* commitment of an unmutated prompt, and no match report without one.
CommitmentSound == CommitmentDescribesPrompt /\ MatchHasCommitment

\* Once a parse is past its deletions, no report of an earlier parse is left,
\* of either version, for a reader of a crashed parse to take for this one's.
NoStaleReport ==
    pc \in ParseSteps \ {"unlinkOldReport"} => report = NoFile /\ "report" \notin retired

\* A fresh report never stands beside a retired v1 report.
NoRetiredBesideFresh ==
    report # NoFile => "report" \notin retired

\* As long as nobody edited an endpoint while the parse checked or since, the report says
\* COMPLETE_MATCH exactly when all three endpoints still equal the commitment,
\* though the three were read one after another.
EndpointsMatch ==
    /\ commitment \notin {NoFile, Unusable}
    /\ strategy = commitment.strategy
    /\ portfolio = commitment.portfolio
    /\ prompt = commitment.prompt

ReportFaithful ==
    report # NoFile /\ ~edited => (report.status = "COMPLETE_MATCH" <=> EndpointsMatch)

\* The continuity report tells of this parse's three endpoints as they are, and
\* stands alone, without a retired one beside it.
ReportSound == ReportFaithful /\ NoRetiredBesideFresh

\* A command never overwrites or removes what the operator pasted.
PasteSurvivesRender ==
    [][Render \/ Parse \/ Crash => rawOutput' = rawOutput \/ rawOutput = NoFile]_vars

=============================================================================
