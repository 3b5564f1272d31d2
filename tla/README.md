# A verification of the investment orchestrator

The program (`src/src/investment_orchestrator`) turns a week's research into an order file for a human
to enter at a broker.  It calls no language model and no broker: each step renders a prompt, the
operator has it answered and pastes the answer, and the next command parses what was pasted.  The
steps are separate processes with nothing between them but files under `artifacts/current`, and what a
file means depends on which other files stand beside it.  Apart from the `flock` of the
retirement-evidence archive there is no concurrency control; most writes replace one file atomically
or in place, and nothing makes several of them one.  So the questions worth asking are not about one
command but about what a chain of commands, some refused, some swallowed half-way, some killed, leaves
for the next one to believe.

This directory holds TLA+ models of those chains, translated from the source, the TLC configurations
that check them on small instances, and proofs of most of their safety properties for every instance.

## 1. The system

| Part | State it keeps | Operations | Talks to | Hard about it | Correct when |
|---|---|---|---|---|---|
| Step 1 render and continuity report | prompt, `render_commitment.json`, continuity report | render, check at the head of a parse | operator's sources and paste | a death between any two file operations; sources edited while they are read | a commitment describes the prompt that is there; no report outlives what it reports on |
| Weekly Steps 1–4 and their gates | decisions, packets, block artifacts | render and parse of each step, H1 clear and rebuild, summary, archive, reset | each step reads the files of earlier ones | residual files of an earlier admission, half-done resets | orders only behind a `STRICT_FRESH` verdict on the research that is there |
| Order publication | quarantine and three canonical order files | quarantine, validate, publish, clean up | validator, weekly pipeline | a death among three replaces | success means one whole answer; a mixed set can be completed |
| Order validator | none of its own: settings, packet, snapshot, answer | accept or reject an answer | strategy settings, section (2a), packet | many small checks that must add up over weeks | open orders within cap and universe, new money within target |
| Retirement-evidence archive | records, reject records, version file, coordination anchor | ingest, verify | many processes, one `flock` | the anchor replaced between check and use, deaths, two writers | one record per observation id; a clean report is a snapshot |
| Promotion chain (layers 0, 0b–0h) | packet, memo, base, signals, preview, candidate, metadata, eligibility, previews, effective handoff, pointer | one Step 1 parse, promoted Step 2 and 3 | the anchor registry, the verdict | every layer swallows its failure and the next reads old files | a live promotion cites anchors in their period |
| H1 replacement handoff | prepared handoff, answer, mapping report, decision | prepare, consume | strategy settings, portfolio, availability owner | stale answers, edits and deaths between two commands | a recognised decision rests on the completion on disk |
| Availability evaluator | the research decision and its two diagnostics | evaluate, clear, rebuild | Step 1, H1, promotion, last-good handoff | facts of several runs judged together | the state is the strongest one warranted, never a stronger one |
| Last-good handoff | handoff and metadata | store, load | availability | two writes | the metadata describes the handoff |
| Step 2 over H1, long-horizon capture | commitment, raw answer, receipt, packet, H1 report | render, parse, capture | H1 decision | the answer to an earlier prompt is kept | the packet rests on the claim it was admitted by |
| V1 review | proposal, compiled orders, write-once publications | review | Step 3 over H1 | inputs that move while it evaluates | what is published is what was judged |
| H2c persisted cases | case directories, manifests | capture, prepare, consume | operator | several exclusive writes, no resume | a case is consumed at most once, and whole |
| Replacement generation and report | in-progress marker, generation, report | observe, read, report | memo, grounding | half-made generations, racing reporters | a reader never sees half a generation |
| Weekly shadow report | staging and published directories | adapt, build, validate, publish | weekly artifacts | a publisher that dies, a name already taken | published once and whole |
| Anchor registries, approvals | anchors, approvals, revocations | approve, revoke, activate | promotion chain | periods, supersession | an anchor is active only when approved and not revoked |
| Step 2 market source policy | approval artifacts | parse, validate, bind | Step 2 | expected identities | only the statement the operator made is bound |
| Daily execution check | prompt, answer, actions, snapshot | generate, render, parse | packet, orders | an answer to an earlier prompt of the day | actions answer today's prompt |
| Source capture, MMI projections and envelopes | none | pure, over captured bytes | H1, H2c | – | an envelope binds the bytes it was made from |
| Market data, Step 1A observatories, ETF reports, status command | snapshots and reports | generate, print | providers, operator | – | nothing decides on the reports |

`PROJECT.json` lists the same components with their sources, says of each whether it is modelled, and
lists the hazards with the line at which each bites and the properties that watch it.

## 2. The modules

Each component has one module with its state as variables and one action per handler, write or system
call; where it has something to promise to others, a small abstract module that it is shown to
implement; and a theorem that its property holds for every value of the constants, where the provers reach it.
The proofs of related components share one `…_proofs` module (section 4 lists them); `SetSums` has the
lemmas about sums the arithmetic proofs share.  An `MC…` module and a `.cfg` instantiate a group of
components for TLC.

    OrderStore      <--implements--  OrderPublish     <--verdict--  OrdersValidator
    EvidenceStore   <--implements--  EvidenceArchive
    PromotedSource  <--implements--  PromotionChain   <--grounding--  AnchorGrounding
    MappedClaim     <--implements--  H1Handoff        -->  H1Step2  -->  V1Review
    Step1Render     -->  WeeklyPipeline  -->  OrderPublish  -->  DailyCheck
    PromotionChain  -->  Availability  -->  PromotedReadiness
    Replacement     -->  ShadowSource  -->  ShadowResponse  -->  ShadowReport (EXTENDS Replacement)
    ObjectCapture, PolicyText  -->  PolicyApproval, ApprovalStatement
    SourceCapture   -->  H1Handoff, H1Step2, PersistedCase

`WeeklyPipeline` sees the others as choices.  It takes a promotion pointer that is or is not there
(what a pointer may claim is `PromotionChain`'s matter), an H1 state that may be reached
(`H1Handoff`), and a publication in two steps, `ParseStep4` and `PublishRest` (opened up in
`OrderPublish`, whose verdict is a choice too: `OrdersValidator` says what it means).  The choices are
wide enough for every behaviour of the detailed modules; that is argued here and not checked, since no run
puts them in one state space.  `ShadowReport` is the one real composition: its publications run beside
the commands of `Replacement`, over the same generations.

Conventions.  A hash or a digest is the value it identifies (no collisions); a document is a version, a
record of the fields a later reader compares, or a model value.  A command is a sequence of actions held
together by `pc` (or `cmd.at`, `at`), one for each write or read another actor could get between; a
command that only reads and then writes once is a single action.  `Crash`, `Kill`, `Fail` or `Swallowed`
ends it at any of them.  Variables marked *history* or *(for the properties)* in the declarations do not
exist in the program; they record what the properties need.  Definitions marked *Mutant* are the code
with a plausible bug; each property is violated by one of them, listed under `mutants`.

### Step1Render — `workflow/step1_research.py`, render and continuity report

`strategy`, `portfolio` are the operator's sources, `prompt`, `rawOutput`, `commitment`, `report` the
files, `retired` the leaves an older version left behind, `buf` what the running command has read.  A
render is ten actions from `BeginRender` to `Commit`; a parse begins with the seven from `BeginParse`
to `PublishReport`.  `OpenPrompt`/`FillPrompt` are the truncation and the filling of a `write_text`;
the JSON files are replaced atomically.  The operator edits sources and prompt, pastes, and damages the
commitment between any two of them.  The metadata template a render leaves beside `raw_output.txt` is left
out, since nothing modelled here reads it.

### WeeklyPipeline — the four steps, their gates, guards and block artifacts

`decision` is the availability verdict by its state, `HOLD` standing for every state no gate admits.
`packet2` and `packet3` carry the mode they were made in and their verdict, `blocks` is the set of block
artifacts on disk.  The gates are the operators `Step2Mode`, `Step3Mode`, `UpstreamGuard4` and
`FinalSafetyGate`; a refused command is a `Refuse…` action that writes a block and raises.
`InvalidateForH1`/`RebuildForH1` are what both H1 commands do first, `BeginClear`/`ClearOne` the
recursive delete that may die in the middle.

### OrderPublish and OrderStore — `parsers/extract_orders_and_summary.py`

The three quarantine files are opened and filled one after another, the text is validated, each
canonical file is replaced, quarantine is emptied; a death comes anywhere.  `OrderStore` is the promise
to a reader: a canonical file is only ever replaced as a whole, by the text validated last.

### OrdersValidator — `validators/validate_orders_output.py`

Every check on rows, plans, budgets and section (2a) is an operator, `Accepted` their conjunction.
Around it is a week: `BeginWeek` brings packet and snapshot, `ParseStep4` enters an accepted answer at
the broker, `Fill` takes an order away.  The broker and the operator's honest copying are the model's
environment: a line of the snapshot may be missing or damaged, not wrong.  Money is counted in cents; an
amount of a plan may be missing or negative, which the code refuses where it reads it.  `covered` (history)
is whether every accepted packet so far kept, cancelled or replaced each open order; where one did not, the
cap is not kept, which is the `open_cap` finding of section 3.

### EvidenceArchive and EvidenceStore — `offline/retirement_evidence`

Any number of processes ingest and verify.  Every system call is an action and so is every lease
validation before it (`Valid(p)`: the coordination path still names the file this process locked), since
in between the anchor may be replaced.  `snap` is what a scan has listed, `litter` a temporary file of
a dead process.  `EvidenceStore` is an append-only set in which no two records share an id.  The
archive implements it until the anchor is replaced, and only until then: a replaced anchor lets two
writers in, and `SupersededStops` says how far the old one still gets.

### PromotionChain and PromotedSource — `workflow/step1_research.py`, layers 0 and 0b–0h

`disk` maps each file of the chain to what it holds.  `Write` is one swallowed layer: with its inputs it
writes and goes on, without them or with a failure the parse resumes after it, and a failed write may
leave the file unreadable.  `ChainMatches` and `AnchorsFresh` are the eligibility check, `Creatable` the
pointer writer's, `Live` the verifier's that Step 2 and Step 3 repeat.  `PromotedSource` is the promise:
while a handoff is live every anchor in it is in its period, and prompt, marker and audit cover nothing
but the handoff that was live.

### H1Handoff and MappedClaim — `workflow/h1_replacement_handoff.py` and its two commands

`prepared`, `answer`, `report` are the leaves, `decision` the availability verdict, `cmd` the running
command with its next step and what it has read.  Prepare and consume share `Clear`, `Rebuild`,
`DropReport` and the two captures, and part at `DropPrepared`/`ReadPrepared`.  `Judged` is the
availability owner's last word with the facts in memory.  `MappedClaim` is the promise the later H1
steps rely on: a claim is made by the command that published its completion or by nobody.  `torn` marks
the one window in which the code does not keep it: a recursive delete that was killed may take the
completion and leave the decision.  The next prepare or consume closes it.

### OrdersValidator and the other validators

`DecisionPacket` is the semantic validation of a Step 2 packet
(`validators/validate_step2_decision_packet_semantics.py`): structure, copy, second check, and the
findings in the code's order.  Copying is one step there and opened up in `ObjectCapture`, the copy two
validators take container by container of an object somebody else may still be changing; its edits
never bring old content back, and its packet variant does not remember completed containers, as in the
code.  `PublicationReceipt` (`state/step2_publication_identity.py`) builds a receipt and verifies it
against bytes; nothing in the repository publishes through a receipt yet, so the caller is outside, and
exactly one field of a receipt may be damaged.

`PolicyText` runs both hand-written JSON parsers of the market source policy over one text, revealed
token by token, beside a reference grammar that knows nothing of their order (`Reference`).
`PolicyApproval` and `ApprovalStatement` follow an approval and a statement from the parser's result to
the binding and to the artifact, with one field wrong at one place.  The two lanes differ, and the
models keep the difference: the approval lane believes the parser on the hash of the raw bytes and does
not hash the retained value again, the statement lane derives both.

### AnchorGrounding — the grounding layers of a parse

Every layer of the code is an action over `files`: it reads what it reads again (`anchors`), uses what
was captured once (`captured`), and may swallow a failed write.  The two lineages of a payload are one
content, since the code compares them before either is written.  A memo names every anchor.  A
revocation takes effect on the manifest's own day, over the settings' day, as the code compares them.

### Availability, PromotedReadiness — the verdict and the reports after it

`Availability` is the ladder of `state/research_availability.py` with everything it reads, and the two
promoted verifications that read the files again after its first pass.  `Evaluated` is the ladder,
`Basis` (history) what it rested on.  A compiled handoff is 0 days old or of unknown age; H1 facts are
their oldest and newest day; the machine's clock stands at the last day.  `mixed` sets apart the one
window in which a payload was written and its validation was not.  `PromotedReadiness` is the
verification before Step 4, the dry run over it and the preflight that reads both back: it is report-only,
and after a swallowed write it may summarise an older pair, which is why its property asks for one
promotion only when no write of the run failed.  `Overwrite` is an overlapping command of the operator.

### SourceCapture, H1Step2, PersistedCase, V1Review

`SourceCapture` is the stable read all H1 and H2c code goes through, one action per system call, among
writes, renames and moves (every write gets a distinct timestamp).  The other modules take a capture
as one read.  `H1Step2` captures the long-horizon source, renders, captures the answer, reports and
judges currentness, with the gate decision a choice.  `PersistedCase` has both workflows over one
directory: the two-command case and the one-process session; two commands overlap.  `V1Review` keeps all
of the arithmetic of the proposal, the compiler and its verifier, over files the operator edits
between any two of its reads.  Of the errors the compiler and the verifier can raise only one is ever raised
on what an earlier stage made, a limit price that rounds to nothing (`LIMIT_PRICE_INVALID`); `StagesAgree`
says so.  The code computes with exact decimals; the module counts them on a scale given by two constants:
shares, offsets, weights and r in `Parts` of one, marks and amounts in units of which `Cent` make a cent.
Any finite set of decimals is whole on a scale that is fine enough, unrounded closes and fractional shares
included, and on it nothing is rounded but what the code rounds, a limit price to cents and a number of shares down
(`ScaleExact`).  Numbers of more digits than `mmi/canonical.py` keeps are left out: they end a review in a
refusal, so what is said of published orders holds with them, while `StagesAgree` is about numbers within
these digits.

### Replacement, ShadowSource, ShadowResponse, ShadowReport

`Replacement` renders, reads and reports generations with no lock but an exclusive `mkdir`, a marker and
a rename that does not replace.  `ShadowSource` reads one generation for the shadow package (a directory
may have been damaged by hand), `ShadowResponse` judges an answer against a package built again from
disk, and `ShadowReport` publishes.  Case folding and Unicode normalisation are left out.

### DailyCheck — `workflow/daily_execution_check.py`

Render and parse of a day over a week's files that change between reads; every file is truncated and then
filled.  The parse reads the packet a second time without a gate, and the answers to earlier prompts
stay, as in the code.  One command runs at a time.

## 3. What is checked

A run is a composite of several components that do not touch each other: a behaviour is of one of them
(`tool`), the others rest.  The components with a theorem are EXTENDED: they have their own variables, and the
properties a run checks are the ones the theorems name.  The other five (`DecisionPacket`, `ShadowSource`,
`PolicyText`, `ShadowResponse`, `ObjectCapture`) are instanced and share the variables `part1`,
`part2`, …; their property `…Sound` in the `MC` module names the properties of the instance it stands for.

| Run | Components | Properties | Bounds, and why they are enough |
|---|---|---|---|
| `step1` | Step1Render; AnchorGrounding; SourceCapture | `CommitmentSound`, `NoStaleReport`, `ReportSound`; `GroundingSound`; `CaptureSound` | 2 versions of a source: one rendered, one current.  2 anchors, 2 days, 2 parses, 1 edit and 2 failed writes, the second of a packet (both that a parse makes of its packet may fail), with registries absent, broken, clashing and revoked.  2 directories, 2 files, 2 chunks, 3 edits, which is enough to write, take back and move; the initial tree is one of each kind up to renaming |
| `weekly` | WeeklyPipeline; DecisionPacket; PublicationReceipt; DailyCheck; ShadowSource | `NoOrdersWithoutStrict`, `VerdictJudgesResearch`, `ChecklistSound`, `PublishAdmitted`; `PacketSound`; `ReceiptSound`; `DailySound`; `SourceSound` | 2 research texts, a refusal only while no block is there (`MaxBlocks = 0`): blocks only ever close gates, and the proofs hold for every bound.  The week is searched in three parts, each as large as it can be: with whole clears only; with clears that die half-way, one text and no further refusal; and with half clears and two texts up to Step 2.  Packets vary one part at a time around an ordinary one, rotations up to length 3 (a chain and a cycle).  2 days and 2 edits of a receipt's files, the second of which takes the first back.  2 tickers, 2 daily commands, 2 writes beside them.  4 edits while a generation is read, the last two of its files: each file once |
| `orders` | OrderPublish; OrdersValidator; PolicyText; ShadowResponse; ObjectCapture; PolicyApproval; ApprovalStatement | `PublicationSound`, `StoreSpec`; `OpenSound`, `NewMoneyBounded`; `TextsMeetGrammar`; `ResponseSound`; `ObjectSound`; `ApprovalSound`; `StatementSound` | 3 texts: published, quarantined and in memory can all differ.  2 tickers, 2 plans, 2 rows, amounts on both sides of a cap of 5, a target of 2 and a tolerance of 1; at most 4 open per ticker, so that two can pass the cap; a snapshot has lines only where a plan to keep reads them.  Texts of at most 7 tokens, and objects of two members (9 tokens, the shortest text that repeats a key and ends) against bounds of 1 to 3 nodes, with at most two odd tokens: every bound is met and passed, and any two defects meet.  Answers right or with one thing wrong, statements of up to 4 letters against a term of 3 (with a letter or a mark beside it); contracts that change and change back.  3 containers, so that a shared and a cyclic one occur, and 2 edits |
| `evidence` | EvidenceArchive | `ArchiveSound`, `OutcomeHonest`, `CleanSound`, `StoreSpec` | 2 processes; 4 sources: two of one id in different partitions, one without an id, one malformed; the anchor replaced once, and one record edited outside the tools, of the shared id or of none |
| `promotion` | PromotionChain; Availability; PromotedReadiness; H1Step2 | `PointerBacked`, `CleanParseCurrent`, `AuditNeedsThisStep2`, `PromotedSpec`; `DecisionSound`; `ReadinessSound`; `H1ReportSound` | 2 anchors, one of which ends first; 2 days; 2 parses, so that every layer can meet a file of an earlier one, the second of either registry and of the same memo or one that relies on less; 1 fault.  3 days against limits of 0 and 1, 2 universes and settings without one or without a date, 2 compilations, H1 facts that are ahead of the first day and fresh on the second, 3 edits, the third of the settings or under a running command.  2 handoffs and 2 packets, one of them buyable, 3 rewrites beside the dry runs, the third an answer to Step 2 or under a command that still has something to read.  2 entries of different days, each in a payload of its own, 1 answer.  Every component starts at its earliest state; the operator and the clock lead to the others |
| `h1` | H1Handoff; PersistedCase | `ClaimSound`, `ClaimWithinPeriod`, `ClaimSpec`; `CaseSound` | 2 settings dated 1 and 3, 2 portfolios dated 0 and 2 and none, 2 answers to a prompt, 3 days against limits of 1 and 2, so that facts are fresh, stale, too old and from the future; 2 preparations.  2 commands, 4 edits, the last two of them answers: a receipt needs both answers, and what else a command reads it has read before them |
| `review` | V1Review; Replacement; ShadowReport | `ReviewSound`; `GenerationsSound`; `ShadowSound` | 3 tickers (core, satellite, extended), 2 versions of strategy, portfolio, ceiling and fraction, 2 sessions; one publication.  It starts at the first version of each, which edits leave and never take back.  Parts are twentieths, the unit of an amount the 4000th of a cent: marks have tenths of a cent, shares halves, and limit prices fall between two cents.  3 commands that start in the order of their names, 3 versions of the inputs of a generation, one of them unusable, and 2 of its template, 2 edits; then 2 publishers that start in order, and 3 edits of a source and saved halves of an answer together |

`TypeOK` of a component with theorems is proved and not run; the instanced ones check theirs within
their `…Sound`.  What a property says stands above its definition.

Symmetry is used where the values are told apart by equality only: the research texts in `weekly`,
the processes in `evidence`, the commands and the answers in `h1`, the promoted handoffs in `promotion`;
the commands and publications of `review` start in the order of their names instead.

A run that would take longer than a few minutes is bounded further in its `MC` module, by a conjunct of
its next-state relation that has a name and a comment (`AnswersLast`, `OneDamaged`, `EvaluatedAmid`, …;
the table says what each leaves out).  Such a bound takes behaviours away from the instance and changes
neither the component's actions nor its properties.  The safety properties of these components are
theorems as well (section 4), and hold for behaviours beyond every bound; the five components without one
are bounded as the table says, and what they are checked for holds within that.

Deadlock is checked in every run.  The bounds of some components run out and the operator stops; these
stutter explicitly, and only when every command has ended (`AtRest` in the `MC` module).

Fairness and liveness.  No specification assumes fairness and none states a liveness property.  Every
command is started by a person, nothing retries and nothing waits: a refused command raises, a lock
that is taken is reported and not waited for.  The code promises no progress, so there is none to check.

Five more runs show where the code does not do what a document, a docstring or a test says of it; each
checks the one sentence as a property, and TLC finds a behaviour that refutes it.

| Run | Property | What happens |
|---|---|---|
| `residual_packet` | `DecisionOnlyNeverAudited` | A packet parsed under the promoted decision-only verdict is still on disk when Step 1 is parsed again as `STRICT_FRESH`, and is audited into order readiness. The guard's docstring (`workflow/step3_audit_engine.py:175`) says it must never be. |
| `no_output` | `NoOutputFailsClosed` | A parse without output fails closed, and then the rebuild of either H1 command judges the earlier parse's files and opens the run again, against `docs/weekly_run_operator_runbook.md:169`. |
| `open_cap` | `OpenWithinCap` | An open order that no plan names is in no sum, so all open orders together pass `hard_cap_open_orders_budget`, which the runbook (`:95`) calls their ceiling. |
| `replacement_neutral` | `ReplacementIsNeutral` | A `REPLACE_EXISTING` plan for a ticker with nothing open buys new exposure outside target and ceilings, though the validator calls replacements budget-neutral. |
| `promotion_stale_preview` | `DerivedFromPresent` | When the preview layer fails, a candidate made from the previous preview still passes the hash chain against the present signals, which the design document says protects against exactly that. |

One more point came up and has no run of its own.  When the pointer-preview layer (0g) is swallowed, the
pointer writer (0h) acts on the preview of the earlier parse and may make it live again, where
`docs/step1_evidence_first_research_design.md:1601` says the pointer exists if and only if the latest run
was promotable.  `PointerBacked` and `PromotedSpec` hold all the same: what is live is old, not expired.

Two more are like it and have no run either.  The support signals are compiled from the evidence packet
on disk; after a swallowed failure they are those of an earlier parse, where a comment in
`workflow/step1_research.py:4062` says they follow the packet just written.  And a Step 1 parse that fails
leaves the payload of the one before (`workflow/step1_research.py:1933`), which is the `no_output` finding
seen from the availability evaluator.

The last one came out of the proof of `GroundingSafe`.  A parse compiles its packet twice, and a write that
fails is swallowed (`workflow/step1_research.py:2407-2419`).  If both fail, the packet on disk is that of an
earlier parse; the join at the end compares the digests of the approvals and not the days
(`workflow/step1a_grounding_compile.py:1851-1998`), so when the approvals file has not changed the support
signals are compiled from approvals that stood on the earlier day.  One that has expired since, or whose
revocation has taken effect, still grounds them, where
`docs/operator_approved_anchor_grounding_runbook.md:236` calls an expired approval not groundable.
`GroundedByCapture` therefore asks for the day of the parse only where the parse wrote its own packet, and for
some day so far otherwise; with one failed write only, which was the bound of the run before, the stronger
form held.

## 4. What is proved

The proof modules show the following with TLAPS, for every value of the constants that satisfies the
named assumptions of the module; each is `THEOREM … == Spec => []Inv` or `Spec => Action`.

| Module | Assumptions | Inductive invariant | Theorems |
|---|---|---|---|
| `Step1Render_proofs`, of `Step1Render` | file states differ from contents | `TypeOK`, `Progress` (what the buffers hold at each step), `EvidenceInv` (what is retired by then) and, for the report, what a running parse has compared by its step (`ReportWindow`, `Found`) | `TypeCorrect`, `CommitmentSafe`, `MatchSafe`, `CommitmentStands`, `StaleReportSafe`, `ReportStands`, `PasteSurvives` |
| – of `SourceCapture` | the tokens for what a name may lead to are no directories and no files; the bounds are naturals | `CaptureInv` = `CaptureTyped`, `StandingSeen`, `Steady`, `FirstStood`, `Quiet` and the property | `CaptureSafe` |
| – of `AnchorGrounding` | dates are naturals, an absent file approves nothing; the bounds are naturals | `GroundingInv` = `GroundingTypes`, `PacketGrounded` (what the packet on disk grounds on stood in the source it names, on some day), `SupportGrounded`, `EndJoined` | `GroundingSafe` |
| `WeeklyPipeline_proofs`, of `WeeklyPipeline` | `None` is no version | `StrictInv`, `VerdictInv`, `ExitInv`, `PublishInv` over `TypeOK` | `TypeCorrect`, `OrdersNeedStrict`, `VerdictSafe`, `ChecklistSafe`, `PublishSafe` |
| – of `DailyCheck` | amounts of settings, portfolio and market are numbers where they are there at all, and the market knows the tickers of the packet and of the orders | `DayInv` = `DayTyped`, `ParseHeard`, `GenerateHeard` (what a command holds at each step), `Agreed`, `ActionsOfTheWeek`, `EdgeIsNoted` | `DailySafe` |
| – of `PublicationReceipt` | at least two days | `ReceiptInv` = types, `Kept` (the receipt is what was built, or that with one field another), `Asked` (the verdict is the verification of what was asked) | `ReceiptSafe` |
| `Orders_proofs`, of `OrderPublish` | texts are not file states | `PublishInv` = `Progress` (up to which file the canonical set is the new text, and that quarantine holds it) with the two properties | `TypeCorrect`, `RecoverySafe`, `ExitSafe`, `PublicationSafe`, `Refinement` |
| – of `OrdersValidator` | tickers are finitely many; amounts are numbers, absent or damaged, of either sign; the bounds are naturals | `BookInv` = `OpenSound`, `SnapshotTrue` | `OpenSafe`, `NewMoneySafe` |
| – of `ApprovalStatement` | inputs say of themselves what a parser may find | `StatementInv` = `HandedOver`, `Concluded` by the step | `StatementSafe` |
| – of `PolicyApproval` | accepted ids are spelled in lower case; documents have the defects there are | `ApprovalInv` = `PassedOn`, `Composed` by the stage | `ApprovalSafe` |
| `EvidenceArchive_proofs` | malformed and quarantined sources are sources and disjoint | `TypeOK`, `Phases`, `Leases`, `Lateness`, `Decided`, `OneRecordPerId`, `Reported`, `Scanned` | `TypeCorrect`, `UniqueIds`, `Superseded`, `ArchiveStands`, `HonestExits`, `CleanReports`, `CurrentReports`, `CleanStands`, `ImplementsStore` |
| `PromotionChain_proofs`, of `PromotionChain` | registries declare periods of anchors; the sentinels differ | `TypeOK`, `StepsOK`, `PacketDay`, `PointerBacked`; for clean parses `CleanInv` | `TypeCorrect`, `AlwaysBacked`, `Implements`, `PointerIsCurrent`, `AuditWaitsForStep2` |
| – of `Availability` | settings have a day and a universe or lack them; `FreshDays <= StaleDays` | `AvailInv` = `DecisionSound`, `AnswersTyped`, `BeingJudged`, `BeingKept`, `VerdictStands` and, for a running evaluation, `SeenSound` | `DecisionSafe` |
| – of `PromotedReadiness` | buyable packets are packets | `ReadyInv` = `ReadyTyped`, `StageOK`, `ReportsOK` and the property | `ReadinessSafe` |
| – of `H1Step2` | payloads and answers cite entries of the source, each published some day; the sentinels differ | `H1Inv` = `H1ReportSound`, `H1CmdOK`, what was admitted and what is committed | `H1ReportSafe` |
| `H1Handoff_proofs`, of `H1Handoff` | `FreshDays <= StaleDays`, dates are naturals, the sentinels differ | `TypeOK`, `CompletionBacked`, `ClaimBacked`, `ClaimWithinPeriod`, `CommandOK` | `HandoffTypes`, `CompletionStandsBacked`, `ClaimStandsBacked`, `ClaimStands`, `ClaimStaysWithinPeriod`, `HandoffImplementsClaim` |
| – of `PersistedCase` | the sentinels differ from contents | `CaseInv` = `CaseTyped`, `ProcOK` for each command, `OneSeals`, `OneManifests`, `PreparedOnce`, `Sealed`, `PairStood` and the property | `CaseSafe` |
| `V1Review_proofs`, of `V1Review` | tickers are finitely many, core and satellite apart; on a scale of `Parts` and `Cent` (any positive naturals): any shares, commitments and caps ≥ 0, r from 0 to 1, marks positive and so finely counted that `Parts`² divides them; a ladder's offsets lie strictly between −1 and 0, its weights are positive and add up to 1 | `Inv` = `TypeOK`, `GenAt`, `ResultOK` | `ReviewSafe`, `ScaleExact` |
| – of `Replacement` | the first version is a version | `GenInv` = `GenTyped`, `OneRender`, `DirectoriesOK`, `FinalsOK`, `RequestOK` for each command | `GenerationsSafe` |
| – of `ShadowReport` | none of its own | `ShadowInv` = `GenInv`, `ShadowTyped`, `ReportsOf`, `PublicationOK` for each publisher | `ShadowSafe` |

Why the strengthenings are needed.

- *Step1Render.* That a commitment describes the prompt is not inductive: at `Commit` it rests on the
  buffers still being what the prompt was compiled from, and on the old commitment being gone before
  the prompt is opened.  `Progress` and `EvidenceInv` carry those two facts from step to step.
  `ReportStands` needs in addition what a running parse has compared so far, since the endpoints are read one after
  another and the report is published last.
- *WeeklyPipeline.* No orders without a fresh verdict needs its prefix: no audited packet, no running
  command past a gate.  The verdict and the candidate are related through the running parse, and the
  checklist rests on `parse4 = "ok"` only ever standing beside a whole set.
- *OrderPublish.* A mixed set is recoverable because at each replace quarantine still holds all of the
  new text; the invariant says where the boundary between old and new files lies.
- *OrdersValidator.* No check of the validator looks at the open orders all together, so that they stay within the cap
  is what the checks add up to.  `SnapshotTrue` says that between `BeginWeek` and the parse an order can only
  have been filled.  Then what is open for a ticker afterwards is on at most two different plans of its
  own: what is left of the old order on a `KEEP_EXISTING` plan that agrees with the snapshot (G4), what is new on
  a plan that submits and agrees with the rows (G3); each agrees up to the tolerance.  Summed ticker by
  ticker that is no more than all plans, each with a tolerance, and the plans are within the cap.
  `NewMoneySafe` is the same summation over rows: a ticker that no plan replaces has rows of new money only.
- *SourceCapture.* That what was captured stood there at one moment is not inductive while the reads go on:
  `FirstStood` and `Steady` say which contents the path led to when the first reading began, and that a
  witness found unchanged means nothing was written in between.  `Quiet` is the other half: nobody
  touching the tree, the capture never finds it unstable.
- *AnchorGrounding.* The join at the end of a parse compares files that other parses may have left, so what the
  packet grounds on is followed across parses, by the source it names and a day on which it stood there
  (`PacketGrounded`).  The support signals take their approvals from that packet, which nothing writes before the
  join (`SupportGrounded`); and a parse ends joined, or with a packet and support signals that ground on no
  approval (`EndJoined`), which is where the digests turn the packet's source into the captured one.
- *DailyCheck.* What a command holds in hand is what it heard at that step (`ParseHeard`, `GenerateHeard`), of files
  that change meanwhile; the actions are those of the packet read first, the text is theirs unless a parse was cut off
  between its two writes.  That a close past the corridor is near enough to be noted is arithmetic on the
  tolerance (`StrayedNear`).
- *PublicationReceipt.* The verdict is related to the last question asked and not to the present files, and a
  receipt damaged in one field differs in that field from every rebuilding.
- *PolicyApproval, ApprovalStatement.* One field is wrong, at one place.  The lemma on each side is that one is not
  enough: a parser result whose identity is its value's (`FittingParsed`) and an object or statement result that
  fits the value (`FittingObject`, `FittingStatement`) is the right one if it may be bound, since every claim
  is held by two fields.  What is kept afterwards is held to by its identity (`HeldIsAsComposed`).  That the
  names of an approval without findings lead to one source each is `WithoutFindingsNamesResolve`.
- *EvidenceArchive.* Uniqueness needs that a decision stays true until the link it was made for
  (`Decided`), which needs that under the original anchor no other writer is at work (`Leases`);
  a clean report needs that once a listing differs from the archive it is never found equal again while
  the archive only grows, stray files included (`Scanned`).
- *PromotionChain.* The eligibility check is the only step that makes up an approval, every other step
  copies one or loses it (`StepCopies`), so what it establishes carries over to every file the approval is
  copied to.  The refinement adds that the steps that do not touch prompt, marker and audit
  (`MostUnrecorded`) can only promote, withdraw or stutter (`Switches`).  `CleanInv` is about parses in which no layer
  has failed yet: up to its step each file is what its writer makes of the files before it, so at the end the pointer is
  derived from the packet and the signals that are there.
- *Availability.* Two verifications read the files again after the ladder's first pass, so the verdict
  rests on what is in hand and not on what is on disk: `SeenSound` says what an evaluation has read so far,
  `BeingJudged` and `BeingKept` what a parse or a store under way will leave, `VerdictStands` what the verdict on disk was
  made from.
- *PromotedReadiness, H1Step2.* A report names what it read; the invariant says by the stage that all of it was
  of one promotion (`ReportsOK`, `StageOK`), or that the commitment, the answer and the payload in hand
  fit each other and the day they were admitted on (`H1CmdOK`).
- *PersistedCase.* A case is consumed at most once because the exclusive write of the manifest is made by
  one command only (`OneSeals`, `OneManifests`); that it is consumed whole needs what each command has read by its step
  (`ProcOK`), as the two halves of an answer are read one after another (`PairStood`).
- *Replacement, ShadowReport.* A reader never sees half a generation: a directory under its final name
  was completed by the one render that made it (`OneRender`, `DirectoriesOK`), and a final report is the whole
  attempt of a command that has left (`FinalsOK`).  `ShadowReport` carries `GenInv` along and adds the same for
  publications (`PublicationOK`).
- *H1Handoff.* `CommandOK` says what a running command has established by its step: past the drop there is
  no completion, past the read the prepared handoff is its own, past the publication the completion
  is its facts.  `JudgedSoundly` is the policy arithmetic: facts that are recognised are fresh.
- *V1Review.* `GenAt` says for each step of a review which parts of the generation have been read, that two readings
  of one source agree, and that at some moment all that has been read stood on disk together
  (`CeilingStood`); versions only grow, so a source found unchanged has not been away.  `ResultOK` carries it to
  the result.  The unit is fine enough that the worth of a part of a share and the fraction r of the holdings
  are whole (`ScaleExact`).  On a whole generation the rest is arithmetic: the target is within every capacity
  (`PositiveProposal`), the legs of a ladder cost no more than the target though each price is rounded
  up and each number of shares down (`NotionalBound`), and one more order of that size keeps the ceiling, the
  fraction and the balance (`OrderFits`, `CompiledWithinCaps`); so the compiler and the verifier, which compute it all
  anew, find nothing to refuse (`CompilerAgrees`).

Sums.  The code sums over tickers, rows, plans and steps of a ladder.  The library's induction theorems cannot be
instantiated, so `SetSums` argues without them: were a fact about sums false of some subset of a
finite set, it would be false of a smallest one (`Smallest`, from the well-foundedness of inclusion),
and taking one element out of that gives the contradiction.  This yields that sums are monotone, additive, split over
disjoint sets and can be taken group by group (`SumMono`, `SumPlus`, `SumUnion`, `SumGroups`).

Each preservation proof has one step per action of `Next`; the refinements map each step to a step of
the abstract module or a stutter.  The inductive invariants were checked with TLC on the instances of the runs before
they were proved.

What the proofs changed in the models.  The rows of `V1Review`'s `Disposition` overlapped in their guards, so
that the disposition of a holding was not determined; they are disjoint now, in the order of the code.
`StagesAgree` was false for a mark so low that a step's limit price rounds to nothing: the code raises there,
and so does the model now.  In `OrdersValidator` the amounts of a plan had been taken to be there
and not negative, which is a check of the code and is one of the model now, and an empty packet is not
held against the cap; the plans of a packet are a list, in which a ticker may come twice until a check
refuses it, and an amount may be damaged and not only missing.
`GroundedByCapture` was false of a parse whose two writes of the packet both fail (section 3).  Most properties
of section 4 had been stated in an `MC` module over an instance; they are stated in the component's module
now, with the assumptions on its constants.

Only model-checked, and why:

- `PolicyText` (`TextsMeetGrammar`) and `ObjectCapture` (`ObjectSound`) compare a parser, or a copy of a graph,
  with what a recursive definition says of every input; that is induction over data, and tlapm loses its SMT
  backend in a module with a `RECURSIVE` operator.
- `DecisionPacket` (`PacketSound`) and `ShadowSource` (`SourceSound`) fold over sequences and sort; what a fold
  or a sort returns is again induction over data.
- `ShadowResponse` (`ResponseSound`) rests on scans of a text that are a fold as well.
- The five claims of section 3 that fail, which TLC refutes.

Liveness under fairness and `ENABLED`, which the prover does not reach either, the modules do not use.

## 5. What is left out, and why

Inside the modelled parts:

- *Texts.* Prompts, formatting, messages, the rules one field meets by itself.  A parsed answer is valid
  or it is not, except where a module is about the parsing; the wording of a diagnostic decides nothing.
- *Limits of the archive scan*, symlinked roots and forked children: a scan that meets a limit reports
  findings, and a forked child can only make a lock look taken.
- *Operator-approved anchors* in `PromotionChain`: the code never promotes them.  Their registries are
  `AnchorGrounding`'s.  The weekly workflow identity check between signals and preview.
- *Two overlapping H1 commands.* They are started by hand, one after another; nothing in the code
  orders them, and two at once could publish and clear in any order.
- *The priority order of the availability sources* in the models that read the verdict: they take what
  the Step 1 files warrant as a choice, made anew at each evaluation, so that no property depends on it.
  The order itself is `Availability`.
- *Death of a Step 1 parse after it has replaced the research.* `VerdictJudgesResearch` covers parses that
  reach their evaluator; after such a death the old verdict does admit the new research, and the model
  says so with `unjudged`.
- *Code no command calls*: the persisted-refusal reader of the availability evaluator, the portable
  validators of a persisted case, and the first payload format of the long-horizon source.
- *Torn registries* are possible in `AnchorGrounding`; no property relies on their absence.
- *Two readings of one file with a look at its state around them* are one step in `ShadowSource`;
  `SourceCapture` is where such a sequence is opened up.

Whole parts that are pure functions or decide nothing (market indicators, calendars, Step 1A observatories,
ETF evidence reports, the status command) are not modelled: they have no order of events to get wrong.

## 6. Plan

Every part of the inventory that changes state another part reads is modelled, and every property of a
component that a run extends is proved.  What is left is induction over data: `ShadowResponse` with its scan
as a relation and not as a fold, and then the folds of `DecisionPacket` and `ShadowSource` in the same way.
