----------------------------- MODULE H1Handoff -----------------------------
(***************************************************************************)
(* cli/run_h1_replacement_prepare.py and run_h1_replacement_consume.py     *)
(* over workflow/h1_replacement_handoff.py: the operator prepares a prompt *)
(* over the strategy settings and the portfolio, has it answered by hand,  *)
(* and consumes the answer.  Prepare clears the availability decision,     *)
(* drops the old completion and the old preparation, captures both sources *)
(* and publishes the prepared handoff last.  Consume clears and drops      *)
(* again, proves that the sources still are the prepared ones, reads the   *)
(* answer once, publishes the mapping report last and lets the             *)
(* availability owner judge the facts it kept in memory.                   *)
(* A digest is the version it is taken from, and the context identity, in  *)
(* which the time of the run counts, is the whole context.  The operator   *)
(* names expected digests of the sources: a capture that differs fails, so *)
(* the capture takes what is there.  A failure, a refused check and a kill *)
(* all end a command where it stands (Fail).  The rest of what Step 1 has  *)
(* on disk is only the verdict it warrants, chosen anew at each            *)
(* evaluation; one operator runs one command at a time.  Left out: the     *)
(* optional run timestamp of the settings, a portfolio without a date      *)
(* (both only fail) and the bytes of prompt and answer.                    *)
(***************************************************************************)
EXTENDS Naturals, FiniteSets

CONSTANTS
  Strategies, Portfolios,  \* versions of the two source files
  Absent,                  \* no portfolio file
  AsOf, Dated,             \* the date in a strategy, in a portfolio
  Texts,                   \* answers to one prompt
  None,
  FreshDays, StaleDays,    \* availability policy
  LastDay,                 \* bound: the last day
  MaxPrepared              \* bound: prepared handoffs

ASSUME FreshAssumption == FreshDays \in Nat /\ StaleDays \in Nat /\ FreshDays <= StaleDays
ASSUME DateAssumption == AsOf \in [Strategies -> Nat] /\ Dated \in [Portfolios -> Nat]
ASSUME DayAssumption == LastDay \in Nat
ASSUME PortfolioAssumption == Absent \notin Portfolios

VARIABLES
  strategy, portfolio,  \* the source files
  today,
  shown,                \* the preparations published so far, whose prompts the operator may hold
  prepared,             \* h1_prepared_handoff.json
  answer,               \* h1_response.raw
  report,               \* h1_legacy_step1_mapping_report.json
  decision,             \* the degraded-mode decision of Step 1
  torn,                 \* a killed delete of artifacts/current took some of these files
  cmd                   \* the running command: its next step and what it has in memory

sources == <<strategy, portfolio, today>>
files == <<prepared, answer, report, decision>>
vars == <<sources, shown, files, torn, cmd>>

Contexts == [run : Nat, day : Nat, strategy : Strategies, portfolio : Portfolios \cup {Absent}]
Answers == [to : Contexts, text : Texts]

\* The mapping report binds the answer and, through its prompt, the context.
Reports == Answers

ASSUME NoneAssumption == None \notin Contexts /\ None \notin Answers

Steps == {"idle", "rebuild", "drop report", "drop prepared", "mint", "strategy", "portfolio",
          "prepare", "read", "answer", "report", "reclear", "decide"}
Idle == [at |-> "idle", named |-> None, context |-> None, facts |-> None]

\* What the Step 1 files warrant without H1: no decision at all, one of the
\* fallback states H1 may replace, a fresh, stale, compiled or promoted state,
\* manual review, or manual review for nothing but an expired last-good handoff.
Warrants == {"none", "fallback", "protected", "manual", "expired"}
States == (Warrants \ {"expired"}) \cup {"H1"}
Decisions == [state : States, facts : Reports \cup {None}, now : Nat]

Plain(warrant) ==
  [state |-> IF warrant = "expired" THEN "manual" ELSE warrant, facts |-> None, now |-> 0]
NoDecision == Plain("none")

\* Mutant: the age limit of stale research.
OldestFreshStale(context, now) ==
  /\ now <= AsOf[context.strategy] + StaleDays
  /\ now <= Dated[context.portfolio] + StaleDays

\* The oldest required fact controls.
OldestFresh(context, now) ==
  /\ now <= AsOf[context.strategy] + FreshDays
  /\ now <= Dated[context.portfolio] + FreshDays

TooOld(context, now) ==
  \/ now > AsOf[context.strategy] + StaleDays
  \/ now > Dated[context.portfolio] + StaleDays

FutureDated(context, now) ==
  \/ now < AsOf[context.strategy]
  \/ now < Dated[context.portfolio]
  \/ now < context.day

\* The state the availability owner settles on last, with the facts in memory.
Judged(facts, now, warrant) ==
  LET defective == FutureDated(facts.to, now) \/ TooOld(facts.to, now)
  IN CASE defective /\ warrant = "fallback" -> Plain("manual")
       [] /\ ~defective /\ OldestFresh(facts.to, now)
          /\ warrant \in {"fallback", "expired"} -> [state |-> "H1", facts |-> facts, now |-> now]
       [] OTHER -> Plain(warrant)

----------------------------------------------------------------------------
Init ==
  /\ strategy \in Strategies
  /\ portfolio \in Portfolios \cup {Absent}
  /\ today = 1
  /\ shown = {}
  /\ prepared = None /\ answer = None /\ report = None
  /\ decision = NoDecision
  /\ torn = FALSE
  /\ cmd = Idle

Goto(step) == cmd' = [cmd EXCEPT !.at = step]

\* Either command first deletes the decision, then the two diagnostics.
Clear(named) ==
  /\ cmd' = [Idle EXCEPT !.at = "rebuild", !.named = named]
  /\ decision' = NoDecision
  /\ UNCHANGED <<sources, shown, prepared, answer, report, torn>>

BeginPrepare == cmd.at = "idle" /\ Cardinality(shown) < MaxPrepared /\ Clear(None)
BeginConsume == cmd.at = "idle" /\ \E context \in shown : Clear(context)

\* The decision is derived again without H1, if the Step 1 files allow one.
Rebuild ==
  /\ cmd.at = "rebuild"
  /\ \E warrant \in Warrants : decision' = Plain(warrant)
  /\ Goto("drop report")
  /\ UNCHANGED <<sources, shown, prepared, answer, report, torn>>

\* Mutant: prepare leaves the completion to the consume that follows.
DropReportOnce ==
  /\ cmd.at = "drop report"
  /\ report' = IF cmd.named = None THEN report ELSE None
  /\ torn' = FALSE
  /\ Goto(IF cmd.named = None THEN "drop prepared" ELSE "read")
  /\ UNCHANGED <<sources, shown, prepared, answer, decision>>

DropReport ==
  /\ cmd.at = "drop report"
  /\ report' = None
  /\ torn' = FALSE
  /\ Goto(IF cmd.named = None THEN "drop prepared" ELSE "read")
  /\ UNCHANGED <<sources, shown, prepared, answer, decision>>

----------------------------------------------------------------------------
DropPrepared ==
  /\ cmd.at = "drop prepared"
  /\ prepared' = None
  /\ Goto("mint")
  /\ UNCHANGED <<sources, shown, answer, report, decision, torn>>

\* The run gets its time before it captures anything.  Its number stands for
\* the instant, which no two runs share; the digests the operator expects of
\* the sources are those of some version.
Mint ==
  /\ cmd.at = "mint"
  /\ \E s \in Strategies, p \in Portfolios \cup {Absent} :
       cmd' = [cmd EXCEPT !.at = "strategy",
                 !.context = [run |-> Cardinality(shown) + 1, day |-> today,
                              strategy |-> s, portfolio |-> p]]
  /\ UNCHANGED <<sources, shown, files, torn>>

\* A source is captured only under its expected digest, the absence of a
\* portfolio only when it is proven.
CaptureStrategy ==
  /\ cmd.at = "strategy"
  /\ strategy = cmd.context.strategy
  /\ Goto("portfolio")
  /\ UNCHANGED <<sources, shown, files, torn>>

\* The projections refuse a source dated after the run.
Projectable(context) ==
  /\ AsOf[context.strategy] <= context.day
  /\ context.portfolio # Absent => Dated[context.portfolio] <= context.day

\* The prompt is built from the two sources and the run: in a consume it
\* equals the prepared one, as the captured sources and the resumed run do.
CapturePortfolio ==
  /\ cmd.at = "portfolio"
  /\ portfolio = cmd.context.portfolio
  /\ Projectable(cmd.context)
  /\ Goto(IF cmd.named = None THEN "prepare" ELSE "answer")
  /\ UNCHANGED <<sources, shown, files, torn>>

\* The prepared handoff is published by a rename, and its prompt shown.
PublishPrepared ==
  /\ cmd.at = "prepare"
  /\ prepared' = cmd.context
  /\ shown' = shown \cup {cmd.context}
  /\ cmd' = Idle
  /\ UNCHANGED <<sources, answer, report, decision, torn>>

----------------------------------------------------------------------------
\* Only the preparation the operator named is resumed, with its own time.
ReadPrepared ==
  /\ cmd.at = "read"
  /\ prepared = cmd.named
  /\ cmd' = [cmd EXCEPT !.at = "strategy", !.context = prepared]
  /\ UNCHANGED <<sources, shown, files, torn>>

\* The answer names the context of the prompt it answers; the mapping needs a
\* portfolio.
Binds(response, context) ==
  /\ response # None
  /\ response.to = context
  /\ context.portfolio # Absent

\* The answer is read once: envelope, response, candidate, report and facts
\* are all of these bytes.
ReadAnswer ==
  /\ cmd.at = "answer"
  /\ Binds(answer, cmd.context)
  /\ cmd' = [cmd EXCEPT !.at = "report", !.facts = answer]
  /\ UNCHANGED <<sources, shown, files, torn>>

PublishReport ==
  /\ cmd.at = "report"
  /\ report' = cmd.facts
  /\ Goto("reclear")
  /\ UNCHANGED <<sources, shown, prepared, answer, decision, torn>>

Reclear ==
  /\ cmd.at = "reclear"
  /\ decision' = NoDecision
  /\ Goto("decide")
  /\ UNCHANGED <<sources, shown, prepared, answer, report, torn>>

\* The settings are read again, and their as_of is today for the decision.  An
\* evaluation that raises falls back to NO_OUTPUT without facts, or writes nothing.
Decide ==
  /\ cmd.at = "decide"
  /\ \/ \E warrant \in Warrants \ {"none"} :
          decision' = Judged(cmd.facts, AsOf[strategy], warrant)
     \/ decision' \in {Plain("fallback"), NoDecision}
  /\ cmd' = Idle
  /\ UNCHANGED <<sources, shown, prepared, answer, report, torn>>

Fail == cmd.at # "idle" /\ cmd' = Idle /\ UNCHANGED <<sources, shown, files, torn>>

----------------------------------------------------------------------------
\* Mutant: the facts are rebuilt from the mapping report.
ReevaluateFromReport ==
  /\ cmd.at = "idle"
  /\ \E warrant \in Warrants \ {"none"} :
       decision' = IF report = None THEN Plain(warrant)
                                    ELSE Judged(report, AsOf[strategy], warrant)
  /\ UNCHANGED <<sources, shown, prepared, answer, report, torn, cmd>>

\* Any other command that evaluates availability has no facts: a Step 1 parse,
\* the refresh after Step 2.
Reevaluate ==
  /\ cmd.at = "idle"
  /\ \E warrant \in Warrants \ {"none"} : decision' = Plain(warrant)
  /\ UNCHANGED <<sources, shown, prepared, answer, report, torn, cmd>>

\* prepare_next_run renames artifacts/current away.
PrepareNextRun ==
  /\ cmd.at = "idle"
  /\ prepared' = None /\ answer' = None /\ report' = None
  /\ decision' = NoDecision
  /\ torn' = FALSE
  /\ UNCHANGED <<sources, shown, cmd>>

Keep(file, gone, name, empty) == IF name \in gone THEN empty ELSE file

\* The recursive delete of a clear takes the files in any order, and may die.
KilledClear ==
  /\ cmd.at = "idle"
  /\ \E gone \in SUBSET {"prepared", "answer", "report", "decision"} :
       /\ prepared' = Keep(prepared, gone, "prepared", None)
       /\ answer' = Keep(answer, gone, "answer", None)
       /\ report' = Keep(report, gone, "report", None)
       /\ decision' = Keep(decision, gone, "decision", NoDecision)
       /\ torn' = (torn \/ gone \cap {"prepared", "report"} # {})
  /\ UNCHANGED <<sources, shown, cmd>>

\* The operator edits the sources and pastes answers whenever he likes.
EditSources ==
  /\ \/ strategy' \in Strategies /\ UNCHANGED portfolio
     \/ portfolio' \in Portfolios \cup {Absent} /\ UNCHANGED strategy
  /\ UNCHANGED <<today, shown, files, torn, cmd>>

PlaceAnswer ==
  /\ answer' \in {None} \cup [to : shown, text : Texts]
  /\ UNCHANGED <<sources, shown, prepared, report, decision, torn, cmd>>

Tick ==
  /\ today < LastDay
  /\ today' = today + 1
  /\ UNCHANGED <<strategy, portfolio, shown, files, torn, cmd>>

Next ==
  \/ BeginPrepare \/ BeginConsume \/ Rebuild \/ DropReport
  \/ DropPrepared \/ Mint \/ CaptureStrategy \/ CapturePortfolio \/ PublishPrepared
  \/ ReadPrepared \/ ReadAnswer \/ PublishReport \/ Reclear \/ Decide \/ Fail
  \/ Reevaluate \/ PrepareNextRun \/ KilledClear
  \/ EditSources \/ PlaceAnswer \/ Tick

Spec == Init /\ [][Next]_vars

----------------------------------------------------------------------------
Commands ==
  [at : Steps, named : Contexts \cup {None}, context : Contexts \cup {None},
   facts : Reports \cup {None}]

TypeOK ==
  /\ strategy \in Strategies
  /\ portfolio \in Portfolios \cup {Absent}
  /\ today \in Nat
  /\ shown \subseteq Contexts /\ IsFiniteSet(shown)
  /\ prepared \in Contexts \cup {None}
  /\ answer \in Answers \cup {None}
  /\ report \in Reports \cup {None}
  /\ decision \in Decisions
  /\ torn \in BOOLEAN
  /\ cmd \in Commands

\* A completion stands only beside the preparation it completes, over a
\* portfolio that was there, whatever failed since.  Only a recursive delete
\* that died can leave it alone, until the next prepare or consume.
CompletionBacked == ~torn /\ report # None => report.to = prepared /\ report.to.portfolio # Absent

\* A decision that recognises H1 rests on the very completion on disk: no
\* failed or killed command, new preparation, second answer or edit in between
\* lets it stand for another one, or for none.
ClaimBacked == ~torn /\ decision.facts # None => report = decision.facts

\* Preparation, completion and decision, three files written apart, are of one
\* preparation, whatever died between them.
ClaimSound == CompletionBacked /\ ClaimBacked

\* The facts of an H1 decision were not from the future when the prompt was
\* prepared nor when they were judged, and the oldest of them was fresh.
ClaimWithinPeriod ==
  decision.facts # None =>
    LET context == decision.facts.to
        dates == {AsOf[context.strategy], Dated[context.portfolio]}
    IN /\ context.day <= decision.now
       /\ \A date \in dates : date <= context.day /\ decision.now <= date + FreshDays

\* H1Handoff keeps the promise of MappedClaim; the claim is not counted while
\* a killed delete may have taken its completion.
Claims ==
  INSTANCE MappedClaim WITH
    Completions <- Reports,
    completion <- report,
    claim <- IF torn THEN None ELSE decision.facts,
    pending <- cmd.at \in {"reclear", "decide"}
ClaimSpec == Claims!Spec
=============================================================================
