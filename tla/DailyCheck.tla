----------------------------- MODULE DailyCheck -----------------------------
(***************************************************************************)
(* The daily execution check of workflow/daily_execution_check.py:         *)
(*                                                                         *)
(*  render  may first generate market data for the tickers of the week     *)
(*          (a raw file, a snapshot made of it, or an error file), then    *)
(*          writes a prompt and, if there is none, an empty answer;        *)
(*  parse   computes diagnostics, takes the operator's answer, validates   *)
(*          it against the week's files and writes its text and actions.   *)
(*                                                                         *)
(* One command runs at a time; the operator and the weekly pipeline        *)
(* replace its inputs between any two of its reads, and it may be killed   *)
(* anywhere.  Writes are plain: a file is truncated (Torn), then filled;   *)
(* the short texts of an error and of an empty answer are one write.       *)
(* Left out: the three other places of a snapshot, notes on events, what a *)
(* prompt says, the metadata beside an answer, and the rules an action     *)
(* meets by itself (a replacement keeps its budget).                       *)
(***************************************************************************)
EXTENDS Integers, Sequences, FiniteSets, TLC

CONSTANTS
  Start,       \* the inputs when the day begins
  Editable,    \* [file -> what it may be replaced by], see below
  Markets,     \* what a fetch returns: [tickers -> [close, atr, fresh]]
  Answers,     \* [acts: the tickers acted on, notes: {<<ticker, note>>},
               \*  blocked: does it name blocked items?]
  Missing,     \* a file, a price or a number that is not there
  Torn, Blank, \* a file cut and not filled; an empty text
  MaxWrites,   \* bound: the inputs and answers written from outside
  MaxCommands  \* bound: the commands of a day

(* The inputs, by file, each of them maybe Missing:                        *)
(*  packet     [passed, ready, roles]: does it pass the audit and may the  *)
(*             compiler use it, the tickers of its rows ready to compile,  *)
(*             the roles it gives, by ticker; no JSON is as if Missing     *)
(*  template4, export: the tickers their order lines name, or Blank        *)
(*  portfolio  the open buy orders, by ticker: [baseline, highest: prices  *)
(*             or Missing, template: an id], or Blank                      *)
(*  settings   [fallback: roles by ticker; templates: template ids by      *)
(*             role; cap, atrMultiple, highestCap: the tolerances, and     *)
(*             anchorBand, highestBand: how near to one is its edge, each  *)
(*             by role in percent; monitor: must an edge be noted?], or    *)
(*             Blank                                                       *)

InputFiles == {"packet", "template4", "export", "portfolio", "settings"}
Made == {"raw", "snapshot", "error", "prompt", "answer", "text", "actions"}
Notes == {"near_anchor_drift_edge", "near_highest_live_limit_edge"}

\* What an input may hold in a day.
Could(f) == Editable[f] \cup {Start[f]}

Numbers == Int \cup {Missing}
Figures(table) == \A role \in DOMAIN table : table[role] \in Numbers
Named(text) == IF text = Blank THEN {} ELSE text

\* Prices and tolerances are numbers or Missing, and a fetch answers, maybe
\* with Missing, for every ticker it is asked for.
ASSUME DailyAssumption ==
  /\ Missing # "why"
  /\ \A p \in Could("portfolio") \ {Missing, Blank} : \A t \in DOMAIN p : p[t].baseline \in Numbers
  /\ \A y \in Could("settings") \ {Missing, Blank} :
       Figures(y.cap) /\ Figures(y.atrMultiple) /\ Figures(y.anchorBand)
  /\ \A m \in Markets :
       /\ \A t \in DOMAIN m : m[t].close \in Numbers /\ m[t].atr \in Numbers
       /\ \A k \in Could("packet") \ {Missing} : k.ready \subseteq DOMAIN m
       /\ \A o \in (Could("template4") \cup Could("export")) \ {Missing} : Named(o) \subseteq DOMAIN m

VARIABLES
  files,    \* the content of each file
  cmd,      \* the command that runs: its job, its next step, what it has read
  edits,    \* how many writes there were from outside, and commands
  cut,      \* (for the properties) the jobs cut short while they wrote
  moments,  \* (for the properties) what stood since this parse began
  origin    \* (for the properties) what stood while the actions were parsed

day == <<files, cmd, edits, cut, moments, origin>>

(* A command is a row of steps: its reads, then its writes.                *)

GenerateSteps ==
  <<<<"gate", "packet">>, <<"read", "template4">>, <<"read", "export">>,
    <<"cut", "raw">>, <<"fill", "raw">>, <<"read", "raw">>,
    <<"cut", "snapshot">>, <<"fill", "snapshot">>, <<"clear", "error">>>>
RenderSteps ==
  <<<<"gate", "packet">>, <<"read", "template4">>, <<"read", "export">>,
    <<"read", "portfolio">>, <<"read", "settings">>, <<"read", "snapshot">>,
    <<"cut", "prompt">>, <<"fill", "prompt">>, <<"look", "answer">>, <<"blank", "answer">>>>
ParseSteps ==
  <<<<"read", "portfolio">>, <<"read", "snapshot">>, <<"gate", "packet">>,
    <<"read", "settings">>, <<"read", "answer">>, <<"read", "packet">>,
    <<"read", "template4">>, <<"read", "export">>, <<"again", "settings">>,
    <<"cut", "text">>, <<"fill", "text">>, <<"cut", "actions">>, <<"fill", "actions">>>>

Steps == [generate |-> GenerateSteps, render |-> RenderSteps, parse |-> ParseSteps]

Nothing == <<>>
Idle == [job |-> "idle", step |-> 0, got |-> Nothing]
Job(j) == [job |-> j, step |-> 1, got |-> Nothing]
At(verb, f) == cmd.job # "idle" /\ Steps[cmd.job][cmd.step] = <<verb, f>>
Took(s, v) == [x \in DOMAIN cmd.got \cup {s} |-> IF x = s THEN v ELSE cmd.got[x]]

\* What follows the last step: a generation is followed by its prompt.
After(j) == IF j = "generate" THEN Job("render") ELSE Idle

Onward(got) ==
  cmd' = IF cmd.step = Len(Steps[cmd.job]) THEN After(cmd.job)
         ELSE [cmd EXCEPT !.step = @ + 1, !.got = got]

Standing(fs) == [f \in InputFiles \cup {"snapshot"} |-> fs[f]]

DayInit ==
  /\ files = [f \in InputFiles \cup Made |-> IF f \in InputFiles THEN Start[f] ELSE Missing]
  /\ cmd = Idle
  /\ edits = [write |-> 0, command |-> 0]
  /\ cut = {}
  /\ moments = {}
  /\ origin = {}

-----------------------------------------------------------------------------
(* The operator and the weekly pipeline.                                   *)

ReplaceInput(f) ==
  /\ edits.write < MaxWrites
  /\ edits' = [edits EXCEPT !.write = @ + 1]
  /\ \E v \in Editable[f] \ {files[f]} : files' = [files EXCEPT ![f] = v]
  /\ moments' = IF moments = {} THEN {} ELSE moments \cup {Standing(files')}
  /\ UNCHANGED <<cmd, cut, origin>>

WriteAnswer ==
  /\ edits.write < MaxWrites
  /\ edits' = [edits EXCEPT !.write = @ + 1]
  /\ \E v \in Answers \ {files.answer} : files' = [files EXCEPT !.answer = v]
  /\ UNCHANGED <<cmd, cut, moments, origin>>

-----------------------------------------------------------------------------
(* The diagnostics (build_daily_execution_precomputed_diagnostics): of     *)
(* each open order, whether the close is near the edge of a tolerance.     *)

\* The number the settings have for a role.
Figure(table, role) == IF role \in DOMAIN table THEN table[role] ELSE Missing

\* The packet's role, the settings' fallback, or the one role whose template
\* the order has.
RoleOf(t, row, packet, policy) ==
  LET fitting == {role \in DOMAIN policy.templates : policy.templates[role] = row.template}
  IN CASE t \in DOMAIN packet.roles -> packet.roles[t]
       [] t \notin DOMAIN packet.roles /\ t \in DOMAIN policy.fallback -> policy.fallback[t]
       [] t \notin DOMAIN packet.roles \cup DOMAIN policy.fallback ->
            IF \E role \in fitting : fitting = {role} THEN CHOOSE role \in fitting : TRUE ELSE Missing

\* How far the close drifted from the baseline.
Drift(close, baseline) == IF close > baseline THEN close - baseline ELSE baseline - close

Wider(a, b) == IF b = Missing \/ (a # Missing /\ a > b) THEN a ELSE b

\* The wider of the fixed tolerance and the multiple of the volatility.
Tolerance(price, policy, role) ==
  LET multiple == Figure(policy.atrMultiple, role)
  IN Wider(Figure(policy.cap, role),
           IF Missing \in {multiple, price.atr} THEN Missing ELSE multiple * price.atr)

NearAnchor(row, price, policy, role) ==
  LET tolerance == Tolerance(price, policy, role)
      band == Figure(policy.anchorBand, role)
  IN /\ Missing \notin {price.close, row.baseline, tolerance, band}
     /\ (tolerance - band) * row.baseline <= 100 * Drift(price.close, row.baseline)

NearHighest(row, price, policy, role) ==
  LET cap == Figure(policy.highestCap, role)
      band == Figure(policy.highestBand, role)
  IN /\ Missing \notin {price.close, row.highest, cap, band}
     /\ 100 * (row.highest - price.close) <= (band - cap) * price.close

\* The notes the diagnostics call for.
Due(portfolio, snapshot, packet, policy) ==
  LET rows == IF snapshot = Missing THEN {} ELSE DOMAIN portfolio \cap DOMAIN snapshot
      role(t) == RoleOf(t, portfolio[t], packet, policy)
  IN {<<t, "near_anchor_drift_edge">> :
        t \in {u \in rows : NearAnchor(portfolio[u], snapshot[u], policy, role(u))}}
     \cup {<<t, "near_highest_live_limit_edge">> :
        t \in {u \in rows : NearHighest(portfolio[u], snapshot[u], policy, role(u))}}

-----------------------------------------------------------------------------
(* Starting, reading, stopping.                                            *)

Begin(j) ==
  /\ cmd = Idle
  /\ edits.command < MaxCommands
  /\ edits' = [edits EXCEPT !.command = @ + 1]
  /\ cmd' = Job(j)
  /\ moments' = IF j = "parse" THEN {Standing(files)} ELSE {}
  /\ UNCHANGED <<files, cut, origin>>

\* What a step asks of the file it reads, or the command fails.  A parse
\* takes the packet a second time without asking whether it passed, and the
\* week's texts and its second settings even if they are empty.
Accepts(verb, f) ==
  /\ f # "snapshot" => files[f] # Missing
  /\ verb = "gate" => files.packet.passed
  /\ files[f] = Blank => cmd.job = "parse" /\ (f \in {"template4", "export"} \/ verb = "again")
  /\ f = "answer" => files.answer # Torn

\* A snapshot that is not there or is not JSON is none.
Seen(f) == IF f = "snapshot" /\ files.snapshot = Torn THEN Missing ELSE files[f]

\* Of what it read first, a parse keeps the diagnostics; what a prompt says
\* is left out.
Digest(got) ==
  CASE cmd.job = "render" -> Nothing
    [] cmd.job = "parse" /\ At("read", "settings") ->
         [due |-> Due(got["portfolio"], got["snapshot"], got["packet"], got["settings"])]
    [] OTHER -> got

ReadFile(verb, f) ==
  /\ verb \in {"gate", "read", "again"}
  /\ At(verb, f)
  /\ Accepts(verb, f)
  /\ Onward(Digest(Took(f, Seen(f))))
  /\ UNCHANGED <<files, edits, cut, moments, origin>>

RefuseFile(verb, f) ==
  /\ cmd.job # "generate"
  /\ At(verb, f)
  /\ ~Accepts(verb, f)
  /\ cmd' = Idle
  /\ moments' = {}
  /\ UNCHANGED <<files, edits, cut, origin>>

Kill ==
  /\ cmd # Idle
  /\ cmd' = Idle
  /\ cut' = cut \cup ({cmd.job} \ {"render"})
  /\ moments' = {}
  /\ UNCHANGED <<files, edits, origin>>

-----------------------------------------------------------------------------
(* The week's tickers, and what an answer may do about them.               *)

\* Mutant: the tickers of all the files together.
AllowlistOfAll(packet, template4, export) == packet.ready \cup Named(template4) \cup Named(export)

\* build_weekly_ticker_allowlist: the first of the files that names any.
Allowlist(packet, template4, export) ==
  CASE packet.ready # {} -> packet.ready
    [] packet.ready = {} /\ Named(template4) # {} -> Named(template4)
    [] packet.ready = {} /\ Named(template4) = {} -> Named(export)

Monitored(policy) == policy # Blank /\ policy.monitor

\* validate_daily_execution_actions, what it asks of other files.
Valid(answer, due, packet, template4, export, policy) ==
  /\ Allowlist(packet, template4, export) # {}
  /\ answer.acts = {} => answer.blocked \/ answer.notes # {}
  /\ \A t \in answer.acts :
       /\ t \in Allowlist(packet, template4, export)
       /\ Monitored(policy) => \A n \in Notes : <<t, n>> \in due => <<t, n>> \in answer.notes

Checked ==
  Valid(cmd.got["answer"], cmd.got["due"], cmd.got["packet"], cmd.got["template4"], cmd.got["export"],
        cmd.got["settings"])

-----------------------------------------------------------------------------
(* The writes.                                                             *)

Week == Allowlist(cmd.got["packet"], cmd.got["template4"], cmd.got["export"])

RawOf(market) == [t \in Week |-> market[t]]

\* A close that is missing or not of the day is a gap, which the diagnostics
\* do not look at.
SnapshotOf(raw) ==
  [t \in DOMAIN raw |-> [close |-> raw[t].close, atr |-> raw[t].atr,
                         gap |-> raw[t].close = Missing \/ ~raw[t].fresh]]

\* What a step may fill its file with.
Contents(f) ==
  CASE f = "raw" -> {RawOf(market) : market \in Markets}
    [] f = "snapshot" -> {SnapshotOf(cmd.got["raw"])}
    [] f = "prompt" -> {"rendered"}
    [] f \in {"text", "actions"} -> {cmd.got["answer"]}

Cut(f) ==
  /\ At("cut", f)
  /\ f = "raw" => Week # {}
  /\ f = "text" => Checked
  /\ files' = [files EXCEPT ![f] = Torn]
  /\ Onward(cmd.got)
  /\ UNCHANGED <<edits, cut, moments, origin>>

Fill(f) ==
  /\ At("fill", f)
  /\ \E content \in Contents(f) : files' = [files EXCEPT ![f] = content]
  /\ Onward(cmd.got)
  /\ IF f = "actions" THEN origin' = moments /\ moments' = {} /\ cut' = cut \ {"parse"}
     ELSE UNCHANGED <<cut, moments, origin>>
  /\ UNCHANGED edits

\* The answer is not valid.
RefuseAnswer ==
  /\ At("cut", "text")
  /\ ~Checked
  /\ cmd' = Idle
  /\ moments' = {}
  /\ UNCHANGED <<files, edits, cut, origin>>

ClearError ==
  /\ At("clear", "error")
  /\ files' = [files EXCEPT !.error = Missing]
  /\ cut' = cut \ {"generate"}
  /\ Onward(cmd.got)
  /\ UNCHANGED <<edits, moments, origin>>

\* Whatever fails, a fetch, a schema, a file of the week or a week without
\* tickers, is reported in the error file, and the prompt is made all the
\* same.
FailToGenerate ==
  /\ cmd.job = "generate"
  /\ files' = [files EXCEPT !.error = "why"]
  /\ cmd' = Job("render")
  /\ UNCHANGED <<edits, cut, moments, origin>>

\* The answer that is there, to whatever prompt, stays: there is a look, and
\* if it found none an empty one is written, whatever was pasted since.
LookForAnswer ==
  /\ At("look", "answer")
  /\ IF files.answer = Missing THEN Onward(cmd.got) ELSE cmd' = Idle
  /\ UNCHANGED <<files, edits, cut, moments, origin>>

BlankAnswer ==
  /\ At("blank", "answer")
  /\ files' = [files EXCEPT !.answer = Blank]
  /\ Onward(cmd.got)
  /\ UNCHANGED <<edits, cut, moments, origin>>

-----------------------------------------------------------------------------

Outside == WriteAnswer \/ \E f \in InputFiles : ReplaceInput(f)

Command ==
  \/ \E j \in {"generate", "render", "parse"} : Begin(j)
  \/ \E verb \in {"gate", "read", "again"}, f \in InputFiles \cup Made : ReadFile(verb, f) \/ RefuseFile(verb, f)
  \/ \E f \in Made : Cut(f) \/ Fill(f)
  \/ RefuseAnswer \/ ClearError \/ FailToGenerate \/ LookForAnswer \/ BlankAnswer \/ Kill

DayNext == Outside \/ Command

DaySpec == DayInit /\ [][DayNext]_day

-----------------------------------------------------------------------------
(* Properties.                                                             *)

Published == files.actions \notin {Missing, Torn}
Past(f) == {m[f] : m \in origin}

\* Whatever was replaced while it was parsed, a published action is about a
\* ticker of the week: of a packet that stood during the parse, or, if one
\* of them had no row ready, of an order list that stood then.
ActionsOfTheWeek ==
  Published =>
    \A t \in files.actions.acts :
      \/ \E p \in Past("packet") \ {Missing} : t \in p.ready
      \/ /\ \E p \in Past("packet") \ {Missing} : p.ready = {}
         /\ \E o \in (Past("template4") \cup Past("export")) \ {Missing} : t \in Named(o)

\* How the strategy means it: the close has left the corridor around the
\* baseline that is narrower than the tolerance by the band.
Strayed(row, price, policy, role) ==
  LET tolerance == Tolerance(price, policy, role)
      band == Figure(policy.anchorBand, role)
      inner == tolerance - band
  IN /\ Missing \notin {price.close, row.baseline, tolerance, band}
     /\ \/ 100 * price.close >= (100 + inner) * row.baseline
        \/ 100 * price.close <= (100 - inner) * row.baseline

\* An order whose close has strayed by everything that stood while the
\* answer was parsed is not acted on without its note.
EdgeIsNoted ==
  Published =>
    \A t \in files.actions.acts :
      (\A snapshot \in Past("snapshot"), portfolio \in Past("portfolio"),
          packet \in Past("packet"), policy \in Past("settings") :
         /\ snapshot \notin {Missing, Torn} /\ t \in DOMAIN snapshot
         /\ portfolio \notin {Missing, Blank} /\ t \in DOMAIN portfolio
         /\ packet # Missing
         /\ policy \notin {Missing, Blank} /\ policy.monitor
         /\ Strayed(portfolio[t], snapshot[t], policy, RoleOf(t, portfolio[t], packet, policy)))
      => <<t, "near_anchor_drift_edge">> \in files.actions.notes

\* Unless a command was killed, the text is that of the actions, and without
\* an error file the snapshot is that of the last prices fetched.
WholeUnlessKilled ==
  cmd = Idle =>
    /\ "parse" \notin cut => files.text = files.actions
    /\ "generate" \notin cut /\ files.error = Missing /\ files.raw # Missing =>
         files.snapshot = SnapshotOf(files.raw)

\* A published daily action is about a ticker of a week that stood while it
\* was parsed and carries the note its price asks for; text and actions,
\* and snapshot and prices, agree unless a command was killed.
DailySound == ActionsOfTheWeek /\ EdgeIsNoted /\ WholeUnlessKilled
=============================================================================
