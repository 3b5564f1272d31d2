---------------------------- MODULE Replacement ----------------------------
(***************************************************************************)
(* The replacement observation: research/replacement_observation.py        *)
(* renders a generation (a directory named after everything it is made     *)
(* of), replacement_generation_reader.py accepts a completed one and       *)
(* captures the memo the operator wrote in it, and replacement_report.py   *)
(* publishes one report per generation and memo.  There is no lock: the    *)
(* exclusive mkdir of the directory, the in-progress marker in it and a    *)
(* rename that replaces nothing arbitrate between commands, which may be   *)
(* killed anywhere; every fsync or path check that fails is such an end.   *)
(*                                                                         *)
(* The files of a generation are pure functions of its name, and each      *)
(* appears whole by rename: only which of them are there is kept.  The     *)
(* four input files are one, a memo is two halves that an editor writes,   *)
(* and a command reads, one after the other.  Every write gets a distinct  *)
(* timestamp.                                                              *)
(***************************************************************************)
EXTENDS Naturals, Sequences, FiniteSets

CONSTANTS
  Commands,       \* the commands that may run, each once
  SourceVersions, \* the contents of the prompt template and of the inputs
  Invalid,        \* inputs that no generation can be made of
  Original,       \* the one both have at first
  Memos,          \* the contents of half a memo
  Blank,          \* half of the memo a generation starts with
  Absent,         \* nothing
  MaxEdits        \* bound: files the operator writes

ASSUME GenerationAssumption ==
  Original \in SourceVersions /\ MaxEdits \in Nat /\ Absent \notin Commands

Generations == [template : SourceVersions, inputs : SourceVersions \ Invalid]
Reports == [generation : Generations, memo : (Memos \cup {Blank}) \X (Memos \cup {Blank})]

Order == <<"manifest", "evidence", "prompt", "memo", "binding">>
Completed == {Order[i] : i \in DOMAIN Order}
Precommit == Completed \cup {"marker"}

VARIABLES
  live,           \* the repository's template and inputs
  made,           \* the generations whose directory is there
  names,          \* the entries of each directory
  memo,           \* the memo in each generation
  stamp,          \* when each memo was last written
  edits,          \* files the operator wrote so far
  command,        \* each command: its next step, generation, file, stamp seen, memo read
  attempt,        \* each command's own attempt file: Absent, "torn" or "whole"
  final,          \* each report: the command whose attempt file became it
  verified,       \* (for the properties) generations verified before their commit
  memosStood      \* (for the properties) the memos that stood in each generation

replacement == <<live, made, names, memo, stamp, edits, command, attempt, final, verified, memosStood>>

Unasked == [at |-> "idle", of |-> [template |-> Original, inputs |-> Original],
            file |-> 1, seen |-> 0, read |-> <<Blank, Blank>>]

GenInit ==
  /\ live = [template |-> Original, inputs |-> Original]
  /\ made = {}
  /\ names = [g \in Generations |-> {}]
  /\ memo = [g \in Generations |-> <<Blank, Blank>>]
  /\ stamp = [g \in Generations |-> 0]
  /\ edits = 0
  /\ command = [c \in Commands |-> Unasked]
  /\ attempt = [c \in Commands |-> Absent]
  /\ final = [r \in Reports |-> Absent]
  /\ verified = {}
  /\ memosStood = [g \in Generations |-> {}]

At(c, verb) == command[c].at = verb
Proceed(c, at) == command' = [command EXCEPT ![c].at = at]
Reported(c) == [generation |-> command[c].of, memo |-> command[c].read]

Unmade == UNCHANGED <<live, made, names, memo, stamp, edits, verified, memosStood>>
Unpublished == UNCHANGED <<attempt, final>>

(***************************************************************************)
(* The operator edits a source or half a memo, of any generation there is. *)
(***************************************************************************)
EditSource(s, v) ==
  /\ edits < MaxEdits
  /\ edits' = edits + 1
  /\ live' = [live EXCEPT ![s] = v]
  /\ UNCHANGED <<made, names, memo, stamp, command, verified, memosStood>>
  /\ Unpublished

EditMemo(g, half, m) ==
  /\ edits < MaxEdits
  /\ "memo" \in names[g]
  /\ edits' = edits + 1
  /\ memo' = [memo EXCEPT ![g] = IF half = 1 THEN <<m, @[2]>> ELSE <<@[1], m>>]
  /\ stamp' = [stamp EXCEPT ![g] = edits + 1]
  /\ memosStood' = [memosStood EXCEPT ![g] = @ \cup {memo'[g]}]
  /\ UNCHANGED <<live, made, names, command, verified>>
  /\ Unpublished

(***************************************************************************)
(* Render: capture the template, then the inputs; then claim the directory *)
(* that their contents name.                                               *)
(***************************************************************************)
CaptureTemplate(c) ==
  /\ At(c, "idle")
  /\ command' = [command EXCEPT ![c].at = "inputs", ![c].of.template = live.template]
  /\ Unmade /\ Unpublished

Usable(inputs) == inputs \notin Invalid

CaptureInputs(c) ==
  /\ At(c, "inputs")
  /\ IF Usable(live.inputs)
     THEN command' = [command EXCEPT ![c].at = "claim", ![c].of.inputs = live.inputs]
     ELSE Proceed(c, "refused")
  /\ Unmade /\ Unpublished

Claim(c) ==
  /\ At(c, "claim")
  /\ made' = made \cup {command[c].of}
  /\ Proceed(c, IF command[c].of \in made THEN "reuse" ELSE "mark")
  /\ UNCHANGED <<live, names, memo, stamp, edits, verified, memosStood>>
  /\ Unpublished

MarkInProgress(c) ==
  /\ At(c, "mark")
  /\ names' = [names EXCEPT ![command[c].of] = {"marker"}]
  /\ Proceed(c, "put")
  /\ UNCHANGED <<live, made, memo, stamp, edits, verified, memosStood>>
  /\ Unpublished

\* A file is written under a temporary name and renamed to its own.
Put(c) ==
  /\ At(c, "put")
  /\ LET i == command[c].file
         g == command[c].of
     IN /\ names' = [names EXCEPT ![g] = @ \cup {Order[i]}]
        /\ command' = IF i < Len(Order) THEN [command EXCEPT ![c].file = i + 1] ELSE [command EXCEPT ![c].at = "verify"]
        /\ memosStood' = IF Order[i] = "memo" THEN [memosStood EXCEPT ![g] = {memo[g]}] ELSE memosStood
  /\ UNCHANGED <<live, made, memo, stamp, edits, verified>>
  /\ Unpublished

\* The generation is read back, its memo still blank, before it is committed.
VerifyPrecommit(c) ==
  /\ At(c, "verify")
  /\ LET g == command[c].of
     IN IF names[g] = Precommit /\ memo[g] = <<Blank, Blank>>
        THEN /\ verified' = verified \cup {g}
             /\ Proceed(c, "commit")
        ELSE /\ Proceed(c, "refused")
             /\ UNCHANGED verified
  /\ UNCHANGED <<live, made, names, memo, stamp, edits, memosStood>>
  /\ Unpublished

\* Mutant: the marker goes before the generation is read back.
CommitFirst(c) ==
  /\ At(c, "commit") \/ At(c, "verify")
  /\ names' = [names EXCEPT ![command[c].of] = @ \ {"marker"}]
  /\ Proceed(c, IF At(c, "commit") THEN "new generation" ELSE "verify")
  /\ UNCHANGED <<live, made, memo, stamp, edits, verified, memosStood>>
  /\ Unpublished

\* The commit point: the marker goes, and nothing follows.
Commit(c) ==
  /\ At(c, "commit")
  /\ names' = [names EXCEPT ![command[c].of] = @ \ {"marker"}]
  /\ Proceed(c, "new generation")
  /\ UNCHANGED <<live, made, memo, stamp, edits, verified, memosStood>>
  /\ Unpublished

\* A directory that was there is reused only when it is complete.
IsCompleted(g) == names[g] = Completed

VerifyExisting(c) ==
  /\ At(c, "reuse")
  /\ Proceed(c, IF IsCompleted(command[c].of) THEN "reused generation" ELSE "refused")
  /\ Unmade /\ Unpublished

(***************************************************************************)
(* Report: accept a completed generation, remembering its memo's state;    *)
(* the repository's template must still be the one it was rendered with.   *)
(* Then the memo is read, and each look at it must find that state again.  *)
(***************************************************************************)
Inspect(c, g) ==
  /\ At(c, "idle")
  /\ g \in made
  /\ IF IsCompleted(g)
     THEN command' = [command EXCEPT ![c].at = "contract", ![c].of = g, ![c].seen = stamp[g]]
     ELSE Proceed(c, "refused")
  /\ Unmade /\ Unpublished

VerifyContract(c) ==
  /\ At(c, "contract")
  /\ Proceed(c, IF live.template = command[c].of.template THEN "memo" ELSE "refused")
  /\ Unmade /\ Unpublished

SameMemo(c) == stamp[command[c].of] = command[c].seen

ReadFirst(c) ==
  /\ At(c, "memo")
  /\ IF SameMemo(c)
     THEN command' = [command EXCEPT ![c].at = "second", ![c].read = <<memo[command[c].of][1], Blank>>]
     ELSE Proceed(c, "refused")
  /\ Unmade /\ Unpublished

\* The contract of the memo refuses a blank one; one half saved may pass.
Acceptable(m) == m # <<Blank, Blank>>

ReadSecond(c) ==
  /\ At(c, "second")
  /\ LET whole == <<command[c].read[1], memo[command[c].of][2]>>
     IN IF SameMemo(c) /\ Acceptable(whole)
        THEN command' = [command EXCEPT ![c].at = "look", ![c].read = whole]
        ELSE Proceed(c, "refused")
  /\ Unmade /\ Unpublished

(***************************************************************************)
(* Publish: reuse the report that is there, or write an attempt file of    *)
(* one's own and rename it where nothing is.  An attempt is never deleted. *)
(***************************************************************************)
Present(r) == final[r] # Absent /\ attempt[final[r]] = "whole"

LookForFinal(c) ==
  /\ At(c, "look")
  /\ Proceed(c, IF final[Reported(c)] = Absent THEN "attempt"
             ELSE IF Present(Reported(c)) THEN "reused report" ELSE "refused")
  /\ Unmade /\ Unpublished

CreateAttempt(c) ==
  /\ At(c, "attempt")
  /\ attempt' = [attempt EXCEPT ![c] = "torn"]
  /\ Proceed(c, "fill")
  /\ Unmade /\ UNCHANGED final

FillAttempt(c) ==
  /\ At(c, "fill")
  /\ attempt' = [attempt EXCEPT ![c] = "whole"]
  /\ Proceed(c, "rename")
  /\ Unmade /\ UNCHANGED final

\* The call may raise, and then nothing tells whether it took effect.
RenameNoReplace(c) ==
  /\ At(c, "rename")
  /\ \/ /\ final[Reported(c)] = Absent
        /\ final' = [final EXCEPT ![Reported(c)] = c]
        /\ \E next \in {"own", "ambiguous"} : Proceed(c, next)
     \/ /\ final[Reported(c)] # Absent
        /\ Proceed(c, "beside")
        /\ UNCHANGED final
     \/ /\ Proceed(c, "ambiguous")
        /\ UNCHANGED final
  /\ Unmade /\ UNCHANGED attempt

\* Only the attempt file itself, found at the final name, is a new report.
VerifyOwned(c) ==
  /\ At(c, "own") \/ At(c, "ambiguous")
  /\ Proceed(c, IF final[Reported(c)] = c THEN "new report" ELSE "refused")
  /\ Unmade /\ Unpublished

VerifyBeside(c) ==
  /\ At(c, "beside")
  /\ Proceed(c, IF attempt[c] = "whole" /\ Present(Reported(c))
             THEN "reused report" ELSE "refused")
  /\ Unmade /\ Unpublished

-----------------------------------------------------------------------------
Ended == {"new generation", "reused generation", "new report", "reused report",
          "refused", "stopped"}

\* A command is killed, or fails a check of paths, types or durability.
CutShort(c) ==
  /\ command[c].at \notin Ended \cup {"idle"}
  /\ Proceed(c, "stopped")
  /\ Unmade /\ Unpublished

Render(c) == CaptureTemplate(c) \/ CaptureInputs(c) \/ Claim(c) \/ MarkInProgress(c) \/ Put(c)
             \/ VerifyPrecommit(c) \/ Commit(c) \/ VerifyExisting(c)

Observe(c) == \/ \E g \in Generations : Inspect(c, g)
              \/ VerifyContract(c) \/ ReadFirst(c) \/ ReadSecond(c)
              \/ LookForFinal(c) \/ CreateAttempt(c) \/ FillAttempt(c)
              \/ RenameNoReplace(c) \/ VerifyOwned(c) \/ VerifyBeside(c)

GenNext ==
  \/ \E c \in Commands : Render(c) \/ Observe(c) \/ CutShort(c)
  \/ \E s \in {"template", "inputs"}, v \in SourceVersions : EditSource(s, v)
  \/ \E g \in made, half \in 1..2, m \in Memos : EditMemo(g, half, m)

GenSpec == GenInit /\ [][GenNext]_replacement

-----------------------------------------------------------------------------
\* What was taken for a completed generation had been read back before its
\* commit, however its renderer, its editor and others interleaved; and each
\* report is whole, of such a generation, with a memo that stood in it.
ReportsStand ==
  /\ \A c \in Commands : At(c, "reused generation") => command[c].of \in verified
  /\ \A r \in Reports : final[r] # Absent =>
        /\ attempt[final[r]] = "whole"
        /\ r.generation \in verified
        /\ r.memo \in memosStood[r.generation]

\* Of the commands that made the same report, the one that says it is new left
\* the file that stays, and no other says so.
OneNewReport ==
  \A c \in Commands :
    /\ At(c, "new report") => final[Reported(c)] = c
    /\ At(c, "reused report") => final[Reported(c)] \notin {c, Absent}

\* What was taken for a completed generation had been read back before its
\* commit; a report is whole, of such a generation and of a memo that stood
\* in it, and one command alone says it is new.
GenerationsSound == ReportsStand /\ OneNewReport
=============================================================================
