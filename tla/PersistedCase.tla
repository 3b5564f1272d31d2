--------------------------- MODULE PersistedCase ---------------------------
(***************************************************************************)
(* An H2c case: prompts of two sides, the operator's answers to both, and  *)
(* the artifacts made of them.  Two workflows leave the same files:       *)
(*                                                                         *)
(*  "case"     offline/mmi_h2c_prepare_persisted_case_v1.py makes a        *)
(*             directory of sources, prompts and, last, a manifest; later  *)
(*             mmi_h2c_consume_persisted_case_v1.py makes the artifacts,   *)
(*             from the live sources or from the archived ones;            *)
(*  "session"  mmi_h2c_manual_capture_session.py does all of it in one     *)
(*             process, over paths of the operator's choice.               *)
(*                                                                         *)
(* A file is created exclusively (Unfilled) and then filled.  Commands     *)
(* overlap with each other and with the operator, and may be killed        *)
(* anywhere.                                                               *)
(* Left out: the content of projections, prompts and reports, which is a   *)
(* function of what they are made from, and one file system's errors.      *)
(***************************************************************************)
EXTENDS Naturals, Sequences

CONSTANTS
  Processes,  \* the commands that may run at once
  Versions,   \* the contents of a source
  Original,   \* the one each source has at first
  Replies,    \* the contents of an answer
  Junk,       \* an answer no report can be made of
  Edited,     \* an edited prompt
  Unfilled,   \* a file created and not yet filled
  NoLeaf,     \* no file
  MaxEdits    \* bound: the files the operator writes, in each workflow

Sources == {"settings", "portfolio", "template"}

\* A file that is not there, or not filled, is told from every manifest and bundle.
ASSUME LeafAssumption ==
  /\ Original \in Versions
  /\ NoLeaf # Unfilled
  /\ \A m \in [Sources -> Versions] : m \notin {NoLeaf, Unfilled}
  /\ \A b \in [h1Prompt : Versions \X Versions, h1 : Replies] : b # NoLeaf

Responses == {"h1 response", "legacy response"}
Artifacts == {"bundle", "report", "receipt"}
Leaves == Sources \cup {"h1 prompt", "legacy prompt", "manifest"} \cup Responses \cup Artifacts

VARIABLES
  mode,      \* which workflow
  live,      \* the current sources of the repository
  root,      \* does the case directory exist?
  disk,      \* its files, or those of a session
  stamp,     \* when each response was last written (only a session looks)
  edits,     \* files the operator wrote so far
  proc,      \* each command: its next step and what it has read
  manifested, \* (for the properties) the manifest as it was prepared
  stood      \* (for the properties) the pairs of answers that stood together

casing == <<mode, live, root, disk, stamp, edits, proc, manifested, stood>>

\* A command that has not begun: what it does next, and to which file.
Resting == [at |-> "idle", on |-> "case",
            took |-> [s \in Sources |-> NoLeaf], case |-> NoLeaf,
            answer |-> [r \in Responses |-> NoLeaf], seen |-> [r \in Responses |-> 0]]

CaseInit ==
  /\ mode \in {"case", "session"}
  /\ live = [s \in Sources |-> Original]
  /\ root = FALSE
  /\ disk = [l \in Leaves |-> NoLeaf]
  /\ stamp = [r \in Responses |-> 0]
  /\ edits = 0
  /\ proc = [c \in Processes |-> Resting]
  /\ manifested = NoLeaf
  /\ stood = {}

Whole(l) == disk[l] \notin {NoLeaf, Unfilled}
At(c, step, l) == proc[c].at = step /\ proc[c].on = l

-----------------------------------------------------------------------------
(* The operator.                                                           *)

Edit == edits < MaxEdits[mode] /\ edits' = edits + 1

EditLive(s) ==
  /\ Edit
  /\ \E v \in Versions \ {live[s]} : live' = [live EXCEPT ![s] = v]
  /\ UNCHANGED <<mode, root, disk, stamp, proc, manifested, stood>>

EditLeaf(l) ==
  /\ mode = "case" /\ Whole(l)
  /\ Edit
  /\ \E v \in (IF l \in Sources THEN Versions ELSE {Edited}) \ {disk[l]} :
       disk' = [disk EXCEPT ![l] = v]
  /\ UNCHANGED <<mode, live, root, stamp, proc, manifested, stood>>

\* Another manifest, as valid as the one that was prepared.
EditManifest ==
  /\ mode = "case" /\ Whole("manifest")
  /\ Edit
  /\ \E s \in Sources, v \in Versions :
       /\ disk.manifest[s] # v
       /\ disk' = [disk EXCEPT !.manifest[s] = v]
  /\ UNCHANGED <<mode, live, root, stamp, proc, manifested, stood>>

\* The responses directory of a case is made by its preparation.
Answer(r) ==
  /\ mode = "case" => root
  /\ Edit
  /\ \E v \in (Replies \cup {Junk}) \ {disk[r]} : disk' = [disk EXCEPT ![r] = v]
  /\ IF mode = "session"
     THEN /\ stamp' = [stamp EXCEPT ![r] = edits']
          /\ stood' = stood \cup {[x \in Responses |-> disk'[x]]}
     ELSE UNCHANGED <<stamp, stood>>
  /\ UNCHANGED <<mode, live, root, proc, manifested>>

-----------------------------------------------------------------------------
(* What a command does to its own state and to one file.                   *)

\* A refusal, an error or a kill: the command ends here.
Stop(c) ==
  /\ proc[c] # Resting
  /\ proc' = [proc EXCEPT ![c] = Resting]
  /\ UNCHANGED <<mode, live, root, disk, stamp, edits, manifested, stood>>

Become(c, new) ==
  /\ proc' = [proc EXCEPT ![c] = new]
  /\ UNCHANGED <<mode, live, root, disk, stamp, edits, manifested, stood>>

To(p, step, l) == [p EXCEPT !.at = step, !.on = l]
Go(c, step, l) == To(proc[c], step, l)

\* Mutant: without O_EXCL for the artifacts.
CreateOver(c, l) ==
  /\ At(c, "create", l)
  /\ l \in Artifacts \/ disk[l] = NoLeaf
  /\ disk' = [disk EXCEPT ![l] = Unfilled]
  /\ proc' = [proc EXCEPT ![c] = Go(c, "fill", l)]
  /\ UNCHANGED <<mode, live, root, stamp, edits, manifested, stood>>

\* O_CREAT and O_EXCL: only a file that is not there.
Create(c, l) ==
  /\ At(c, "create", l)
  /\ disk[l] = NoLeaf
  /\ disk' = [disk EXCEPT ![l] = Unfilled]
  /\ proc' = [proc EXCEPT ![c] = Go(c, "fill", l)]
  /\ UNCHANGED <<mode, live, root, stamp, edits, manifested, stood>>

Fill(c, l, content, next) ==
  /\ At(c, "fill", l)
  /\ disk' = [disk EXCEPT ![l] = content]
  /\ proc' = [proc EXCEPT ![c] = next]
  /\ UNCHANGED <<mode, live, root, stamp, edits, stood>>

(* Contents.  The case's manifest is its sources; identities are contents. *)

H1Prompt(t) == <<t.settings, t.portfolio>>
LegacyPrompt(t) == <<t.template, t.settings, t.portfolio>>
Bundle(c) == [h1Prompt |-> H1Prompt(proc[c].took), h1 |-> proc[c].answer["h1 response"]]
Report(c) == [bundle |-> Bundle(c), settings |-> proc[c].took.settings,
              legacy |-> proc[c].answer["legacy response"]]
Receipt(c) == [case |-> proc[c].case, took |-> proc[c].took, bundle |-> Bundle(c), report |-> Report(c),
               legacyPrompt |-> LegacyPrompt(proc[c].took), answer |-> proc[c].answer]

-----------------------------------------------------------------------------
(* prepare_h2c_persisted_case and the first half of run_h2c_manual_capture *)

PathsFree == IF mode = "case" THEN ~root
             ELSE \A l \in Leaves \ (Sources \cup {"manifest"}) : disk[l] = NoLeaf

Take(c, s) ==
  /\ \/ proc[c] = Resting /\ s = "settings" /\ PathsFree
     \/ At(c, "take", s)
  /\ LET p == [proc[c] EXCEPT !.took[s] = live[s]] IN
     Become(c, CASE s = "settings" -> To(p, "take", "portfolio")
                 [] s = "portfolio" -> To(p, "take", "template")
                 [] s = "template" -> IF mode = "case" THEN To(p, "make root", "case")
                                      ELSE To(p, "create", "h1 prompt"))

\* os.mkdir: consumes the name of the case, once.
MakeRoot(c) ==
  /\ proc[c].at = "make root"
  /\ ~root
  /\ root' = TRUE
  /\ proc' = [proc EXCEPT ![c] = Go(c, "create", "settings")]
  /\ UNCHANGED <<mode, live, disk, stamp, edits, manifested, stood>>

PreparedOrder == <<"settings", "portfolio", "template", "h1 prompt", "legacy prompt">>
PreparedContent(c, l) == CASE l \in Sources -> proc[c].took[l]
                           [] l = "h1 prompt" -> H1Prompt(proc[c].took)
                           [] l = "legacy prompt" -> LegacyPrompt(proc[c].took)

FillPrepared(c) ==
  /\ mode = "case"
  /\ \E i \in DOMAIN PreparedOrder :
       Fill(c, PreparedOrder[i], PreparedContent(c, PreparedOrder[i]),
            IF i < Len(PreparedOrder) THEN Go(c, "create", PreparedOrder[i + 1])
            ELSE Go(c, "verify", "settings"))
  /\ UNCHANGED manifested

\* What was written is read again; then the leaves of others must be absent.
Verify(c) ==
  /\ \E i \in DOMAIN PreparedOrder :
       /\ At(c, "verify", PreparedOrder[i])
       /\ disk[PreparedOrder[i]] = PreparedContent(c, PreparedOrder[i])
       /\ IF i < Len(PreparedOrder) THEN Become(c, Go(c, "verify", PreparedOrder[i + 1]))
          ELSE /\ \A l \in Responses \cup Artifacts : disk[l] = NoLeaf
               /\ Become(c, Go(c, "create", "manifest"))

FillManifest(c) ==
  /\ Fill(c, "manifest", proc[c].took, Resting)
  /\ manifested' = proc[c].took

(* The session's prompts: either both are exposed or the first is removed. *)

ExposeH1(c) ==
  /\ mode = "session"
  /\ Fill(c, "h1 prompt", H1Prompt(proc[c].took), Go(c, "create", "legacy prompt"))
  /\ UNCHANGED manifested

ExposeLegacy(c) ==
  /\ mode = "session"
  /\ Fill(c, "legacy prompt", LegacyPrompt(proc[c].took), Go(c, "open", "h1 response"))
  /\ UNCHANGED manifested

Withdraw(c) ==
  /\ mode = "session"
  /\ proc[c].at \in {"create", "fill"} /\ proc[c].on = "legacy prompt"
  /\ disk' = [disk EXCEPT !["h1 prompt"] = NoLeaf]
  /\ proc' = [proc EXCEPT ![c] = Resting]
  /\ UNCHANGED <<mode, live, root, stamp, edits, manifested, stood>>

-----------------------------------------------------------------------------
(* The answers: a session opens both files before it reads either, and     *)
(* compares each with what it was once both are read                       *)
(* (_stable_read_response_pair); a consumption reads one after the other.  *)

NoJunk(c) == \A r \in Responses : proc[c].answer[r] # Junk

Open(c, r) ==
  /\ At(c, "open", r)
  /\ disk[r] # NoLeaf
  /\ LET p == [proc[c] EXCEPT !.seen[r] = stamp[r]] IN
     Become(c, IF r = "h1 response" THEN To(p, "open", "legacy response") ELSE To(p, "read", "h1 response"))

Read(c, r) ==
  /\ At(c, "read", r)
  /\ disk[r] # NoLeaf
  /\ LET p == [proc[c] EXCEPT !.answer[r] = disk[r]] IN
     Become(c, IF r = "h1 response" THEN To(p, "read", "legacy response")
               ELSE IF mode = "session" THEN To(p, "stat", "h1 response") ELSE To(p, "build", "case"))

Stat(c, r) ==
  /\ At(c, "stat", r)
  /\ stamp[r] = proc[c].seen[r]
  /\ Become(c, IF r = "h1 response" THEN Go(c, "stat", "legacy response") ELSE Go(c, "build", "case"))

(* consume_h2c_persisted_case and its variant "from archives"              *)

\* No artifact may be there: a case is consumed once.
Preflight(c) ==
  /\ mode = "case"
  /\ proc[c] = Resting
  /\ root
  /\ \A l \in Artifacts : disk[l] = NoLeaf
  /\ Become(c, Go(c, "manifest", "case"))

\* The operator gives the identity that the preparation reported.
ReadManifest(c) ==
  /\ proc[c].at = "manifest"
  /\ Whole("manifest")
  /\ disk.manifest = manifested
  /\ \E first \in {"live", "check"} :
       Become(c, [Go(c, first, "settings") EXCEPT !.case = disk.manifest])

\* Only consume_h2c_persisted_case: the live source must still be the one.
CaptureLive(c, s) ==
  /\ s # "template"
  /\ At(c, "live", s)
  /\ live[s] = proc[c].case[s]
  /\ Become(c, IF s = "settings" THEN Go(c, "live", "portfolio") ELSE Go(c, "check", "settings"))

CheckOrder == <<"settings", "portfolio", "template", "h1 prompt">>

\* The archived bytes, by their digest in the manifest or by the live ones.
CheckArchive(c, s) ==
  /\ At(c, "check", s)
  /\ disk[s] = proc[c].case[s]
  /\ \E i \in DOMAIN CheckOrder :
       /\ CheckOrder[i] = s
       /\ Become(c, [Go(c, "check", CheckOrder[i + 1]) EXCEPT !.took[s] = disk[s]])

\* Both prompts are made again; the file of the legacy one is never read.
SamePrompts(c) ==
  /\ H1Prompt(proc[c].took) = H1Prompt(proc[c].case)
  /\ LegacyPrompt(proc[c].took) = LegacyPrompt(proc[c].case)

CheckPrompt(c) ==
  /\ At(c, "check", "h1 prompt")
  /\ SamePrompts(c)
  /\ disk["h1 prompt"] = H1Prompt(proc[c].case)
  /\ Become(c, Go(c, "read", "h1 response"))

(* Both: the artifacts, the receipt last.                                  *)

Build(c) ==
  /\ proc[c].at = "build"
  /\ NoJunk(c)
  /\ Become(c, Go(c, "create", "bundle"))

FillArtifact(c) ==
  /\ \/ Fill(c, "bundle", Bundle(c), Go(c, "create", "report"))
     \/ Fill(c, "report", Report(c), Go(c, "create", "receipt"))
     \/ Fill(c, "receipt", Receipt(c), Resting)
  /\ UNCHANGED manifested

-----------------------------------------------------------------------------

Operator ==
  \/ \E s \in Sources : EditLive(s)
  \/ \E l \in Sources \cup {"h1 prompt"} : EditLeaf(l)
  \/ EditManifest
  \/ \E r \in Responses : Answer(r)

Command(c) ==
  \/ \E s \in Sources : Take(c, s) \/ CaptureLive(c, s) \/ CheckArchive(c, s)
  \/ \E l \in Leaves : Create(c, l)
  \/ \E r \in Responses : Open(c, r) \/ Read(c, r) \/ Stat(c, r)
  \/ MakeRoot(c) \/ FillPrepared(c) \/ Verify(c) \/ FillManifest(c)
  \/ ExposeH1(c) \/ ExposeLegacy(c) \/ Withdraw(c)
  \/ Preflight(c) \/ ReadManifest(c) \/ CheckPrompt(c)
  \/ Build(c) \/ FillArtifact(c)
  \/ Stop(c)

CaseNext == Operator \/ \E c \in Processes : Command(c)

CaseSpec == CaseInit /\ [][CaseNext]_casing

-----------------------------------------------------------------------------
(* Properties.                                                             *)

\* A whole receipt stands beside the very bundle and report it names,
\* whatever other commands wrote or left half done in between.
ReceiptSealsCase ==
  Whole("receipt") => disk.bundle = disk.receipt.bundle /\ disk.report = disk.receipt.report

\* What a case was consumed from is what it was prepared from, although its
\* archives, its manifest and the live sources may be edited in between.
BoundAsPrepared ==
  mode = "case" /\ Whole("receipt") => disk.receipt.case = manifested /\ disk.receipt.took = manifested

\* The two answers a session binds stood together at one time.
AnswersStoodTogether ==
  mode = "session" /\ Whole("receipt") => disk.receipt.answer \in stood

\* A whole receipt stands beside the bundle and report it names, of the
\* case as it was prepared, over two answers that stood together.
CaseSound == ReceiptSealsCase /\ BoundAsPrepared /\ AnswersStoodTogether
=============================================================================
