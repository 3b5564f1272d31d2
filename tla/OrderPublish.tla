---------------------------- MODULE OrderPublish ----------------------------
(***************************************************************************)
(* One `run_step4 parse` past its gates: the three texts of a pasted answer *)
(* are written to quarantine, validated there, moved over the canonical    *)
(* files one atomic replace each, and the quarantine emptied.  Quarantine  *)
(* files are written in place, so a death may leave one torn; a canonical  *)
(* file never is.  An answer without its three blocks writes nothing and   *)
(* is not a step.  Whether a text is accepted also depends on settings and *)
(* packet, so the verdict is a choice.  WeeklyPipeline sees all this as    *)
(* the two steps ParseStep4 and PublishRest.                               *)
(***************************************************************************)
EXTENDS Naturals

CONSTANTS
  Texts,    \* the answers an operator can paste
  None,     \* no file
  Torn      \* a file opened for writing and not filled

ASSUME TextsAssumption == None \notin Texts /\ Torn \notin Texts /\ None # Torn

VARIABLES
  canonical, quarantine,   \* the files, by what they hold
  text,     \* the answer in the memory of the running parse
  pc, next, \* its phase, and the file it comes to next
  latest,   \* history: the text validated last
  accepted, \* history: the last parse was accepted, and nothing was reset since
  exit      \* how the last parse ended, none while it runs

files == <<canonical, quarantine>>
history == <<latest, accepted>>
vars == <<files, text, pc, next, history, exit>>

\* template4_orders, order_state_export and exec_summary, in that order.
Files == 1..3

TypeOK ==
  /\ canonical \in [Files -> Texts \cup {None}]
  /\ quarantine \in [Files -> Texts \cup {None, Torn}]
  /\ text \in Texts \cup {None}
  /\ pc \in {"idle", "open", "fill", "validate", "publish", "cleanup", "clear"}
  /\ next \in Files
  /\ latest \in Texts \cup {None}
  /\ accepted \in BOOLEAN
  /\ exit \in {"none", "ok", "failed"}

Init ==
  /\ canonical = [f \in Files |-> None] /\ quarantine = [f \in Files |-> None]
  /\ text = None /\ pc = "idle" /\ next = 1
  /\ latest = None /\ accepted = FALSE /\ exit = "none"

\* After the last file of a phase comes the next phase.
Advance(phase, following) ==
  IF next = 3 THEN pc' = following /\ next' = 1 ELSE pc' = phase /\ next' = next + 1

End(how) == pc' = "idle" /\ next' = 1 /\ text' = None /\ exit' = how

Parse ==
  /\ pc = "idle"
  /\ text' \in Texts /\ exit' = "none"
  /\ pc' = "open" /\ next' = 1
  /\ accepted' = FALSE
  /\ UNCHANGED <<files, latest>>

OpenQuarantine ==
  /\ pc = "open"
  /\ quarantine' = [quarantine EXCEPT ![next] = Torn]
  /\ pc' = "fill"
  /\ UNCHANGED <<canonical, text, next, history, exit>>

FillQuarantine ==
  /\ pc = "fill"
  /\ quarantine' = [quarantine EXCEPT ![next] = text]
  /\ Advance("open", "validate")
  /\ UNCHANGED <<canonical, text, history, exit>>

Accept ==
  /\ pc = "validate"
  /\ latest' = text /\ accepted' = TRUE
  /\ pc' = "publish"
  /\ UNCHANGED <<files, text, next, exit>>

\* Mutant: a rejected candidate is moved on all the same.
RejectButPublish ==
  /\ pc = "validate"
  /\ pc' = "publish"
  /\ UNCHANGED <<files, text, next, history, exit>>

Reject ==
  /\ pc = "validate"
  /\ End("failed")
  /\ UNCHANGED <<files, history>>

\* Mutant: each quarantine file goes as soon as its canonical one is there.
ReplaceAndUnlink ==
  /\ pc = "publish"
  /\ canonical' = [canonical EXCEPT ![next] = text]
  /\ quarantine' = [quarantine EXCEPT ![next] = None]
  /\ Advance("publish", "cleanup")
  /\ UNCHANGED <<text, history, exit>>

Replace ==
  /\ pc = "publish"
  /\ canonical' = [canonical EXCEPT ![next] = text]
  /\ Advance("publish", "cleanup")
  /\ UNCHANGED <<quarantine, text, history, exit>>

Cleanup ==
  /\ pc = "cleanup"
  /\ quarantine' = [quarantine EXCEPT ![next] = None]
  /\ IF next = 3
     THEN End("ok")
     ELSE pc' = pc /\ next' = next + 1 /\ UNCHANGED <<text, exit>>
  /\ UNCHANGED <<canonical, history>>

Crash == pc # "idle" /\ End("failed") /\ UNCHANGED <<files, history>>

\* artifacts/current renamed away, or deleted one file after another.
Archive ==
  /\ pc = "idle"
  /\ canonical' = [f \in Files |-> None] /\ quarantine' = [f \in Files |-> None]
  /\ exit' = "none" /\ accepted' = FALSE
  /\ UNCHANGED <<text, pc, next, latest>>

BeginClear ==
  /\ pc = "idle" /\ pc' = "clear" /\ exit' = "none" /\ accepted' = FALSE
  /\ UNCHANGED <<files, text, next, latest>>

ClearOne ==
  /\ pc = "clear"
  /\ \E f \in Files :
       \/ canonical' = [canonical EXCEPT ![f] = None] /\ UNCHANGED quarantine
       \/ quarantine' = [quarantine EXCEPT ![f] = None] /\ UNCHANGED canonical
  /\ UNCHANGED <<text, pc, next, history, exit>>

EndClear ==
  /\ pc = "clear" /\ pc' = "idle"
  /\ canonical' = [f \in Files |-> None] /\ quarantine' = [f \in Files |-> None]
  /\ UNCHANGED <<text, next, history, exit>>

Next == \/ Parse \/ OpenQuarantine \/ FillQuarantine \/ Accept \/ Reject
        \/ Replace \/ Cleanup \/ Crash
        \/ Archive \/ BeginClear \/ ClearOne \/ EndClear

Spec == Init /\ [][Next]_vars

(***************************************************************************)
(* Properties.                                                             *)
(***************************************************************************)
Mixed == \E f, g \in Files : canonical[f] # canonical[g]

\* While the three files mix two answers because an accepted parse died among
\* its replaces, the whole newer answer is still in quarantine, until another
\* parse or a reset begins.
MixedIsRecoverable ==
  accepted /\ Mixed => \A f \in Files : quarantine[f] = latest

\* A parse that exited well has replaced all three files by one answer and
\* left nothing in quarantine.
ExitOkMeansWhole ==
  exit = "ok" => \A f \in Files : canonical[f] = latest /\ quarantine[f] = None

\* The three files are one answer, or can be made one from quarantine.
PublicationSound == MixedIsRecoverable /\ ExitOkMeansWhole

\* The canonical files keep the promise made of them.
Store == INSTANCE OrderStore
StoreSpec == Store!Spec
=============================================================================
