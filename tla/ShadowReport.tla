--------------------------- MODULE ShadowReport ----------------------------
(***************************************************************************)
(* The weekly shadow report over the generations of Replacement: the       *)
(* operator hands a prompt, which is a function of one generation, to an   *)
(* analyst and saves the answer in a file; one command reads that file,    *)
(* verifies the generation anew, checks that the answer echoes it, and     *)
(* publishes a directory of two artifacts by a rename that replaces        *)
(* nothing (observability/weekly_shadow_01_report_publisher.py and the     *)
(* modules it calls; cli/weekly_shadow_01_report_publisher_cli.py).        *)
(*                                                                         *)
(* The command ends in one of three ways its exit codes tell apart: a      *)
(* receipt, a failure that left no report, or an ambiguous publication.    *)
(* The contract surface is frozen by hash in the code, and an edit of it   *)
(* is a refusal: only the prompt template of the generation is kept.       *)
(***************************************************************************)
EXTENDS Replacement

CONSTANTS
  Publishers,  \* the publications that may run, each once
  Texts,       \* what the second half of an answer says
  MaxAnswers   \* bound: halves of an answer the operator writes

VARIABLES
  answer,   \* the file: the generation its first half echoes, and a text
  written,  \* when it was last written
  pub,      \* each publication: its next step, generation, stamp seen, answer
  tried,    \* the artifacts in each publication's attempt directory
  reports,  \* the published directories: identity and the attempt it was
  said      \* (for the properties) the answers that stood in the file

shadow == <<answer, written, pub, tried, reports, said>>

Artifacts == {"report", "summary"}
NoAnswer == <<Absent, Absent>>
Waiting == [at |-> "idle", of |-> Absent, seen |-> 0, read |-> NoAnswer]

ShadowInit ==
  /\ GenInit
  /\ answer = NoAnswer
  /\ written = 0
  /\ pub = [p \in Publishers |-> Waiting]
  /\ tried = [p \in Publishers |-> [a \in Artifacts |-> Absent]]
  /\ reports = {}
  /\ said = {NoAnswer}

\* A report is named after the generation and the answer it was made of.
Identity(p) == [of |-> pub[p].of, answer |-> pub[p].read]
Final(p) == {e \in reports : e.id = Identity(p)}

Step(p, from, to) ==
  /\ pub[p].at = from
  /\ pub' = [pub EXCEPT ![p].at = to]

(***************************************************************************)
(* The operator saves half an answer.                                      *)
(***************************************************************************)
WriteAnswer(half, content) ==
  /\ written < MaxAnswers
  /\ written' = written + 1
  /\ answer' = IF half = 1 THEN <<content, answer[2]>> ELSE <<answer[1], content>>
  /\ said' = said \cup {answer'}
  /\ UNCHANGED <<pub, tried, reports>>

(***************************************************************************)
(* Read the answer; each half is followed by a look at the file's state.   *)
(***************************************************************************)
OpenAnswer(p, g) ==
  /\ pub[p].at = "idle" /\ g \in made
  /\ pub' = [pub EXCEPT ![p] = [Waiting EXCEPT !.at = "first", !.of = g, !.seen = written]]
  /\ UNCHANGED <<answer, written, tried, reports, said>>

StableFile(p) == written = pub[p].seen

ReadAnswer(p, half) ==
  /\ pub[p].at = IF half = 1 THEN "first" ELSE "second"
  /\ pub' = [pub EXCEPT ![p].at = IF ~StableFile(p) THEN "failed" ELSE IF half = 1 THEN "second" ELSE "verify",
                        ![p].read = IF half = 1 THEN <<answer[1], @[2]>> ELSE <<@[1], answer[2]>>]
  /\ UNCHANGED <<answer, written, tried, reports, said>>

(***************************************************************************)
(* Verify the generation: its directory is listed, its files read and      *)
(* bound, and all of it once more.  Then the answer must echo the package  *)
(* that is a function of it.                                               *)
(***************************************************************************)
VerifyGeneration(p) ==
  /\ pub[p].at \in {"verify", "again"}
  /\ LET g == pub[p].of
         ok == IsCompleted(g)
         next == IF pub[p].at = "again" THEN "echo"
                 ELSE IF live.template = g.template THEN "again" ELSE "failed"
     IN pub' = [pub EXCEPT ![p].at = IF ok THEN next ELSE "failed", ![p].seen = 0]
  /\ UNCHANGED <<answer, written, tried, reports, said>>

\* The echoed package and its bindings, and a text within the schema.
Echoes(a, g) == a[1] = g /\ a[2] \in Texts

ValidateAnswer(p) ==
  /\ \/ Echoes(pub[p].read, pub[p].of) /\ Step(p, "echo", "look")
     \/ ~Echoes(pub[p].read, pub[p].of) /\ Step(p, "echo", "failed")
  /\ UNCHANGED <<answer, written, tried, reports, said>>

(***************************************************************************)
(* Publish.  A directory that is there is verified, made durable, and      *)
(* verified again; otherwise the two artifacts are written in an attempt   *)
(* directory and that is renamed.                                          *)
(***************************************************************************)
Whole(e) == \A a \in Artifacts : tried[e.by][a] = "whole"

LookForReport(p) ==
  /\ \/ Final(p) = {} /\ Step(p, "look", "make report")
     \/ (\E e \in Final(p) : Whole(e)) /\ Step(p, "look", "reuse")
     \/ (\E e \in Final(p) : ~Whole(e)) /\ Step(p, "look", "failed")
  /\ UNCHANGED <<answer, written, tried, reports, said>>

Making == [report |-> "make report", summary |-> "make summary"]
Filling == [report |-> "fill report", summary |-> "fill summary"]

CreateArtifact(p, a) ==
  /\ Step(p, Making[a], Filling[a])
  /\ tried' = [tried EXCEPT ![p][a] = "torn"]
  /\ UNCHANGED <<answer, written, reports, said>>

FillArtifact(p, a) ==
  /\ Step(p, Filling[a], IF a = "report" THEN "make summary" ELSE "staged")
  /\ tried' = [tried EXCEPT ![p][a] = "whole"]
  /\ UNCHANGED <<answer, written, reports, said>>

VerifyStaged(p) ==
  /\ Whole([by |-> p])
  /\ Step(p, "staged", "rename")
  /\ UNCHANGED <<answer, written, tried, reports, said>>

\* An error of the call says that it took no effect; any other exception says
\* nothing.
RenameReport(p) ==
  /\ \/ /\ Final(p) = {}
        /\ reports' = reports \cup {[id |-> Identity(p), by |-> p]}
        /\ \E next \in {"own", "ambiguous"} : Step(p, "rename", next)
     \/ /\ Final(p) # {} /\ Step(p, "rename", "beside")
        /\ UNCHANGED reports
     \/ /\ \E next \in {"failed", "ambiguous"} : Step(p, "rename", next)
        /\ UNCHANGED reports
  /\ UNCHANGED <<answer, written, tried, said>>

\* The rename did not replace: what is there must be the same report.
VerifyFound(p) ==
  /\ \/ (\E e \in Final(p) : Whole(e)) /\ Step(p, "beside", "reuse")
     \/ ~(\E e \in Final(p) : Whole(e)) /\ Step(p, "beside", "failed")
  /\ UNCHANGED <<answer, written, tried, reports, said>>

\* From here on the report is there: what fails is an ambiguous publication.
Settle(p) ==
  /\ \/ (\E e \in Final(p) : Whole(e)) /\ Step(p, "reuse", "reused")
     \/ (\E e \in Final(p) : Whole(e) /\ e.by = p) /\ Step(p, "own", "new")
  /\ UNCHANGED <<answer, written, tried, reports, said>>

\* Mutant: a failure after the rename is reported like one before it.
CommittedNever(p) == FALSE

Committed(p) == pub[p].at \in {"own", "reuse"}

ShadowEnded == {"new", "reused", "failed", "ambiguous"}

\* A check of paths, types, sizes or durability fails.  (A publication that is
\* killed is one that takes no further step.)
Fails(p) ==
  /\ pub[p].at \notin ShadowEnded \cup {"idle"}
  /\ Step(p, pub[p].at, IF Committed(p) THEN "ambiguous" ELSE "failed")
  /\ UNCHANGED <<answer, written, tried, reports, said>>

-----------------------------------------------------------------------------
Publish(p) ==
  \/ \E g \in Generations : OpenAnswer(p, g)
  \/ \E half \in 1..2 : ReadAnswer(p, half)
  \/ VerifyGeneration(p) \/ ValidateAnswer(p) \/ LookForReport(p)
  \/ \E a \in Artifacts : CreateArtifact(p, a) \/ FillArtifact(p, a)
  \/ VerifyStaged(p) \/ RenameReport(p) \/ VerifyFound(p) \/ Settle(p)
  \/ Fails(p)

ShadowNext ==
  \/ GenNext /\ UNCHANGED shadow
  \/ /\ \/ \E p \in Publishers : Publish(p)
        \/ \E g \in Generations : WriteAnswer(1, g)
        \/ \E t \in Texts : WriteAnswer(2, t)
     /\ UNCHANGED replacement

ShadowSpec == ShadowInit /\ [][ShadowNext]_<<replacement, shadow>>

-----------------------------------------------------------------------------
\* Every published report is whole, of a generation that was read back before
\* its commit, and of an answer that stood in the file and echoed it.
ShadowReportsStand ==
  \A e \in reports :
    /\ Whole(e)
    /\ e.id.of \in verified
    /\ e.id.answer \in said
    /\ Echoes(e.id.answer, e.id.of)

\* What a publication told its operator is true for good: a new report is its
\* own, a reused one is another's, and one that failed left none.
ResultIsTrue ==
  \A p \in Publishers :
    LET mine == [id |-> Identity(p), by |-> p] \in reports
    IN /\ pub[p].at = "new" => mine
       /\ pub[p].at = "reused" => ~mine /\ Final(p) # {}
       /\ pub[p].at = "failed" => ~mine

\* A published shadow report is whole, of a verified generation and of an
\* answer that stood and echoed it, and what a publication told its
\* operator stays true.
ShadowSound == ShadowReportsStand /\ ResultIsTrue
=============================================================================
