------------------------- MODULE Step1Render_proofs -------------------------
(* Type correctness of Step1Render and its two evidence-ordering            *)
(* invariants, for every set of source versions; and that a capture of a    *)
(* source file (SourceCapture) is no mixture, for every tree of files; and  *)
(* what a Step 1 parse grounds on (AnchorGrounding), for every content of   *)
(* the anchor and approval files.                                           *)
EXTENDS Step1Render, SourceCapture, AnchorGrounding, SequenceTheorems, TLAPS

USE DEF Source, Paste, Report, ReasonCodes, MismatchCodes, RenderSteps, ParseSteps

\* What is known of the running command at each step: which buffers it has
\* filled, and which evidence it has already retired.
Progress ==
    /\ pc \in RenderSteps => buf.strategy \in Versions
    /\ pc \in RenderSteps \ {"readPortfolio"} => buf.portfolio \in Versions
    /\ pc \in {"checkStrategy", "checkPortfolio", "checkPrompt"} =>
          buf.expected \in Commitment

LEMMA InitTypeOK == Init => TypeOK /\ Progress
<1>1. Init => Progress
  BY DEF Init, Progress
<1>2. NoBuf \in [strategy : Versions \cup {NoRead}, portfolio : Versions \cup {NoRead},
                 expected : Commitment \cup {NoRead}, reasons : SUBSET ReasonCodes]
  BY DEF NoBuf
<1>3. Init => TypeOK
  BY <1>2 DEF Init, TypeOK
<1> QED
  BY <1>1, <1>3

LEMMA CompiledType ==
  ASSUME TypeOK, Progress, pc \in RenderSteps \ {"readPortfolio"}
  PROVE  Compiled \in CompiledPrompt
  BY DEF TypeOK, Progress, Compiled, CompiledPrompt

LEMMA StepTypeOK == TypeOK /\ Progress /\ [Next]_vars => TypeOK' /\ Progress'
<1> SUFFICES ASSUME TypeOK, Progress, [Next]_vars
             PROVE  TypeOK' /\ Progress'
  OBVIOUS
<1>1. CASE BeginRender
  BY <1>1 DEF TypeOK, Progress, BeginRender, inputs, NoBuf
<1>2. CASE ReadPortfolio
  BY <1>2 DEF TypeOK, Progress, ReadPortfolio, inputs
<1>3. CASE UnlinkRetiredReport
  BY <1>3 DEF TypeOK, Progress, UnlinkRetiredReport, inputs
<1>4. CASE UnlinkReport
  BY <1>4 DEF TypeOK, Progress, UnlinkReport, inputs
<1>5. CASE UnlinkRetiredCommitment
  BY <1>5 DEF TypeOK, Progress, UnlinkRetiredCommitment, inputs
<1>6. CASE UnlinkCommitment
  BY <1>6 DEF TypeOK, Progress, UnlinkCommitment, inputs
<1>7. CASE OpenPrompt
  BY <1>7 DEF TypeOK, Progress, OpenPrompt, inputs
<1>8. CASE FillPrompt
  BY <1>8, CompiledType, ZenonT(60) DEF TypeOK, Progress, FillPrompt, inputs
<1>9. CASE PrepareRaw
  BY <1>9 DEF TypeOK, Progress, PrepareRaw, inputs
<1>10. CASE Commit
  BY <1>10, CompiledType DEF TypeOK, Progress, Commit, inputs, NoBuf, Commitment
<1>11. CASE BeginParse
  BY <1>11 DEF TypeOK, Progress, BeginParse, inputs, NoBuf
<1>12. CASE UnlinkOldReport
  BY <1>12, ZenonT(60) DEF TypeOK, Progress, UnlinkOldReport, inputs
<1>13. CASE LoadCommitment
  BY <1>13 DEF TypeOK, Progress, LoadCommitment, inputs
<1>14. CASE CheckStrategy
  BY <1>14 DEF TypeOK, Progress, CheckStrategy, Check, inputs
<1>15. CASE CheckPortfolio
  BY <1>15 DEF TypeOK, Progress, CheckPortfolio, Check, inputs
<1>16. CASE CheckPrompt
  BY <1>16 DEF TypeOK, Progress, CheckPrompt, Check, inputs
<1>17. CASE PublishReport
  BY <1>17 DEF TypeOK, Progress, PublishReport, inputs, NoBuf
<1>18. CASE Crash
  BY <1>18 DEF TypeOK, Progress, Crash, inputs, NoBuf
<1>19. CASE Operator
  BY <1>19, ZenonT(60) DEF TypeOK, Progress, Operator, EditInputs, EditPrompt, PasteRaw,
               DamageCommitment, inputs
<1>20. CASE UNCHANGED vars
  BY <1>20 DEF TypeOK, Progress, vars, inputs
<1> QED
  BY <1>1, <1>2, <1>3, <1>4, <1>5, <1>6, <1>7, <1>8, <1>9, <1>10, <1>11, <1>12,
     <1>13, <1>14, <1>15, <1>16, <1>17, <1>18, <1>19, <1>20
     DEF Next, Render, Parse

\* Every file and buffer always holds what a reader of the code expects there.
THEOREM TypeCorrect == Spec => []TypeOK
<1>1. TypeOK /\ Progress /\ [Next]_vars => (TypeOK /\ Progress)'
  BY StepTypeOK
<1> QED
  BY InitTypeOK, <1>1, PTL DEF Spec

-----------------------------------------------------------------------------
\* From the last deletion of a render to its commit there is no commitment, and
\* from its write on the prompt holds the text the commitment will name.
CommitWindow ==
    /\ pc \in {"openPrompt", "fillPrompt", "prepareRaw", "commit"} => commitment = NoFile
    /\ pc \in {"prepareRaw", "commit"} /\ ~promptEdited => prompt = Compiled

\* Where in a command the reports are known to be gone, and what a parse about
\* to report a match has seen.
ReportWindow ==
    /\ pc \in {"unlinkRetiredCommitment", "unlinkCommitment", "openPrompt",
               "fillPrompt", "prepareRaw", "commit"} => report = NoFile
    /\ pc \in ParseSteps \ {"unlinkOldReport"} => report = NoFile
    /\ pc \in ParseSteps \cup (RenderSteps \ {"readPortfolio", "unlinkRetiredReport"}) =>
          "report" \notin retired
    /\ pc \in {"checkStrategy", "checkPortfolio", "checkPrompt"} => commitment # NoFile
    /\ pc = "publishReport" /\ buf.reasons = {} => commitment # NoFile

EvidenceInv ==
    /\ CommitWindow /\ CommitmentDescribesPrompt
    /\ ReportWindow /\ MatchHasCommitment /\ NoRetiredBesideFresh

LEMMA StepCommitWindow ==
  ASSUME TypeOK, Progress, CommitWindow, CommitmentDescribesPrompt, [Next]_vars
  PROVE  CommitWindow' /\ CommitmentDescribesPrompt'
<1> USE DEF TypeOK, CommitWindow, CommitmentDescribesPrompt, inputs
<1>1. CASE BeginRender \/ ReadPortfolio
  BY <1>1 DEF BeginRender, ReadPortfolio
<1>2. CASE UnlinkRetiredReport \/ UnlinkReport \/ UnlinkRetiredCommitment
  BY <1>2 DEF UnlinkRetiredReport, UnlinkReport, UnlinkRetiredCommitment
<1>3. CASE UnlinkCommitment
  BY <1>3 DEF UnlinkCommitment
<1>4. CASE OpenPrompt
  BY <1>4 DEF OpenPrompt
<1>5. CASE FillPrompt
  BY <1>5 DEF FillPrompt, Compiled
<1>6. CASE PrepareRaw
  BY <1>6 DEF PrepareRaw, Compiled
<1>7. CASE Commit
  BY <1>7 DEF Commit, Compiled
<1>8. CASE BeginParse \/ UnlinkOldReport \/ LoadCommitment \/ PublishReport
  BY <1>8 DEF BeginParse, UnlinkOldReport, LoadCommitment, PublishReport
<1>9. CASE CheckStrategy \/ CheckPortfolio \/ CheckPrompt
  BY <1>9 DEF CheckStrategy, CheckPortfolio, CheckPrompt, Check
<1>10. CASE Crash
  BY <1>10 DEF Crash
<1>11. CASE Operator
  BY <1>11 DEF Operator, EditInputs, EditPrompt, PasteRaw, DamageCommitment, Compiled
<1>12. CASE UNCHANGED vars
  BY <1>12 DEF vars, Compiled
<1> QED
  BY <1>1, <1>2, <1>3, <1>4, <1>5, <1>6, <1>7, <1>8, <1>9, <1>10, <1>11, <1>12
     DEF Next, Render, Parse

LEMMA StepReportWindow ==
  ASSUME TypeOK, Progress, ReportWindow, MatchHasCommitment, NoRetiredBesideFresh,
         [Next]_vars
  PROVE  ReportWindow' /\ MatchHasCommitment' /\ NoRetiredBesideFresh'
<1> USE DEF TypeOK, ReportWindow, MatchHasCommitment, NoRetiredBesideFresh, inputs
<1>1. CASE BeginRender \/ ReadPortfolio
  BY <1>1 DEF BeginRender, ReadPortfolio
<1>2. CASE UnlinkRetiredReport
  BY <1>2 DEF UnlinkRetiredReport
<1>3. CASE UnlinkReport
  BY <1>3 DEF UnlinkReport
<1>4. CASE UnlinkRetiredCommitment \/ UnlinkCommitment
  BY <1>4 DEF UnlinkRetiredCommitment, UnlinkCommitment
<1>5. CASE OpenPrompt \/ FillPrompt \/ PrepareRaw
  BY <1>5 DEF OpenPrompt, FillPrompt, PrepareRaw
<1>6. CASE Commit
  BY <1>6 DEF Commit
<1>7. CASE BeginParse
  BY <1>7 DEF BeginParse
<1>8. CASE UnlinkOldReport
  BY <1>8 DEF UnlinkOldReport
<1>9. CASE LoadCommitment
  BY <1>9 DEF LoadCommitment
<1>10. CASE CheckStrategy \/ CheckPortfolio
  BY <1>10 DEF CheckStrategy, CheckPortfolio, Check
<1>11. CASE CheckPrompt
  BY <1>11 DEF CheckPrompt, Check
<1>12. CASE PublishReport
  BY <1>12 DEF PublishReport
<1>13. CASE Crash
  BY <1>13 DEF Crash
<1>14. CASE Operator
  BY <1>14, FileStatesDistinct
     DEF Operator, EditInputs, EditPrompt, PasteRaw, DamageCommitment
<1>15. CASE UNCHANGED vars
  BY <1>15 DEF vars
<1> QED
  BY <1>1, <1>2, <1>3, <1>4, <1>5, <1>6, <1>7, <1>8, <1>9, <1>10, <1>11, <1>12,
     <1>13, <1>14, <1>15 DEF Next, Render, Parse

LEMMA EvidenceInductive == Spec => [](TypeOK /\ Progress /\ EvidenceInv)
<1>1. Init => EvidenceInv
  BY DEF Init, EvidenceInv, CommitWindow, CommitmentDescribesPrompt, ReportWindow,
         MatchHasCommitment, NoRetiredBesideFresh
<1>2. TypeOK /\ Progress /\ EvidenceInv /\ [Next]_vars
         => (TypeOK /\ Progress /\ EvidenceInv)'
  BY StepTypeOK, StepCommitWindow, StepReportWindow DEF EvidenceInv
<1> QED
  BY InitTypeOK, <1>1, <1>2, PTL DEF Spec

\* However a render dies, a surviving commitment names the prompt on disk.
THEOREM CommitmentSafe == Spec => []CommitmentDescribesPrompt
  BY EvidenceInductive, PTL DEF EvidenceInv

\* No match report without the commitment it was checked against.
THEOREM MatchSafe == Spec => []MatchHasCommitment
  BY EvidenceInductive, PTL DEF EvidenceInv

\* The two together.
THEOREM CommitmentStands == Spec => []CommitmentSound
  BY CommitmentSafe, MatchSafe, PTL DEF CommitmentSound

\* Neither version's report survives into the body of a later parse.
THEOREM StaleReportSafe == Spec => []NoStaleReport
<1>1. EvidenceInv => NoStaleReport
  BY DEF EvidenceInv, ReportWindow, NoStaleReport
<1> QED
  BY EvidenceInductive, <1>1, PTL

-----------------------------------------------------------------------------
\* What a parse has found so far.  The commitment it compares with is the one on
\* disk until the parse ends; the reasons tell of the endpoints already read as
\* long as nobody has edited one since.
Found ==
    /\ pc \in {"unlinkOldReport", "loadCommitment", "checkStrategy"} => buf.reasons = {}
    /\ pc \in {"checkStrategy", "checkPortfolio", "checkPrompt"} =>
          buf.expected = commitment /\ commitment \notin {NoFile, Unusable}
    /\ ~edited =>
          /\ pc = "checkPortfolio" =>
                (buf.reasons = {} <=> strategy = commitment.strategy)
          /\ pc = "checkPrompt" =>
                (buf.reasons = {} <=> /\ strategy = commitment.strategy
                                      /\ portfolio = commitment.portfolio)
          /\ pc = "publishReport" => (buf.reasons = {} <=> EndpointsMatch)

FaithInv == Found /\ ReportFaithful

LEMMA StepFound ==
  ASSUME TypeOK, Progress, Found, [Next]_vars
  PROVE  Found'
<1> USE DEF TypeOK, Found, inputs
<1>1. CASE BeginRender \/ ReadPortfolio
  BY <1>1 DEF BeginRender, ReadPortfolio
<1>2. CASE UnlinkRetiredReport \/ UnlinkReport \/ UnlinkRetiredCommitment \/ UnlinkCommitment
  BY <1>2 DEF UnlinkRetiredReport, UnlinkReport, UnlinkRetiredCommitment, UnlinkCommitment
<1>3. CASE OpenPrompt \/ FillPrompt \/ PrepareRaw \/ Commit
  BY <1>3 DEF OpenPrompt, FillPrompt, PrepareRaw, Commit
<1>4. CASE BeginParse
  BY <1>4 DEF BeginParse, NoBuf
<1>5. CASE UnlinkOldReport
  BY <1>5 DEF UnlinkOldReport
<1>6. CASE LoadCommitment
  <2>1. CASE commitment \in {NoFile, Unusable}
    BY <1>6, <2>1 DEF LoadCommitment, EndpointsMatch
  <2>2. CASE commitment \notin {NoFile, Unusable}
    BY <1>6, <2>2 DEF LoadCommitment
  <2> QED
    BY <2>1, <2>2
<1>7. CASE CheckStrategy
  BY <1>7 DEF CheckStrategy, Check
<1>8. CASE CheckPortfolio
  BY <1>8 DEF CheckPortfolio, Check
<1>9. CASE CheckPrompt
  BY <1>9 DEF CheckPrompt, Check, EndpointsMatch
<1>10. CASE PublishReport \/ Crash
  BY <1>10 DEF PublishReport, Crash
<1>11. CASE EditInputs \/ EditPrompt
  BY <1>11 DEF EditInputs, EditPrompt
<1>12. CASE PasteRaw \/ DamageCommitment
  BY <1>12 DEF PasteRaw, DamageCommitment, EndpointsMatch
<1>13. CASE UNCHANGED vars
  BY <1>13 DEF vars, EndpointsMatch
<1> QED
  BY <1>1, <1>2, <1>3, <1>4, <1>5, <1>6, <1>7, <1>8, <1>9, <1>10, <1>11, <1>12, <1>13
     DEF Next, Render, Parse, Operator

\* While a render changes the prompt or the commitment there is no report to lie.
LEMMA StepFaithful ==
  ASSUME TypeOK, ReportWindow, Found, ReportFaithful, [Next]_vars
  PROVE  ReportFaithful'
<1> USE DEF ReportFaithful, EndpointsMatch, inputs
<1>1. CASE BeginRender \/ ReadPortfolio \/ UnlinkRetiredReport \/ UnlinkRetiredCommitment \/ PrepareRaw
  BY <1>1 DEF BeginRender, ReadPortfolio, UnlinkRetiredReport, UnlinkRetiredCommitment, PrepareRaw
<1>2. CASE UnlinkReport \/ UnlinkOldReport
  BY <1>2 DEF UnlinkReport, UnlinkOldReport
<1>3. CASE UnlinkCommitment \/ OpenPrompt \/ FillPrompt \/ Commit
  BY <1>3 DEF UnlinkCommitment, OpenPrompt, FillPrompt, Commit, ReportWindow
<1>4. CASE BeginParse \/ LoadCommitment \/ CheckStrategy \/ CheckPortfolio \/ CheckPrompt
  BY <1>4 DEF BeginParse, LoadCommitment, CheckStrategy, CheckPortfolio, CheckPrompt, Check
<1>5. CASE PublishReport
  BY <1>5 DEF PublishReport, Found
<1>6. CASE Crash \/ PasteRaw
  BY <1>6 DEF Crash, PasteRaw
<1>7. CASE EditInputs \/ EditPrompt \/ DamageCommitment
  BY <1>7 DEF EditInputs, EditPrompt, DamageCommitment
<1>8. CASE UNCHANGED vars
  BY <1>8 DEF vars
<1> QED
  BY <1>1, <1>2, <1>3, <1>4, <1>5, <1>6, <1>7, <1>8 DEF Next, Render, Parse, Operator

\* A report tells of the three endpoints as they are, as long as nobody has
\* edited one since the parse began, and no retired report stands beside it.
THEOREM ReportStands == Spec => []ReportSound
<1>1. Init => FaithInv
  BY DEF Init, FaithInv, Found, ReportFaithful
<1>2. TypeOK /\ Progress /\ EvidenceInv /\ FaithInv /\ [Next]_vars => FaithInv'
  BY StepFound, StepFaithful DEF EvidenceInv, FaithInv
<1>3. EvidenceInv /\ FaithInv => ReportSound
  BY DEF EvidenceInv, FaithInv, ReportSound
<1> QED
  BY EvidenceInductive, <1>1, <1>2, <1>3, PTL DEF Spec

\* No render, parse or death of either changes what the operator has pasted.
THEOREM PasteSurvives == Spec => PasteSurvivesRender
<1>1. ASSUME Render \/ Parse \/ Crash
      PROVE  rawOutput' = rawOutput \/ rawOutput = NoFile
  <2>1. CASE PrepareRaw
    BY <2>1 DEF PrepareRaw
  <2>2. CASE Render /\ ~PrepareRaw
    BY <2>2 DEF Render, BeginRender, ReadPortfolio, UnlinkRetiredReport, UnlinkReport,
       UnlinkRetiredCommitment, UnlinkCommitment, OpenPrompt, FillPrompt, Commit
  <2>3. CASE Parse \/ Crash
    BY <2>3 DEF Parse, BeginParse, UnlinkOldReport, LoadCommitment, CheckStrategy,
       CheckPortfolio, CheckPrompt, Check, PublishReport, Crash
  <2> QED
    BY <1>1, <2>1, <2>2, <2>3
<1> QED
  BY <1>1, PTL DEF PasteSurvivesRender

-----------------------------------------------------------------------------
(* SourceCapture.  What holds a capture together is the witness of the      *)
(* file: while nothing was changed since it was taken, the first reading is *)
(* the content of the file, and at the verification of the directory that   *)
(* file is what the whole path leads to, unless the verification of the     *)
(* source, one step later, sees the change.                                 *)

\* The steps at which the directory is open, and at which the source is; those only
\* a capture of bytes, or of an absence, takes; and those after the first reading.
WithDir == {"open dir", "stat leaf", "open leaf", "read marker", "read", "bind", "look", "verify marker",
            "verify dir", "verify leaf", "verified", "look again", "open final", "read again"}
WithLeaf == {"open leaf", "read marker", "read", "bind", "verify marker", "verify dir", "verify leaf",
             "verified", "open final", "read again"}
OfBytes == {"stat leaf", "open leaf", "read", "verify leaf", "open final", "read again"}
OfAbsence == {"look", "look again"}
WithFirst == {"bind", "verify marker", "verify dir", "verify leaf", "verified", "open final", "read again"}
Pcs == WithDir \cup {"idle", "marker", "stat dir", "done"}

CaptureTyped ==
  /\ CaptureTypes
  /\ cap \in [pc : Pcs, mode : Modes \cup {None}, dir : Dirs \cup {None}, leaf : Files \cup {None},
              size : Nat, buf : Seq(Chunks), first : Seq(Chunks),
              unstable : SUBSET {"PATH_UNSTABLE", "UNSTABLE"}, code : Codes]
  /\ cap.pc \in WithDir => cap.dir \in Dirs /\ cap.mode \in Modes
  /\ cap.pc \in {"marker", "stat dir"} => cap.mode \in Modes
  /\ cap.pc \in OfBytes => cap.mode = "bytes"
  /\ cap.pc \in OfAbsence => cap.mode = "absence"
  /\ cap.mode = "bytes" /\ cap.pc \in WithLeaf => cap.leaf \in Files
  /\ cap.mode = "absence" => cap.leaf = None
  /\ cap.code \in {"CAPTURED", "CONFIRMED_ABSENT"} => cap.pc = "done"
  /\ cap.pc \notin {"verify dir", "verify leaf", "verified"} => cap.unstable = {}
  /\ cap.pc \notin {"read", "read again", "done"} => cap.buf = <<>>

\* What the path leads to is among what was seen.
StandingSeen == cap.pc # "idle" => {Standing} \cap Contents \subseteq seen

Prefix(s, t) == Len(s) <= Len(t) /\ \A i \in 1..Len(s) : s[i] = t[i]

\* A file unchanged since its witness has the size of the witness, and what was
\* read of it is what it has.
Steady ==
  cap.leaf \in Files /\ cap.pc \in WithLeaf /\ cap.leaf \notin changed =>
    /\ Len(data[cap.leaf]) = cap.size
    /\ Prefix(cap.buf, data[cap.leaf])
    /\ cap.pc \in WithFirst => cap.first = data[cap.leaf]

\* A first reading that passes the verification stood at the path.
FirstStood ==
  cap.leaf \in Files =>
    /\ cap.pc = "verify leaf" /\ cap.unstable = {} /\ leafAt[cap.dir] = cap.leaf /\ cap.leaf \notin changed =>
         cap.first \in seen
    /\ cap.pc = "verified" /\ cap.unstable = {} => cap.first \in seen
    /\ cap.pc \in {"open final", "read again"} => cap.first \in seen

\* Without edits everything is where the capture found it.
Quiet ==
  edits = 0 =>
    /\ changed = {}
    /\ cap.pc \in WithDir => dirAt = cap.dir
    /\ cap.pc \in WithLeaf /\ cap.leaf \in Files => leafAt[cap.dir] = cap.leaf
    /\ cap.pc \in WithDir => cap.unstable = {}

CaptureInv ==
  /\ CaptureTyped /\ StandingSeen /\ Steady /\ FirstStood /\ Quiet
  /\ CapturedStoodThere /\ QuietCaptureTells


\* A content is a sequence of chunks.
LEMMA ContentsSeq ==
  ASSUME NEW c \in Contents
  PROVE  c \in Seq(Chunks) /\ Len(c) \in Nat /\ \A i \in 1..Len(c) : c[i] \in Chunks
<1>1. PICK n \in 0..MaxLength : c \in [1..n -> Chunks]
  BY DEF Contents
<1> QED
  BY <1>1, SizeAssumption

\* What is read, and what stands in a file, are sequences of chunks.
LEMMA BufferSeq ==
  ASSUME CaptureTyped
  PROVE  cap.buf \in Seq(Chunks) /\ Len(cap.buf) \in Nat
<1>1. cap.buf \in Seq(Chunks)
  BY DEF CaptureTyped
<1> QED
  BY <1>1, LenProperties

\* One chunk more of a shorter sequence is still within the longer one.
LEMMA OneMore == \A m, n \in Nat : m < n => m + 1 <= n /\ m + 1 \in 1..n
  OBVIOUS

LEMMA EmptyPrefix ==
  ASSUME NEW t \in Seq(Chunks)
  PROVE  Prefix(<<>>, t)
<1>1. Len(<<>>) = 0 /\ Len(t) \in Nat
  BY LenProperties
<1> QED
  BY <1>1 DEF Prefix

LEMMA EmptyContent == <<>> \in Contents
<1>1. <<>> \in [1..0 -> Chunks] /\ 0 \in 0..MaxLength
  BY SizeAssumption
<1> QED
  BY <1>1 DEF Contents

\* What a file unchanged since its witness holds, and where it is, no edit
\* touches.
LEMMA EditKeeps ==
  ASSUME CaptureTyped, Write \/ Rename \/ MoveDir \/ ReplaceMarker
  PROVE  /\ cap' = cap /\ cap.pc \notin {"idle", "done"}
         /\ changed \subseteq changed' /\ seen' = seen \cup ({Standing'} \cap Contents)
         /\ edits' = edits + 1
         /\ CaptureTypes'
         /\ cap.leaf \in Files /\ cap.leaf \notin changed' =>
              /\ data'[cap.leaf] = data[cap.leaf]
              /\ \A d \in Dirs : leafAt'[d] = cap.leaf => leafAt[d] = cap.leaf
<1>0. CaptureTypes /\ MaxEdits \in Nat
  BY SizeAssumption DEF CaptureTyped
<1>1. ASSUME NEW what \in SUBSET (Files \cup {Marker}), Edit(what)
      PROVE  /\ cap' = cap /\ cap.pc \notin {"idle", "done"}
             /\ changed' = changed \cup (what \cap Witnessed)
             /\ changed \subseteq changed' /\ seen' = seen \cup ({Standing'} \cap Contents)
             /\ edits' = edits + 1 /\ edits' \in 0..MaxEdits
             /\ changed' \subseteq Files \cup {Marker}
             /\ seen' \subseteq Contents
             /\ cap'.mode \in Modes \cup {None} /\ cap'.code \in Codes
             /\ cap.leaf \in what => cap.leaf \in changed'
  BY <1>0, <1>1 DEF Edit, CaptureTypes, Witnessed
<1>2. CASE Write
  <2>1. PICK f \in Named \cup ({cap.leaf} \cap Files), d \in Contents :
          data' = [data EXCEPT ![f] = d] /\ UNCHANGED <<dirAt, leafAt, genuine>> /\ Edit({f})
    BY <1>2 DEF Write
  <2>2. f \in Files
    BY DEF Named
  <2>3. data' \in [Files -> Contents]
    BY <1>0, <2>1, <2>2 DEF CaptureTypes
  <2> QED
    BY <1>0, <1>1, <2>1, <2>2, <2>3 DEF CaptureTypes
<1>3. CASE Rename
  <2>1. PICK d \in Dirs, n \in (Files \ Named) \cup {Absent, Link}, c \in Contents :
          /\ leafAt' = [leafAt EXCEPT ![d] = n]
          /\ data' = [f \in Files |-> IF f = n THEN c
                                      ELSE IF f \in Named' \cup {cap.leaf} THEN data[f] ELSE <<>>]
          /\ UNCHANGED <<dirAt, genuine>> /\ Edit({n, leafAt[d]} \cap Files)
    BY <1>3 DEF Rename
  <2>2. data' \in [Files -> Contents] /\ leafAt' \in [Dirs -> Files \cup {Absent, Link, Special}]
    BY <1>0, <2>1, EmptyContent DEF CaptureTypes
  <2>3. cap.leaf \in Files /\ cap.leaf \notin changed' => cap.leaf # n
    BY <1>1, <2>1
  <2>4. cap.leaf \in Files /\ cap.leaf \notin changed' => data'[cap.leaf] = data[cap.leaf]
    BY <2>1, <2>3
  <2>5. cap.leaf \in Files /\ cap.leaf \notin changed' =>
          \A e \in Dirs : leafAt'[e] = cap.leaf => leafAt[e] = cap.leaf
    BY <1>0, <2>1, <2>3 DEF CaptureTypes
  <2> QED
    BY <1>0, <1>1, <2>1, <2>2, <2>4, <2>5 DEF CaptureTypes
<1>4. CASE MoveDir
  BY <1>0, <1>1, <1>4 DEF MoveDir, CaptureTypes
<1>5. CASE ReplaceMarker
  BY <1>0, <1>1, <1>5 DEF ReplaceMarker, CaptureTypes
<1> QED
  BY <1>2, <1>3, <1>4, <1>5

\* An edit keeps the invariant.
LEMMA EditStep ==
  ASSUME CaptureInv, Write \/ Rename \/ MoveDir \/ ReplaceMarker
  PROVE  CaptureInv'
<1> USE DEF CaptureInv
<1>1. CaptureTyped'
  BY EditKeeps DEF CaptureTyped
<1>2. StandingSeen'
  BY EditKeeps DEF StandingSeen
<1>3. Steady'
  BY EditKeeps DEF Steady
<1>4. FirstStood'
  <2>1. cap.leaf \in Files /\ cap.pc = "verify leaf" => cap.dir \in Dirs
    BY DEF CaptureTyped, WithDir
  <2> QED
    BY EditKeeps, <2>1 DEF FirstStood
<1>5. edits' # 0
  <2>1. edits \in 0..MaxEdits
    BY DEF CaptureTyped, CaptureTypes
  <2>2. edits' = edits + 1
    BY EditKeeps
  <2> QED
    BY <2>1, <2>2, SizeAssumption
<1>6. Quiet' /\ QuietCaptureTells'
  BY <1>5 DEF Quiet, QuietCaptureTells
<1>7. CapturedStoodThere'
  BY EditKeeps DEF CapturedStoodThere
<1> QED
  BY <1>1, <1>2, <1>3, <1>4, <1>6, <1>7

-----------------------------------------------------------------------------
\* The capture after a failure.
LEMMA Failed ==
  ASSUME CaptureTyped, NEW code \in Codes \ {"CAPTURED", "CONFIRMED_ABSENT"}, Fail(code)
  PROVE  /\ cap' = [pc |-> "done", mode |-> cap.mode, dir |-> None, leaf |-> None, size |-> 0,
                    buf |-> <<>>, first |-> <<>>, unstable |-> {}, code |-> code]
         /\ UNCHANGED <<tree, seen>>
  BY DEF Fail, Step, Blank

\* Nor does a failure disturb anything.
LEMMA FailedTyped ==
  ASSUME CaptureTyped, NEW code \in Codes \ {"CAPTURED", "CONFIRMED_ABSENT"}, Fail(code)
  PROVE  CaptureTyped'
<1>1. /\ cap' = [pc |-> "done", mode |-> cap.mode, dir |-> None, leaf |-> None, size |-> 0,
                 buf |-> <<>>, first |-> <<>>, unstable |-> {}, code |-> code]
      /\ UNCHANGED <<tree, seen>>
  BY Failed
<1>2. /\ cap' \in [pc : Pcs, mode : Modes \cup {None}, dir : Dirs \cup {None}, leaf : Files \cup {None},
                   size : Nat, buf : Seq(Chunks), first : Seq(Chunks),
                   unstable : SUBSET {"PATH_UNSTABLE", "UNSTABLE"}, code : Codes]
      /\ cap'.pc = "done" /\ cap'.leaf = None /\ cap'.unstable = {} /\ cap'.code = code
  <2>1. cap.mode \in Modes \cup {None}
    BY DEF CaptureTyped, CaptureTypes
  <2>2. <<>> \in Seq(Chunks) /\ "done" \in Pcs
    BY DEF Pcs
  <2> QED
    BY <1>1, <2>1, <2>2
<1>3. CaptureTypes'
  BY <1>1, <1>2 DEF CaptureTyped, CaptureTypes, tree
<1> QED
  BY <1>2, <1>3 DEF CaptureTyped, WithDir, WithLeaf, OfBytes, OfAbsence

\* A step of the capture keeps its shape.
LEMMA TypedStep ==
  ASSUME CaptureTyped, Capture
  PROVE  CaptureTyped'
<1> USE DEF Pcs, WithDir, WithLeaf, OfBytes, OfAbsence, Modes
<1>0. /\ cap \in [pc : Pcs, mode : Modes \cup {None}, dir : Dirs \cup {None}, leaf : Files \cup {None},
                  size : Nat, buf : Seq(Chunks), first : Seq(Chunks),
                  unstable : SUBSET {"PATH_UNSTABLE", "UNSTABLE"}, code : Codes]
      /\ CaptureTypes
  BY DEF CaptureTyped
<1>1. ASSUME NEW next \in Pcs \ {"done"}, NEW c, Step(next, c),
             c \in [pc : Pcs, mode : Modes \cup {None}, dir : Dirs \cup {None}, leaf : Files \cup {None},
                    size : Nat, buf : Seq(Chunks), first : Seq(Chunks),
                    unstable : SUBSET {"PATH_UNSTABLE", "UNSTABLE"}, code : Codes],
             next \in WithDir => c.dir \in Dirs /\ c.mode \in Modes,
             next \in {"marker", "stat dir"} => c.mode \in Modes,
             next \in OfBytes => c.mode = "bytes",
             next \in OfAbsence => c.mode = "absence",
             c.mode = "bytes" /\ next \in WithLeaf => c.leaf \in Files,
             c.mode = "absence" => c.leaf = None,
             c.code \notin {"CAPTURED", "CONFIRMED_ABSENT"},
             next \notin {"verify dir", "verify leaf", "verified"} => c.unstable = {},
             next \notin {"read", "read again"} => c.buf = <<>>
      PROVE  CaptureTyped'
  BY <1>0, <1>1, ZenonT(30) DEF CaptureTyped, CaptureTypes, Step, tree
<1>2. CASE Start
  <2>1. PICK mode \in Modes : cap' = [Blank EXCEPT !.pc = "marker", !.mode = mode]
    BY <1>2 DEF Start
  <2>2. cap' = [pc |-> "marker", mode |-> mode, dir |-> None, leaf |-> None, size |-> 0,
                buf |-> <<>>, first |-> <<>>, unstable |-> {}, code |-> "RUNNING"]
    BY <2>1 DEF Blank
  <2> QED
    BY <1>0, <1>2, <2>2 DEF Start, CaptureTyped, CaptureTypes, tree, Codes
<1>3. CASE OpenMarker
  BY <1>0, <1>1, <1>3 DEF OpenMarker, CaptureTyped
<1>4. CASE StatDir
  <2>1. CASE dirAt = Absent \/ dirAt = Link
    BY <1>4, <2>1, FailedTyped, NameAssumption DEF StatDir, MissingParent, Codes
  <2>2. CASE dirAt \in Dirs /\ Step("open dir", [cap EXCEPT !.dir = dirAt])
    BY <1>0, <1>1, <1>4, <2>2 DEF StatDir, CaptureTyped
  <2> QED
    BY <1>4, <2>1, <2>2 DEF StatDir
<1>5. CASE OpenDir
  BY <1>0, <1>1, <1>5, FailedTyped DEF OpenDir, CaptureTyped, Codes
<1>6. CASE StatLeaf
  <2>1. CASE Step("open leaf", [cap EXCEPT !.leaf = leafAt[cap.dir], !.size = Len(data[leafAt[cap.dir]])])
             /\ leafAt[cap.dir] \in Files
    <3>1. Len(data[leafAt[cap.dir]]) \in Nat
      BY <1>0, <2>1, ContentsSeq DEF CaptureTypes
    <3> QED
      BY <1>0, <1>1, <1>6, <2>1, <3>1 DEF StatLeaf, CaptureTyped
  <2> QED
    BY <1>6, <2>1, FailedTyped DEF StatLeaf, Codes
<1>7. CASE OpenLeaf
  BY <1>0, <1>1, <1>7, FailedTyped DEF OpenLeaf, CaptureTyped, Codes
<1>8. CASE ReadMarker
  BY <1>0, <1>1, <1>8, FailedTyped DEF ReadMarker, CaptureTyped, Codes
<1>9. CASE ReadChunk
  <2>1. cap.leaf \in Files /\ cap.pc \in {"read", "read again"}
    BY <1>9 DEF ReadChunk, CaptureTyped
  <2>2. /\ Len(data[cap.leaf]) \in Nat
        /\ \A i \in 1..Len(data[cap.leaf]) : data[cap.leaf][i] \in Chunks
    BY <1>0, <2>1, ContentsSeq DEF CaptureTypes
  <2>3. cap.buf \in Seq(Chunks) /\ Len(cap.buf) + 1 \in 1..Len(data[cap.leaf])
    <3>1. cap.buf \in Seq(Chunks) /\ Len(cap.buf) \in Nat /\ Len(cap.buf) < Len(data[cap.leaf])
      BY <1>9, BufferSeq DEF ReadChunk
    <3> QED
      BY <2>2, <3>1
  <2>4. Append(cap.buf, data[cap.leaf][Len(cap.buf) + 1]) \in Seq(Chunks)
    <3>1. data[cap.leaf][Len(cap.buf) + 1] \in Chunks
      BY <2>2, <2>3
    <3> QED
      BY <2>3, <3>1, AppendProperties
  <2> QED
    BY <1>0, <1>1, <1>9, <2>1, <2>4 DEF ReadChunk, CaptureTyped
<1>10. CASE EndRead
  <2>1. CASE Step("bind", [cap EXCEPT !.first = cap.buf, !.buf = <<>>]) /\ cap.pc = "read"
    <3>2. cap.buf \in Seq(Chunks) /\ <<>> \in Seq(Chunks)
      BY BufferSeq
    <3>5. /\ cap.dir \in Dirs /\ cap.mode = "bytes" /\ cap.leaf \in Files /\ cap.unstable = {}
          /\ cap.code \notin {"CAPTURED", "CONFIRMED_ABSENT"}
      <4>1. cap.mode = "bytes"
        BY <2>1 DEF CaptureTyped
      <4> QED
        BY <2>1, <4>1 DEF CaptureTyped
    <3>6. cap.size \in Nat /\ cap.code \in Codes
      BY <1>0
    <3> DEFINE c == [cap EXCEPT !.first = cap.buf, !.buf = <<>>]
    <3>3. c \in [pc : Pcs, mode : Modes \cup {None}, dir : Dirs \cup {None}, leaf : Files \cup {None},
                 size : Nat, buf : Seq(Chunks), first : Seq(Chunks),
                 unstable : SUBSET {"PATH_UNSTABLE", "UNSTABLE"}, code : Codes]
          /\ c.dir = cap.dir /\ c.mode = cap.mode /\ c.leaf = cap.leaf /\ c.unstable = {} /\ c.buf = <<>>
          /\ c.code = cap.code
      <4> HIDE DEF Pcs, Modes
      <4> QED
        BY <1>0, <3>2, <3>5, <3>6
    <3>4. Step("bind", c)
      BY <2>1
    <3> HIDE DEF c
    <3> QED
      BY <1>1, <3>3, <3>4, <3>5
  <2> QED
    BY <1>10, <2>1, FailedTyped DEF EndRead, Codes
<1>11. CASE BindModule
  BY <1>0, <1>1, <1>11, FailedTyped DEF BindModule, CaptureTyped, Codes
<1>12. CASE Look
  <2>1. CASE Step("done", [cap EXCEPT !.code = "CONFIRMED_ABSENT"])
    BY <1>0, <1>12, <2>1, ZenonT(60) DEF Look, Step, CaptureTyped, CaptureTypes, tree, Codes
  <2> QED
    BY <1>0, <1>1, <1>12, <2>1, FailedTyped DEF Look, CaptureTyped, Codes
<1>13. CASE VerifyMarker
  BY <1>0, <1>1, <1>13 DEF VerifyMarker, CaptureTyped
<1>14. CASE VerifyDir
  BY <1>0, <1>1, <1>14 DEF VerifyDir, CaptureTyped
<1>15. CASE VerifyLeaf
  BY <1>0, <1>1, <1>15 DEF VerifyLeaf, LeafVerdict, CaptureTyped
<1>16. CASE Verified
  BY <1>0, <1>1, <1>16, FailedTyped DEF Verified, CaptureTyped, Codes
<1>17. CASE OpenFinal
  BY <1>0, <1>1, <1>17, FailedTyped DEF OpenFinal, CaptureTyped, Codes
<1>18. CASE EndFinal
  <2>1. CASE Step("done", [cap EXCEPT !.code = "CAPTURED"])
    BY <1>0, <1>18, <2>1 DEF EndFinal, Step, CaptureTyped, CaptureTypes, tree, Codes
  <2> QED
    BY <1>18, <2>1, FailedTyped DEF EndFinal, Codes
<1> QED
  BY <1>2, <1>3, <1>4, <1>5, <1>6, <1>7, <1>8, <1>9, <1>10, <1>11, <1>12, <1>13, <1>14, <1>15,
     <1>16, <1>17, <1>18 DEF Capture

-----------------------------------------------------------------------------
\* The steps of a capture.

\* A capture leaves the tree as it is, and once begun also what was seen.
LEMMA CaptureKeeps ==
  ASSUME CaptureTyped, Capture
  PROVE  /\ UNCHANGED tree /\ Standing' = Standing
         /\ cap.pc # "idle" => seen' = seen
         /\ cap.pc # "done" /\ (cap.pc = "idle" => Start)
  BY DEF Capture, Start, OpenMarker, StatDir, OpenDir, StatLeaf, OpenLeaf, ReadMarker, ReadChunk,
         EndRead, BindModule, Look, VerifyMarker, VerifyDir, VerifyLeaf, Verified, OpenFinal, EndFinal,
         Step, Fail, tree, Standing

\* A step of the capture keeps what an unchanged file and its readings have in common.
LEMMA SteadyStep ==
  ASSUME CaptureTyped, Steady, Capture
  PROVE  Steady'
<1> USE DEF WithLeaf, WithFirst
<1>0. /\ UNCHANGED <<data, changed>>
      /\ cap \in [pc : Pcs, mode : Modes \cup {None}, dir : Dirs \cup {None}, leaf : Files \cup {None},
                  size : Nat, buf : Seq(Chunks), first : Seq(Chunks),
                  unstable : SUBSET {"PATH_UNSTABLE", "UNSTABLE"}, code : Codes]
      /\ \A f \in Files : data[f] \in Seq(Chunks) /\ Len(data[f]) \in Nat
  BY CaptureKeeps, ContentsSeq DEF tree, CaptureTyped, CaptureTypes
<1>1. cap'.pc \notin WithLeaf => Steady'
  BY DEF Steady
<1>2. ASSUME cap'.leaf = cap.leaf, cap'.size = cap.size, cap'.buf = cap.buf, cap'.first = cap.first,
             cap.pc \in WithLeaf, cap'.pc \in WithFirst => cap.pc \in WithFirst
      PROVE  Steady'
  BY <1>0, <1>2 DEF Steady
<1>3. cap'.leaf \notin Files => Steady'
  BY DEF Steady
<1>4. ASSUME NEW code, Fail(code) PROVE Steady'
  BY <1>1, <1>4 DEF Fail, Step, Blank
<1>5. CASE Start \/ OpenMarker \/ StatDir \/ Look
  <2>1. cap.leaf \notin Files \/ cap'.pc \notin WithLeaf
    <3>1. CASE Start
      BY <1>0, <3>1 DEF Start, Blank
    <3>2. CASE OpenMarker
      BY <1>0, <3>2 DEF OpenMarker, Step
    <3>3. CASE StatDir
      BY <1>0, <3>3 DEF StatDir, Step, Fail, Blank
    <3>4. CASE Look
      <4>1. cap.leaf = None
        BY <3>4 DEF Look, CaptureTyped, OfAbsence
      <4> QED
        BY <4>1, NameAssumption
    <3> QED
      BY <1>5, <3>1, <3>2, <3>3, <3>4
  <2>2. cap.leaf \notin Files => cap'.leaf \notin Files
    BY <1>0, <1>5, NameAssumption DEF Start, OpenMarker, StatDir, Look, Step, Fail, Blank
  <2> QED
    BY <1>1, <1>3, <2>1, <2>2
<1>6. CASE OpenDir
  <2>1. CASE Step(IF cap.mode = "absence" THEN "read marker" ELSE "stat leaf", cap)
    <3>1. cap'.pc \in WithLeaf => cap'.leaf = None
      BY <1>0, <2>1 DEF Step, CaptureTyped
    <3> QED
      BY <1>1, <1>3, <3>1, NameAssumption
  <2> QED
    BY <1>4, <1>6, <2>1 DEF OpenDir
<1>7. CASE StatLeaf
  <2>1. CASE /\ leafAt[cap.dir] \in Files
             /\ Step("open leaf", [cap EXCEPT !.leaf = leafAt[cap.dir], !.size = Len(data[leafAt[cap.dir]])])
    <3>1. /\ cap'.leaf = leafAt[cap.dir] /\ cap'.size = Len(data[leafAt[cap.dir]])
          /\ cap'.buf = <<>> /\ cap'.pc = "open leaf"
      BY <1>0, <1>7, <2>1 DEF StatLeaf, Step, CaptureTyped
    <3>2. Prefix(cap'.buf, data[cap'.leaf])
      BY <1>0, <2>1, <3>1, EmptyPrefix
    <3> QED
      BY <1>0, <3>1, <3>2 DEF Steady
  <2>2. Fail("MISSING") \/ Fail("SYMLINK_REJECTED") \/ Fail("NOT_REGULAR_FILE")
        \/ Fail("OVERSIZED") => Steady'
    BY <1>4
  <2> QED
    BY <1>7, <2>1, <2>2 DEF StatLeaf
<1>8. CASE OpenLeaf \/ ReadMarker
  <2>1. cap.pc \in {"open leaf", "read marker"}
    BY <1>8 DEF OpenLeaf, ReadMarker
  <2>2. CASE \E next \in {"read marker", "bind", "read"} : Step(next, cap) /\ (next = "bind" => cap.leaf = None)
    <3>1. /\ cap'.leaf = cap.leaf /\ cap'.size = cap.size /\ cap'.buf = cap.buf /\ cap'.first = cap.first
          /\ cap'.pc \in {"read marker", "bind", "read"} /\ (cap'.pc = "bind" => cap.leaf = None)
      BY <1>0, <2>2 DEF Step
    <3> QED
      BY <1>2, <1>3, <2>1, <3>1, NameAssumption
  <2>3. Fail("UNSTABLE") \/ Fail("NOT_REGULAR_FILE") \/ Fail("PATH_UNSTABLE")
        \/ Fail("REPOSITORY_MARKER_INVALID") => Steady'
    BY <1>4
  <2> QED
    BY <1>8, <2>2, <2>3 DEF OpenLeaf, ReadMarker, CaptureTyped
<1>9. CASE ReadChunk
  <2> DEFINE next == data[cap.leaf][Len(cap.buf) + 1]
  <2>1. /\ cap.leaf \in Files /\ cap.pc \in {"read", "read again"}
        /\ Len(cap.buf) < Len(data[cap.leaf])
    BY <1>9 DEF ReadChunk, CaptureTyped, OfBytes
  <2>2. /\ cap'.buf = Append(cap.buf, next) /\ cap'.pc = cap.pc /\ cap'.leaf = cap.leaf
        /\ cap'.size = cap.size /\ cap'.first = cap.first
    BY <1>0, <1>9 DEF ReadChunk, Step
  <2>3. next \in Chunks
    <3>1. \A i \in 1..Len(data[cap.leaf]) : data[cap.leaf][i] \in Chunks
      BY <2>1, ContentsSeq DEF CaptureTyped, CaptureTypes
    <3>2. Len(cap.buf) + 1 \in 1..Len(data[cap.leaf])
      <4>1. Len(data[cap.leaf]) \in Nat /\ Len(cap.buf) \in Nat
        BY <1>0, <2>1, BufferSeq
      <4> QED
        BY <2>1, <4>1, OneMore, Zenon
    <3> QED
      BY <3>1, <3>2
  <2>4. cap.leaf \notin changed => Prefix(cap'.buf, data[cap.leaf])
    <3> HIDE DEF next
    <3>1. /\ Len(Append(cap.buf, next)) = Len(cap.buf) + 1
          /\ \A i \in 1..Len(cap.buf) : Append(cap.buf, next)[i] = cap.buf[i]
          /\ Append(cap.buf, next)[Len(cap.buf) + 1] = next
          /\ Len(cap.buf) \in Nat
      BY <1>0, <2>3, BufferSeq, AppendProperties
    <3>2. ASSUME cap.leaf \notin changed
          PROVE  Prefix(cap.buf, data[cap.leaf])
      BY <2>1, <3>2 DEF Steady
    <3>3. data[cap.leaf][Len(cap.buf) + 1] = next
      BY DEF next
    <3>4. Len(data[cap.leaf]) \in Nat
      BY <1>0, <2>1
    <3>5. ASSUME cap.leaf \notin changed
          PROVE  Prefix(Append(cap.buf, next), data[cap.leaf])
      <4>1. \A i \in 1..Len(cap.buf) : cap.buf[i] = data[cap.leaf][i]
        BY <3>2, <3>5 DEF Prefix
      <4>2. ASSUME NEW i \in 1..(Len(cap.buf) + 1)
            PROVE  Append(cap.buf, next)[i] = data[cap.leaf][i]
        BY <3>1, <3>3, <4>1, <4>2
      <4>3. Len(cap.buf) + 1 <= Len(data[cap.leaf])
        BY <2>1, <3>1, <3>4, OneMore, Zenon
      <4> QED
        BY <3>1, <4>2, <4>3 DEF Prefix
    <3> QED
      BY <2>2, <3>5
  <2> QED
    BY <1>0, <2>1, <2>2, <2>4 DEF Steady
<1>10. CASE EndRead
  <2>1. CASE Len(cap.buf) = cap.size /\ Step("bind", [cap EXCEPT !.first = cap.buf, !.buf = <<>>])
    <3>1. /\ cap'.leaf = cap.leaf /\ cap'.size = cap.size /\ cap'.first = cap.buf
          /\ cap'.buf = <<>> /\ cap.pc = "read" /\ cap.leaf \in Files
      BY <1>0, <1>10, <2>1 DEF EndRead, Step, CaptureTyped, OfBytes
    <3>2. cap.leaf \notin changed => cap.buf = data[cap.leaf]
      BY <1>0, <2>1, <3>1, SeqEqual DEF Steady, Prefix
    <3>3. Prefix(cap'.buf, data[cap.leaf])
      BY <1>0, <3>1, EmptyPrefix
    <3> QED
      BY <1>0, <3>1, <3>2, <3>3 DEF Steady
  <2> QED
    BY <1>4, <1>10, <2>1 DEF EndRead
<1>11. CASE BindModule \/ VerifyMarker \/ VerifyDir \/ VerifyLeaf \/ Verified \/ OpenFinal
  <2>1. CASE cap'.pc \in WithLeaf
    <3>1. cap.pc \in WithLeaf /\ cap'.pc \in WithFirst /\ cap.pc \in WithFirst
      BY <1>0, <1>11, <2>1
         DEF BindModule, VerifyMarker, VerifyDir, VerifyLeaf, Verified, OpenFinal, Step, Fail, Blank
    <3>2. cap'.leaf = cap.leaf /\ cap'.size = cap.size /\ cap'.buf = cap.buf /\ cap'.first = cap.first
      <4>1. CASE BindModule
        BY <1>0, <2>1, <4>1 DEF BindModule, Step, Fail, Blank
      <4>2. CASE VerifyMarker
        BY <1>0, <2>1, <4>2 DEF VerifyMarker, Step
      <4>3. CASE VerifyDir
        BY <1>0, <2>1, <4>3 DEF VerifyDir, Step
      <4>4. CASE VerifyLeaf
        BY <1>0, <2>1, <4>4 DEF VerifyLeaf, Step
      <4>5. CASE Verified
        BY <1>0, <2>1, <4>5 DEF Verified, Step, Fail, Blank
      <4>6. CASE OpenFinal
        BY <1>0, <2>1, <4>6 DEF OpenFinal, Step, Fail, Blank
      <4> QED
        BY <1>11, <4>1, <4>2, <4>3, <4>4, <4>5, <4>6
    <3> QED
      BY <1>2, <3>1, <3>2
  <2> QED
    BY <1>1, <2>1
<1>12. CASE EndFinal
  <2>1. CASE Step("done", [cap EXCEPT !.code = "CAPTURED"])
    BY <1>0, <1>1, <2>1 DEF Step
  <2> QED
    BY <1>4, <1>12, <2>1 DEF EndFinal
<1> QED
  BY <1>5, <1>6, <1>7, <1>8, <1>9, <1>10, <1>11, <1>12 DEF Capture

\* The first reading that the verification lets pass stood at the path.
LEMMA FirstStoodStep ==
  ASSUME CaptureTyped, StandingSeen, Steady, FirstStood, Capture
  PROVE  FirstStood' /\ CapturedStoodThere'
<1> USE DEF Pcs, WithDir, WithLeaf, WithFirst
<1>0. /\ cap \in [pc : Pcs, mode : Modes \cup {None}, dir : Dirs \cup {None}, leaf : Files \cup {None},
                  size : Nat, buf : Seq(Chunks), first : Seq(Chunks),
                  unstable : SUBSET {"PATH_UNSTABLE", "UNSTABLE"}, code : Codes]
      /\ UNCHANGED tree /\ cap.pc \notin {"done"}
  BY CaptureKeeps DEF CaptureTyped
<1>1. ASSUME cap'.pc \notin {"verify leaf", "verified", "open final", "read again"}, cap'.code # "CAPTURED"
      PROVE  FirstStood' /\ CapturedStoodThere'
  BY <1>1 DEF FirstStood, CapturedStoodThere
<1>2. cap.code # "CAPTURED"
  BY <1>0 DEF CaptureTyped
<1>3. ASSUME NEW code \in Codes \ {"CAPTURED", "CONFIRMED_ABSENT"}, Fail(code)
      PROVE  FirstStood' /\ CapturedStoodThere'
  BY <1>1, <1>3 DEF Fail, Step, Blank
<1>4. CASE Start \/ OpenMarker \/ StatDir \/ OpenDir \/ StatLeaf \/ OpenLeaf \/ ReadMarker
  BY <1>0, <1>1, <1>2, <1>4, ZenonT(120)
     DEF Start, OpenMarker, StatDir, OpenDir, StatLeaf, OpenLeaf, ReadMarker, Step, Fail, Blank, MissingParent
<1>5. CASE EndRead \/ BindModule \/ Look \/ VerifyMarker
  BY <1>0, <1>1, <1>2, <1>5, ZenonT(30) DEF EndRead, BindModule, Look, VerifyMarker, Step, Fail, Blank
<1>6. CASE ReadChunk
  BY <1>0, <1>2, <1>6, CaptureKeeps DEF ReadChunk, Step, FirstStood, CapturedStoodThere
<1>7. CASE VerifyDir
  <2>1. cap'.pc \in {"verified", "verify leaf"} /\ cap'.code # "CAPTURED" /\ seen' = seen
        /\ cap'.leaf = cap.leaf /\ cap'.dir = cap.dir /\ cap'.first = cap.first
        /\ (cap'.pc = "verified" => cap.mode = "absence")
        /\ (cap'.unstable = {} => dirAt = cap.dir)
    BY <1>0, <1>2, <1>7 DEF VerifyDir, Step
  <2>2. cap'.pc = "verified" => cap'.leaf \notin Files
    BY <2>1, NameAssumption DEF CaptureTyped
  <2>3. ASSUME cap.leaf \in Files, dirAt = cap.dir, leafAt[cap.dir] = cap.leaf, cap.leaf \notin changed
        PROVE  cap.first \in seen
    <3>1. cap.first = data[cap.leaf] /\ cap.dir \in Dirs
      BY <1>7, <2>3 DEF Steady, VerifyDir, CaptureTyped
    <3>2. Standing = data[cap.leaf] /\ data[cap.leaf] \in Contents
      BY <2>3, <3>1, NameAssumption DEF Standing, CaptureTyped, CaptureTypes
    <3> QED
      BY <1>7, <3>1, <3>2 DEF StandingSeen, VerifyDir
  <2> QED
    BY <1>0, <2>1, <2>2, <2>3 DEF FirstStood, CapturedStoodThere, tree
<1>8. CASE VerifyLeaf
  <2>1. /\ cap'.pc = "verified" /\ cap'.code # "CAPTURED" /\ seen' = seen /\ cap.pc = "verify leaf"
        /\ cap'.leaf = cap.leaf /\ cap'.first = cap.first
        /\ cap'.unstable = cap.unstable \cup LeafVerdict
    BY <1>0, <1>2, <1>8 DEF VerifyLeaf, Step
  <2>2. cap'.unstable = {} => cap.unstable = {} /\ leafAt[cap.dir] = cap.leaf /\ cap.leaf \notin changed
    BY <2>1 DEF LeafVerdict
  <2> QED
    BY <2>1, <2>2 DEF FirstStood, CapturedStoodThere
<1>9. CASE Verified
  <2>1. CASE cap.unstable = {} /\ Step(IF cap.mode = "absence" THEN "look again" ELSE "open final", cap)
    BY <1>0, <1>2, <1>9, <2>1 DEF Verified, Step, FirstStood, CapturedStoodThere
  <2> QED
    BY <1>3, <1>9, <2>1 DEF Verified, Codes
<1>10. CASE OpenFinal
  <2>1. CASE Step("read again", cap)
    BY <1>0, <1>2, <1>10, <2>1 DEF OpenFinal, Step, FirstStood, CapturedStoodThere
  <2> QED
    BY <1>3, <1>10, <2>1 DEF OpenFinal, Codes
<1>11. CASE EndFinal
  <2>1. CASE cap.buf = cap.first /\ Step("done", [cap EXCEPT !.code = "CAPTURED"])
    <3>1. cap.leaf \in Files /\ cap.first \in seen
      BY <1>11 DEF EndFinal, CaptureTyped, OfBytes, FirstStood
    <3> QED
      BY <1>0, <2>1, <3>1 DEF Step, FirstStood, CapturedStoodThere
  <2> QED
    BY <1>3, <1>11, <2>1 DEF EndFinal, Codes
<1> QED
  BY <1>4, <1>5, <1>6, <1>7, <1>8, <1>9, <1>10, <1>11 DEF Capture

\* What stands at the path stays among what was seen.
LEMMA StandingSeenStep ==
  ASSUME CaptureTyped, StandingSeen, Capture
  PROVE  StandingSeen'
<1>1. Standing' = Standing /\ (cap.pc # "idle" => seen' = seen) /\ (cap.pc = "idle" => Start)
  BY CaptureKeeps
<1>2. cap.pc = "idle" => seen' = {Standing} \cap Contents
  BY <1>1 DEF Start
<1> QED
  BY <1>1, <1>2 DEF StandingSeen

-----------------------------------------------------------------------------
\* Without edits.

LEMMA QuietStep ==
  ASSUME CaptureInv, Capture
  PROVE  Quiet' /\ QuietCaptureTells'
<1> USE DEF CaptureInv
<1>0. /\ cap \in [pc : Pcs, mode : Modes \cup {None}, dir : Dirs \cup {None}, leaf : Files \cup {None},
                  size : Nat, buf : Seq(Chunks), first : Seq(Chunks),
                  unstable : SUBSET {"PATH_UNSTABLE", "UNSTABLE"}, code : Codes]
      /\ CaptureTypes
      /\ UNCHANGED <<dirAt, leafAt, data, genuine, changed, edits>> /\ Standing' = Standing
  BY CaptureKeeps DEF CaptureTyped, tree
<1>1. SUFFICES ASSUME edits = 0
               PROVE  Quiet' /\ QuietCaptureTells'
  BY <1>0 DEF Quiet, QuietCaptureTells
<1>2. /\ changed = {} /\ (cap.pc \in WithDir => dirAt = cap.dir /\ cap.dir \in Dirs /\ cap.unstable = {})
      /\ cap.pc \in WithLeaf /\ cap.leaf \in Files => leafAt[cap.dir] = cap.leaf
  BY <1>1 DEF Quiet, CaptureTyped
<1>3. cap.pc \in WithDir /\ leafAt[cap.dir] \in Files =>
        Standing = data[leafAt[cap.dir]] /\ Standing \in Contents
  BY <1>0, <1>2, NameAssumption DEF Standing, CaptureTypes
<1>4. cap.pc \in WithDir /\ leafAt[cap.dir] \notin Files => Standing = leafAt[cap.dir]
  BY <1>0, <1>2, NameAssumption DEF Standing, CaptureTypes
<1>5. ASSUME NEW code \in Codes, Fail(code),
             code = "CONFIRMED_ABSENT" => Standing = Absent,
             code = "PRESENT" => Standing \in Contents \cup {Special},
             code \in {"OVERSIZED", "EXPECTED_SHA256_MISMATCH"} => Standing \in Contents,
             code \notin {"CAPTURED", "PATH_UNSTABLE", "UNSTABLE", "OVERLONG_READ", "SHORT_READ",
                          "REPOSITORY_ROOT_UNTRUSTED", "RUNNING"}
      PROVE  Quiet' /\ QuietCaptureTells'
  <2>1. cap'.pc = "done" /\ cap'.code = code
    BY <1>5 DEF Fail, Step, Blank
  <2>2. Quiet'
    BY <1>0, <1>2, <2>1 DEF Quiet, WithDir, WithLeaf
  <2> QED
    BY <1>0, <1>5, <2>1, <2>2 DEF QuietCaptureTells, Codes
<1>6. ASSUME NEW next \in Pcs \ {"done"}, NEW c, Step(next, c),
             c \in [pc : Pcs, mode : Modes \cup {None}, dir : Dirs \cup {None}, leaf : Files \cup {None},
                    size : Nat, buf : Seq(Chunks), first : Seq(Chunks),
                    unstable : SUBSET {"PATH_UNSTABLE", "UNSTABLE"}, code : Codes],
             next \in WithDir => c.dir = dirAt /\ c.unstable = {},
             next \in WithLeaf /\ c.leaf \in Files => leafAt[c.dir] = c.leaf
      PROVE  Quiet' /\ QuietCaptureTells'
  <2>1. /\ cap'.pc = next /\ cap'.dir = c.dir /\ cap'.leaf = c.leaf /\ cap'.unstable = c.unstable
    BY <1>6 DEF Step
  <2> QED
    BY <1>0, <1>2, <1>6, <2>1 DEF Quiet, QuietCaptureTells
<1> USE DEF Pcs, WithDir, WithLeaf
<1>7. CASE Start
  <2>1. cap'.pc = "marker"
    BY <1>7 DEF Start, Blank
  <2> QED
    BY <1>0, <1>2, <2>1 DEF Quiet, QuietCaptureTells
<1>8. CASE OpenMarker
  BY <1>0, <1>6, <1>8 DEF OpenMarker
<1>9. CASE StatDir
  <2>1. CASE dirAt \in Dirs /\ Step("open dir", [cap EXCEPT !.dir = dirAt])
    BY <1>0, <1>6, <1>9, <2>1 DEF StatDir, CaptureTyped
  <2>2. Fail("MISSING") \/ Fail("PARENT_DIRECTORY_MISSING") \/ Fail("SYMLINK_REJECTED")
          => Quiet' /\ QuietCaptureTells'
    BY <1>5 DEF Codes
  <2> QED
    BY <1>9, <2>1, <2>2 DEF StatDir, MissingParent
<1>10. CASE OpenDir
  <2>1. CASE Step("stat leaf", cap)
    BY <1>0, <1>2, <1>6, <1>10, <2>1 DEF OpenDir
  <2>2. CASE cap.mode = "absence" /\ Step("read marker", cap)
    BY <1>0, <1>2, <1>6, <1>10, <2>2, NameAssumption DEF OpenDir, CaptureTyped
  <2> QED
    BY <1>2, <1>10, <2>1, <2>2 DEF OpenDir
<1>11. CASE StatLeaf
  <2>1. CASE /\ leafAt[cap.dir] \in Files
             /\ Step("open leaf", [cap EXCEPT !.leaf = leafAt[cap.dir], !.size = Len(data[leafAt[cap.dir]])])
    <3>1. Len(data[leafAt[cap.dir]]) \in Nat
      BY <1>0, <2>1, ContentsSeq DEF CaptureTypes
    <3> QED
      BY <1>0, <1>2, <1>6, <1>11, <2>1, <3>1 DEF StatLeaf
  <2>2. Fail("MISSING") \/ Fail("SYMLINK_REJECTED") \/ Fail("NOT_REGULAR_FILE")
          => Quiet' /\ QuietCaptureTells'
    BY <1>5 DEF Codes
  <2>3. leafAt[cap.dir] \in Files /\ Fail("OVERSIZED") => Quiet' /\ QuietCaptureTells'
    BY <1>3, <1>5, <1>11 DEF Codes, StatLeaf
  <2> QED
    BY <1>11, <2>1, <2>2, <2>3 DEF StatLeaf
<1>12. CASE OpenLeaf
  <2>1. cap.leaf \in Files /\ leafAt[cap.dir] = cap.leaf /\ cap.pc = "open leaf"
    BY <1>2, <1>12 DEF OpenLeaf, CaptureTyped, OfBytes
  <2>2. Step("read marker", cap)
    BY <1>2, <1>12, <2>1, NameAssumption DEF OpenLeaf
  <2> QED
    BY <1>0, <1>2, <1>6, <2>1, <2>2
<1>13. CASE ReadMarker
  <2>1. Fail("REPOSITORY_MARKER_INVALID") => Quiet' /\ QuietCaptureTells'
    BY <1>5 DEF Codes
  <2> QED
    BY <1>0, <1>2, <1>6, <1>13, <2>1 DEF ReadMarker
<1>14. CASE ReadChunk
  <2>1. cap'.pc = cap.pc /\ cap'.dir = cap.dir /\ cap'.leaf = cap.leaf /\ cap'.unstable = cap.unstable
        /\ cap.pc \in {"read", "read again"}
    BY <1>0, <1>14 DEF ReadChunk, Step
  <2> QED
    BY <1>0, <1>2, <2>1 DEF Quiet, QuietCaptureTells
<1>15. CASE EndRead
  <2>1. /\ cap.leaf \in Files /\ cap.pc = "read" /\ leafAt[cap.dir] = cap.leaf
        /\ Len(data[cap.leaf]) = cap.size /\ Prefix(cap.buf, data[cap.leaf])
    BY <1>2, <1>15 DEF EndRead, CaptureTyped, OfBytes, Steady
  <2>2. Len(cap.buf) \in Nat /\ cap.size \in Nat
    BY <1>0, BufferSeq
  <2>3. ~(Len(cap.buf) > cap.size) /\ ~(Len(cap.buf) < cap.size)
    <3>1. Len(cap.buf) <= cap.size /\ (Len(cap.buf) > cap.size \/ Len(cap.buf) >= cap.size)
      BY <1>15, <2>1 DEF EndRead, AtEnd, Prefix
    <3> QED
      BY <2>2, <3>1
  <2>4. CASE Step("bind", [cap EXCEPT !.first = cap.buf, !.buf = <<>>])
    <3>1. /\ cap'.pc = "bind" /\ cap'.dir = cap.dir /\ cap'.leaf = cap.leaf
          /\ cap'.unstable = cap.unstable
      BY <1>0, <2>4 DEF Step
    <3> QED
      BY <1>0, <1>2, <2>1, <3>1 DEF Quiet, QuietCaptureTells
  <2>5. Fail("EXPECTED_SHA256_MISMATCH") => Quiet' /\ QuietCaptureTells'
    BY <1>3, <1>5, <2>1 DEF Codes
  <2> QED
    BY <1>15, <2>3, <2>4, <2>5 DEF EndRead
<1>16. CASE BindModule
  BY <1>0, <1>2, <1>6, <1>16, NameAssumption DEF BindModule, CaptureTyped
<1>17. CASE Look
  <2>1. cap.pc \in {"look", "look again"} /\ cap.leaf = None
    BY <1>17 DEF Look, CaptureTyped, OfAbsence
  <2>2. Fail("SYMLINK_REJECTED") => Quiet' /\ QuietCaptureTells'
    BY <1>5 DEF Codes
  <2>3. CASE leafAt[cap.dir] \in Files \cup {Special} /\ Fail("PRESENT")
    BY <1>3, <1>4, <1>5, <2>1, <2>3 DEF Codes
  <2>4. CASE Step("verify marker", cap)
    BY <1>0, <1>2, <1>6, <2>1, <2>4, NameAssumption
  <2>5. CASE leafAt[cap.dir] = Absent /\ Step("done", [cap EXCEPT !.code = "CONFIRMED_ABSENT"])
    <3>1. cap'.pc = "done" /\ cap'.code = "CONFIRMED_ABSENT"
      BY <1>0, <2>5 DEF Step
    <3>2. Standing = Absent
      BY <1>4, <2>1, <2>5, NameAssumption
    <3> QED
      BY <1>0, <1>2, <3>1, <3>2 DEF Quiet, QuietCaptureTells
  <2> QED
    BY <1>17, <2>2, <2>3, <2>4, <2>5 DEF Look
<1>18. CASE VerifyMarker
  <2>1. cap'.pc = "verify dir" /\ cap'.dir = cap.dir /\ cap'.leaf = cap.leaf /\ cap'.unstable = {}
        /\ cap.pc = "verify marker"
    BY <1>0, <1>2, <1>18 DEF VerifyMarker, Step
  <2> QED
    BY <1>0, <1>2, <2>1 DEF Quiet, QuietCaptureTells
<1>19. CASE VerifyDir
  <2>1. cap'.pc \in {"verified", "verify leaf"} /\ cap'.dir = cap.dir /\ cap'.leaf = cap.leaf
        /\ cap'.unstable = {} /\ cap.pc = "verify dir"
    BY <1>0, <1>2, <1>19 DEF VerifyDir, Step
  <2> QED
    BY <1>0, <1>2, <2>1 DEF Quiet, QuietCaptureTells
<1>20. CASE VerifyLeaf
  <2>1. cap.leaf \in Files /\ leafAt[cap.dir] = cap.leaf /\ cap.pc = "verify leaf"
    BY <1>2, <1>20 DEF VerifyLeaf, CaptureTyped, OfBytes
  <2>2. cap'.pc = "verified" /\ cap'.dir = cap.dir /\ cap'.leaf = cap.leaf /\ cap'.unstable = {}
    BY <1>0, <1>2, <1>20, <2>1 DEF VerifyLeaf, LeafVerdict, Step
  <2> QED
    BY <1>0, <1>2, <2>1, <2>2 DEF Quiet, QuietCaptureTells
<1>21. CASE Verified
  <2>1. /\ cap.unstable = {} /\ cap.pc = "verified"
        /\ Step(IF cap.mode = "absence" THEN "look again" ELSE "open final", cap)
    BY <1>2, <1>21 DEF Verified
  <2> QED
    BY <1>0, <1>2, <1>6, <2>1
<1>22. CASE OpenFinal
  <2>1. cap.leaf \in Files /\ leafAt[cap.dir] = cap.leaf /\ cap.pc = "open final" /\ dirAt = cap.dir
        /\ cap.dir \in Dirs
    BY <1>2, <1>22 DEF OpenFinal, CaptureTyped, OfBytes
  <2>2. Step("read again", cap)
    BY <1>22, <2>1 DEF OpenFinal
  <2> QED
    BY <1>0, <1>2, <1>6, <2>1, <2>2
<1>23. CASE EndFinal
  <2>1. /\ cap.leaf \in Files /\ cap.pc = "read again" /\ leafAt[cap.dir] = cap.leaf
        /\ Len(data[cap.leaf]) = cap.size /\ Prefix(cap.buf, data[cap.leaf]) /\ cap.first = data[cap.leaf]
    BY <1>2, <1>23 DEF EndFinal, CaptureTyped, OfBytes, Steady, WithFirst
  <2>2. Len(cap.buf) \in Nat /\ cap.size \in Nat /\ data[cap.leaf] \in Seq(Chunks) /\ cap.buf \in Seq(Chunks)
    BY <1>0, <2>1, BufferSeq, ContentsSeq DEF CaptureTypes
  <2>3. Len(cap.buf) = Len(data[cap.leaf])
    <3>1. Len(cap.buf) <= cap.size /\ (Len(cap.buf) > cap.size \/ Len(cap.buf) >= cap.size)
      BY <1>23, <2>1 DEF EndFinal, AtEnd, Prefix
    <3>2. Len(cap.buf) = cap.size
      BY <2>2, <3>1
    <3> QED
      BY <2>1, <3>2
  <2>4. cap.buf = data[cap.leaf]
    BY <2>1, <2>2, <2>3, SeqEqual DEF Prefix
  <2>5. Step("done", [cap EXCEPT !.code = "CAPTURED"])
    BY <1>23, <2>1, <2>3, <2>4 DEF EndFinal
  <2>6. cap'.pc = "done" /\ cap'.code = "CAPTURED" /\ cap'.buf = cap.buf
    BY <1>0, <2>5 DEF Step
  <2>7. Standing = cap.buf
    BY <1>3, <2>1, <2>4
  <2> QED
    BY <1>0, <1>2, <2>6, <2>7 DEF Quiet, QuietCaptureTells
<1> QED
  BY <1>7, <1>8, <1>9, <1>10, <1>11, <1>12, <1>13, <1>14, <1>15, <1>16, <1>17, <1>18, <1>19, <1>20,
     <1>21, <1>22, <1>23 DEF Capture

-----------------------------------------------------------------------------
LEMMA CaptureInvInit == CaptureInit => CaptureInv
<1> SUFFICES ASSUME CaptureInit PROVE CaptureInv
  OBVIOUS
<1>1. cap = [pc |-> "idle", mode |-> None, dir |-> None, leaf |-> None, size |-> 0, buf |-> <<>>,
             first |-> <<>>, unstable |-> {}, code |-> "RUNNING"]
  BY DEF CaptureInit, Blank
<1>2. CaptureTypes
  BY <1>1, SizeAssumption DEF CaptureInit, CaptureTypes, Codes
<1>3. CaptureTyped
  BY <1>1, <1>2 DEF CaptureTyped, Pcs, WithDir, WithLeaf, OfBytes, OfAbsence, Codes, Modes
<1>4. StandingSeen /\ Steady /\ FirstStood /\ CapturedStoodThere /\ QuietCaptureTells
  BY <1>1 DEF StandingSeen, Steady, FirstStood, CapturedStoodThere, QuietCaptureTells, WithLeaf
<1>5. Quiet
  BY <1>1 DEF CaptureInit, Quiet, WithDir, WithLeaf
<1> QED
  BY <1>3, <1>4, <1>5 DEF CaptureInv

\* Every step keeps the invariant.
LEMMA CaptureInvStep == CaptureInv /\ [CaptureNext]_capturing => CaptureInv'
<1> SUFFICES ASSUME CaptureInv, [CaptureNext]_capturing PROVE CaptureInv'
  OBVIOUS
<1>1. CASE Write \/ Rename \/ MoveDir \/ ReplaceMarker
  BY <1>1, EditStep
<1>2. CASE Capture
  BY <1>2, TypedStep, StandingSeenStep, SteadyStep, FirstStoodStep, QuietStep DEF CaptureInv
<1>3. CASE UNCHANGED capturing
  <2>1. CaptureTyped'
    BY <1>3, ZenonT(120) DEF CaptureInv, capturing, tree, CaptureTyped, CaptureTypes
  <2>2. StandingSeen' /\ Steady'
    BY <1>3 DEF CaptureInv, capturing, tree, StandingSeen, Standing, Steady
  <2>3. FirstStood' /\ Quiet' /\ CapturedStoodThere'
    BY <1>3 DEF CaptureInv, capturing, tree, FirstStood, Quiet, CapturedStoodThere
  <2>4. QuietCaptureTells'
    <3>1. Standing' = Standing
      BY <1>3 DEF capturing, tree, Standing
    <3>2. cap' = cap /\ edits' = edits /\ QuietCaptureTells
      BY <1>3 DEF CaptureInv, capturing, tree
    <3> QED
      BY <3>1, <3>2 DEF QuietCaptureTells
  <2> QED
    BY <2>1, <2>2, <2>3, <2>4 DEF CaptureInv
<1> QED
  BY <1>1, <1>2, <1>3 DEF CaptureNext

\* What a capture returns as captured stood at the path at one instant of the capture,
\* and a capture under which nothing is edited tells what stands there
\* (mmi/source_capture.py), whatever the directories, files, chunks and bounds.
THEOREM CaptureSafe == CaptureSpec => []CaptureSound
<1>1. CaptureInv => CaptureSound
  BY DEF CaptureInv, CaptureSound, CaptureTyped
<1> QED
  BY <1>1, CaptureInvInit, CaptureInvStep, PTL DEF CaptureSpec

-----------------------------------------------------------------------------
(* The Step 1A grounding compile (AnchorGrounding).                         *)

\* The layers that run once the support signals have been compiled.
SinceSupport == {"approvals report", "revocations report", "overlay", "diff", "readiness", "dual ground", "join"}
BeforeSupport == Packets \cup Selections \cup {"baseline", "support"}
Closing == {"close overlay", "close diff", "close readiness", "close selection", "close packet", "close support"}

GroundingTypes ==
  /\ at \in BeforeSupport \cup SinceSupport \cup Closing \cup {"idle", "done"}
  /\ at # "idle" => captured \in ApprovalTexts
  /\ approvals \in ApprovalTexts
  /\ day \in Nat /\ day > 0
  /\ wrote \subseteq RunFiles
  /\ DOMAIN files = RunFiles

\* A readable packet that grounds on approvals took them from the source it names,
\* where they stood on some day; the packet of this parse from its own, today.
PacketGrounded ==
  ApprovedIn("packet") # {} =>
    \E date \in 1..day :
      /\ "packet" \in wrote => date = day /\ files["packet"].source = captured
      /\ ApprovedIn("packet") \subseteq StandingOn(files["packet"].source, date)

\* The support signals of this parse accept no approval but the packet's, until the
\* views are closed; they are closed after the packet.
SupportGrounded ==
  /\ at \in BeforeSupport => "support" \notin wrote
  /\ at \in SinceSupport \cup {"done"} /\ "support" \in wrote => ApprovedIn("support") \subseteq ApprovedIn("packet")
  /\ at = "close support" => ApprovedIn("packet") = {}

\* A parse ends joined to its capture, or with nothing that grounds on an approval.
EndJoined ==
  at = "done" => ApprovedIn("packet") = {} \/ ~Mismatch(Identity(captured))

GroundingInv == GroundingTypes /\ PacketGrounded /\ SupportGrounded /\ EndJoined

-----------------------------------------------------------------------------
LEMMA LayersFollow ==
  /\ After("packet") = "selection" /\ After("selection") = "baseline"
  /\ After("baseline") = "memo packet" /\ After("memo packet") = "memo selection"
  /\ After("memo selection") = "compile packet" /\ After("compile packet") = "compile selection"
  /\ After("compile selection") = "support" /\ After("support") = "approvals report"
  /\ After("approvals report") = "revocations report" /\ After("revocations report") = "overlay"
  /\ After("overlay") = "diff" /\ After("diff") = "readiness" /\ After("readiness") = "dual ground"
  BY DEF After

\* A written artifact is whole, or as it was, or cut short; no other is touched.
LEMMA ArtifactWritten ==
  ASSUME GroundingTypes, NEW f \in RunFiles, NEW content, NEW next, NEW failed,
         WriteArtifact(f, content, next, failed)
  PROVE  /\ DOMAIN files' = RunFiles
         /\ \A g \in RunFiles \ {f} : files'[g] = files[g]
         /\ \/ files'[f] = content /\ wrote' = wrote \cup {f} /\ at' = next
            \/ files'[f] \in {files[f], CutShort} /\ wrote' = wrote /\ at' = failed
         /\ UNCHANGED <<anchors, approvals, day, captured>>
  BY DEF WriteArtifact, GroundingTypes

\* What the packet takes from the captured approvals stands in them today.
LEMMA SelectedStands ==
  ASSUME GroundingTypes, captured \in ApprovalTexts, NEW base, Selected(base, captured).approved # {}
  PROVE  /\ Selected(base, captured).source = captured
         /\ Selected(base, captured).approved \subseteq StandingOn(captured, day)
<1>1. /\ Selected(base, captured).approved = Approved(base, captured)
      /\ Selected(base, captured).source = Identity(captured)
  BY DEF Selected, Closed, BaselineOnly, Overlay
<1>2. captured.present
  BY <1>1, GroundingAssumption DEF Approved
<1>3. Approved(base, captured) \subseteq StandingOn(captured, day)
  <2>1. ASSUME NEW a \in captured.approvals, Eligible(captured, a), ~Revoked(captured, a)
        PROVE  a.anchor \in StandingOn(captured, day)
    <3>1. captured.ok /\ a.sound /\ a.until >= day
      BY <2>1 DEF Eligible, InForce
    <3>2. \A r \in captured.revocations : (r.approval = a.id /\ r.anchor = a.anchor) =>
             r.from > (IF captured.asOf # 0 THEN captured.asOf ELSE day)
      BY <2>1, GroundingAssumption DEF Revoked, RevocationDay, GroundingTypes
    <3> QED
      BY <3>1, <3>2 DEF StandingOn
  <2> QED
    BY <2>1 DEF Approved
<1> QED
  BY <1>1, <1>2, <1>3 DEF Identity

LEMMA PacketKept ==
  ASSUME GroundingTypes, PacketGrounded, files'["packet"] = files["packet"], day' \in {day, day + 1},
         "packet" \in wrote' => "packet" \in wrote /\ captured' = captured /\ day' = day
  PROVE  PacketGrounded'
<1>1. ApprovedIn("packet")' = ApprovedIn("packet")
  BY DEF ApprovedIn, Readable
<1>2. SUFFICES ASSUME ApprovedIn("packet") # {}
      PROVE  \E date \in 1..day' :
               /\ "packet" \in wrote' => date = day' /\ files'["packet"].source = captured'
               /\ ApprovedIn("packet") \subseteq StandingOn(files'["packet"].source, date)
  BY <1>1 DEF PacketGrounded
<1>3. PICK date \in 1..day :
        /\ "packet" \in wrote => date = day /\ files["packet"].source = captured
        /\ ApprovedIn("packet") \subseteq StandingOn(files["packet"].source, date)
  BY <1>2 DEF PacketGrounded
<1>4. date \in 1..day'
  BY DEF GroundingTypes
<1> QED
  BY <1>3, <1>4

LEMMA PacketWritten ==
  ASSUME GroundingTypes, PacketGrounded, NEW content, NEW next, NEW failed,
         WriteArtifact("packet", content, next, failed),
         content.approved # {} => /\ content.source = captured
                                  /\ content.approved \subseteq StandingOn(captured, day)
  PROVE  PacketGrounded'
<1>1. /\ \/ files'["packet"] = content
         \/ files'["packet"] \in {files["packet"], CutShort} /\ wrote' = wrote
      /\ UNCHANGED <<anchors, approvals, day, captured>>
  BY ArtifactWritten DEF RunFiles
<1>2. CASE files'["packet"] = CutShort
  BY <1>2 DEF PacketGrounded, ApprovedIn, Readable
<1>3. CASE files'["packet"] = files["packet"] /\ wrote' = wrote
  BY <1>1, <1>3, PacketKept DEF GroundingTypes
<1>4. CASE files'["packet"] = content
  <2>1. SUFFICES ASSUME ApprovedIn("packet")' # {}
        PROVE  /\ files'["packet"].source = captured'
               /\ ApprovedIn("packet")' \subseteq StandingOn(files'["packet"].source, day')
    <3>1. day' \in 1..day'
      BY <1>1 DEF GroundingTypes
    <3> QED
      BY <2>1, <3>1 DEF PacketGrounded
  <2>2. ApprovedIn("packet")' = content.approved
    BY <1>4, <2>1 DEF ApprovedIn, Readable
  <2> QED
    BY <1>1, <1>4, <2>1, <2>2
<1> QED
  BY <1>1, <1>2, <1>3, <1>4

-----------------------------------------------------------------------------
USE DEF BeforeSupport, SinceSupport, Closing, Packets, Selections

LEMMA GroundingTypesStep ==
  ASSUME GroundingTypes, [GroundingNext]_grounding
  PROVE  GroundingTypes'
<1>1. CASE EditAnchors
  BY <1>1 DEF EditAnchors, GroundingTypes
<1>2. CASE EditApprovals
  BY <1>2 DEF EditApprovals, GroundingTypes
<1>3. CASE NextDay
  <2>1. day \in Nat /\ day > 0 /\ day' = day + 1
    BY <1>3 DEF NextDay, GroundingTypes
  <2>2. day' \in Nat /\ day' > 0
    BY <2>1
  <2> QED
    BY <1>3, <2>2 DEF NextDay, GroundingTypes
<1>4. CASE Kill
  BY <1>4 DEF Kill, GroundingTypes
<1>5. CASE CaptureApprovals
  BY <1>5 DEF CaptureApprovals, GroundingTypes
<1>6. ASSUME NEW f \in RunFiles, NEW content, NEW next, NEW failed, WriteArtifact(f, content, next, failed),
             at # "idle", {next, failed} \subseteq SinceSupport \cup BeforeSupport \cup Closing \cup {"idle", "done"}
      PROVE  GroundingTypes'
  BY <1>6, ArtifactWritten, ZenonT(60) DEF GroundingTypes
<1>7. CASE ReadDigest
  BY <1>7 DEF ReadDigest, GroundingTypes
<1>8. CASE WritePacket
  <2>1. /\ After(at) \in Selections /\ After(After(at)) \in BeforeSupport
        /\ at # "idle"
    BY <1>8, LayersFollow DEF WritePacket
  <2>2. WriteArtifact("packet", Selected(CompiledBaseline, captured), After(at), After(After(at)))
    BY <1>8 DEF WritePacket
  <2> QED
    BY <2>1, <2>2, <1>6 DEF RunFiles
<1>9. CASE WriteSelection
  <2>1. After(at) \in BeforeSupport /\ at # "idle"
    BY <1>9, LayersFollow DEF WriteSelection
  <2> QED
    BY <1>9, <2>1, <1>6 DEF WriteSelection, RunFiles
<1>10. CASE WriteBaseline
  BY <1>10, <1>6, LayersFollow DEF WriteBaseline, RunFiles
<1>11. CASE MemoHasPacket
  BY <1>11 DEF MemoHasPacket, GroundingTypes
<1>12. CASE WriteSupport
  <2>1. at # "idle" /\ WriteArtifact("support", SupportOf(Grounded), "approvals report", "approvals report")
    BY <1>12, LayersFollow DEF WriteSupport
  <2> QED
    BY <2>1, <1>6 DEF RunFiles
<1>13. CASE WriteReport
  <2>1. at \in {"approvals report", "revocations report"} /\ After(at) \in SinceSupport
    BY <1>13, LayersFollow DEF WriteReport
  <2> QED
    BY <1>13, <2>1, <1>6 DEF WriteReport, RunFiles
<1>14. CASE WriteOverlay \/ WriteDiff \/ WriteReadiness
  <2>1. CASE WriteOverlay
    BY <2>1, <1>6 DEF WriteOverlay, RunFiles
  <2>2. CASE WriteDiff \/ WriteReadiness
    BY <2>2, <1>6, LayersFollow DEF WriteDiff, WriteReadiness, RunFiles
  <2> QED
    BY <1>14, <2>1, <2>2
<1>15. CASE WriteDualGround
  <2>1. CASE Readable("support")
    BY <1>15, <2>1, <1>6 DEF WriteDualGround, RunFiles
  <2>2. CASE ~Readable("support")
    BY <1>15, <2>2 DEF WriteDualGround, GroundingTypes
  <2> QED
    BY <2>1, <2>2
<1>16. CASE Join
  BY <1>16 DEF Join, GroundingTypes
<1>17. ASSUME NEW step \in Closing, NEW f \in RunFiles, NEW content, NEW next \in Closing,
              Close(step, f, content, next)
       PROVE  GroundingTypes'
  <2>1. CASE Readable(f)
    BY <1>17, <2>1, <1>6 DEF Close
  <2>2. CASE ~Readable(f)
    BY <1>17, <2>2 DEF Close, GroundingTypes
  <2> QED
    BY <2>1, <2>2
<1>18. CASE CloseViews
  BY <1>18, <1>17 DEF CloseViews, RunFiles
<1>19. CASE CloseSupport
  BY <1>19, <1>6 DEF CloseSupport, RunFiles
<1>20. CASE UNCHANGED grounding
  BY <1>20 DEF grounding, GroundingTypes
<1> QED
  BY <1>1, <1>2, <1>3, <1>4, <1>5, <1>7, <1>8, <1>9, <1>10, <1>11, <1>12, <1>13, <1>14, <1>15, <1>16,
     <1>18, <1>19, <1>20 DEF GroundingNext, Layer

\* The packet changes only where it is compiled and where it is closed.
LEMMA PacketStep ==
  ASSUME GroundingTypes, PacketGrounded, [GroundingNext]_grounding
  PROVE  PacketGrounded'
<1>1. CASE EditAnchors \/ EditApprovals \/ NextDay \/ Kill \/ CaptureApprovals \/ ReadDigest \/ MemoHasPacket
           \/ Join \/ UNCHANGED grounding
  <2>1. /\ files' = files /\ day' \in {day, day + 1}
        /\ "packet" \in wrote' => "packet" \in wrote /\ captured' = captured /\ day' = day
    BY <1>1 DEF EditAnchors, EditApprovals, NextDay, Kill, CaptureApprovals, ReadDigest, MemoHasPacket, Join, grounding
  <2> QED
    BY <2>1, PacketKept
<1>2. ASSUME NEW f \in RunFiles \ {"packet"}, NEW content, NEW next, NEW failed,
             WriteArtifact(f, content, next, failed)
      PROVE  PacketGrounded'
  <2>1. /\ files'["packet"] = files["packet"] /\ UNCHANGED <<day, captured>>
        /\ "packet" \in wrote' => "packet" \in wrote
    BY <1>2, ArtifactWritten DEF RunFiles
  <2> QED
    BY <2>1, PacketKept
<1>3. CASE WritePacket
  <2>1. captured \in ApprovalTexts
    BY <1>3 DEF WritePacket, GroundingTypes
  <2> QED
    BY <1>3, <2>1, SelectedStands, PacketWritten DEF WritePacket
<1>4. CASE WriteSelection \/ WriteBaseline \/ WriteSupport \/ WriteReport \/ WriteOverlay \/ WriteDiff
           \/ WriteReadiness
  BY <1>4, <1>2 DEF WriteSelection, WriteBaseline, WriteSupport, WriteReport, WriteOverlay, WriteDiff,
    WriteReadiness, RunFiles
<1>5. CASE WriteDualGround
  <2>1. CASE Readable("support")
    BY <1>5, <2>1, <1>2 DEF WriteDualGround, RunFiles
  <2>2. CASE ~Readable("support")
    BY <1>5, <2>2, PacketKept DEF WriteDualGround
  <2> QED
    BY <2>1, <2>2
<1>6. CASE CloseViews
  <2>1. ASSUME NEW step, NEW f \in RunFiles \ {"packet"}, NEW content, NEW next, Close(step, f, content, next)
        PROVE  PacketGrounded'
    <3>1. CASE Readable(f)
      BY <2>1, <3>1, <1>2 DEF Close
    <3>2. CASE ~Readable(f)
      BY <2>1, <3>2, PacketKept DEF Close
    <3> QED
      BY <3>1, <3>2
  <2>2. CASE Close("close packet", "packet", Safe, "close support")
    <3>1. Safe.approved = {}
      BY DEF Safe, BaselineOnly, Closed
    <3>2. CASE Readable("packet")
      BY <2>2, <3>1, <3>2, PacketWritten DEF Close
    <3>3. CASE ~Readable("packet")
      BY <2>2, <3>3, PacketKept DEF Close
    <3> QED
      BY <3>2, <3>3
  <2> QED
    BY <1>6, <2>1, <2>2 DEF CloseViews, RunFiles
<1>7. CASE CloseSupport
  BY <1>7, <1>2 DEF CloseSupport, RunFiles
<1> QED
  BY <1>1, <1>3, <1>4, <1>5, <1>6, <1>7 DEF GroundingNext, Layer

LEMMA SupportKept ==
  ASSUME SupportGrounded,
         files'["packet"] = files["packet"], files'["support"] = files["support"],
         "support" \in wrote' => "support" \in wrote,
         at' \in BeforeSupport => at \in BeforeSupport,
         at' \in SinceSupport \cup {"done"} => at \in SinceSupport \cup {"done"},
         at' = "close support" => at = "close support"
  PROVE  SupportGrounded'
<1>1. ApprovedIn("packet")' = ApprovedIn("packet") /\ ApprovedIn("support")' = ApprovedIn("support")
  BY DEF ApprovedIn, Readable
<1> QED
  BY <1>1 DEF SupportGrounded

\* The support signals are compiled from the packet on disk, and nothing writes
\* the packet between that and the end of the join.
LEMMA SupportStep ==
  ASSUME GroundingTypes, SupportGrounded, [GroundingNext]_grounding
  PROVE  SupportGrounded'
<1>1. CASE EditAnchors \/ EditApprovals \/ NextDay \/ Kill \/ ReadDigest \/ Join \/ UNCHANGED grounding
  <2>1. files' = files /\ ("support" \in wrote' => "support" \in wrote)
    BY <1>1 DEF EditAnchors, EditApprovals, NextDay, Kill, ReadDigest, Join, grounding
  <2>2. at' \in {at, "idle"} \/ (at = "join" /\ at' \in {"close overlay", "done"})
    BY <1>1 DEF EditAnchors, EditApprovals, NextDay, Kill, ReadDigest, Join, grounding
  <2> QED
    BY <2>1, <2>2, SupportKept
<1>2. CASE CaptureApprovals
  BY <1>2 DEF CaptureApprovals, SupportGrounded
<1>3. ASSUME NEW f \in RunFiles \ {"packet", "support"}, NEW content, NEW next, NEW failed,
             WriteArtifact(f, content, next, failed),
             \A to \in {next, failed} :
               /\ to \in BeforeSupport => at \in BeforeSupport
               /\ to \in SinceSupport => at \in SinceSupport
               /\ to \notin {"done", "close support"}
      PROVE  SupportGrounded'
  <2>1. files'["packet"] = files["packet"] /\ files'["support"] = files["support"]
    BY <1>3, ArtifactWritten DEF RunFiles
  <2>2. ("support" \in wrote' => "support" \in wrote) /\ at' \in {next, failed}
    BY <1>3, ArtifactWritten
  <2> QED
    BY <1>3, <2>1, <2>2, SupportKept
<1>4. CASE WritePacket
  <2>1. at \in Packets /\ After(at) \in Selections /\ After(After(at)) \in BeforeSupport
    BY <1>4, LayersFollow DEF WritePacket
  <2>2. WriteArtifact("packet", Selected(CompiledBaseline, captured), After(at), After(After(at)))
    BY <1>4 DEF WritePacket
  <2>3. /\ wrote' \in {wrote, wrote \cup {"packet"}}
        /\ at' \in {After(at), After(After(at))}
    BY <2>2 DEF WriteArtifact
  <2> QED
    BY <2>1, <2>3 DEF SupportGrounded
<1>5. CASE WriteSelection
  <2>1. at \in Selections /\ After(at) \in BeforeSupport
    BY <1>5, LayersFollow DEF WriteSelection
  <2> QED
    BY <1>5, <2>1, <1>3 DEF WriteSelection, RunFiles
<1>6. CASE WriteBaseline
  <2>1. at \in BeforeSupport /\ After(at) \in BeforeSupport
    BY <1>6, LayersFollow DEF WriteBaseline
  <2> QED
    BY <1>6, <2>1, <1>3 DEF WriteBaseline, RunFiles
<1>7. CASE MemoHasPacket
  <2>1. files' = files /\ wrote' = wrote /\ at \in BeforeSupport /\ at' \in BeforeSupport
    BY <1>7 DEF MemoHasPacket
  <2> QED
    BY <2>1, SupportKept
<1>8. CASE WriteSupport
  <2>0. at = "support" /\ WriteArtifact("support", SupportOf(Grounded), "approvals report", "approvals report")
    BY <1>8, LayersFollow DEF WriteSupport
  <2>1. /\ files'["packet"] = files["packet"] /\ at' = "approvals report"
        /\ files'["support"] = SupportOf(Grounded) \/ wrote' = wrote
    BY <2>0, ArtifactWritten DEF RunFiles
  <2>2. Grounded.approved = ApprovedIn("packet")
    BY DEF Grounded, ApprovedIn, Closed
  <2>3. ApprovedIn("packet")' = ApprovedIn("packet")
    BY <2>1 DEF ApprovedIn, Readable
  <2>4. files'["support"] = SupportOf(Grounded) => ApprovedIn("support")' \subseteq ApprovedIn("packet")
    BY <2>2 DEF ApprovedIn, SupportOf
  <2> QED
    BY <2>0, <2>1, <2>3, <2>4 DEF SupportGrounded
<1>9. CASE WriteReport
  <2>1. at \in SinceSupport /\ After(at) \in SinceSupport /\ at \in RunFiles \ {"packet", "support"}
    BY <1>9, LayersFollow DEF WriteReport, RunFiles
  <2> QED
    BY <1>9, <2>1, <1>3 DEF WriteReport
<1>10. CASE WriteOverlay
  <2>1. at = "overlay" /\ WriteArtifact("overlay", OverlayOf(CompiledBaseline, captured), "diff", "readiness")
    BY <1>10 DEF WriteOverlay
  <2>2. /\ at' \in {"diff", "readiness"} /\ wrote' \in {wrote, wrote \cup {"overlay"}}
        /\ files'["packet"] = files["packet"] /\ files'["support"] = files["support"]
    BY <2>1 DEF WriteArtifact, GroundingTypes, RunFiles
  <2> QED
    BY <2>1, <2>2, SupportKept
<1>14. CASE WriteDiff
  <2>1. at = "diff" /\ WriteArtifact("diff", DiffOf(read, captured), "readiness", "readiness")
    BY <1>14, LayersFollow DEF WriteDiff
  <2> QED
    BY <2>1, <1>3 DEF RunFiles
<1>15. CASE WriteReadiness
  <2>1. at = "readiness" /\ WriteArtifact("readiness", ReadinessOf(captured), "dual ground", "dual ground")
    BY <1>15, LayersFollow DEF WriteReadiness
  <2> QED
    BY <2>1, <1>3 DEF RunFiles
<1>11. CASE WriteDualGround
  <2>1. CASE Readable("support")
    BY <1>11, <2>1, <1>3 DEF WriteDualGround, RunFiles
  <2>2. CASE ~Readable("support")
    BY <1>11, <2>2, SupportKept DEF WriteDualGround
  <2> QED
    BY <2>1, <2>2
<1>12. CASE CloseViews
  <2>1. ASSUME NEW step \in Closing, NEW f \in RunFiles \ {"packet", "support"}, NEW content,
               NEW next \in Closing \ {"close support"}, Close(step, f, content, next)
        PROVE  SupportGrounded'
    <3>1. CASE Readable(f)
      <4>1. WriteArtifact(f, content, next, "idle")
        BY <2>1, <3>1 DEF Close
      <4>2. /\ at' \in {next, "idle"} /\ wrote' \in {wrote, wrote \cup {f}}
            /\ files'["packet"] = files["packet"] /\ files'["support"] = files["support"]
        BY <2>1, <4>1 DEF WriteArtifact, GroundingTypes, RunFiles
      <4> QED
        BY <2>1, <4>2, SupportKept
    <3>2. CASE ~Readable(f)
      BY <2>1, <3>2, SupportKept DEF Close
    <3> QED
      BY <3>1, <3>2
  <2>2. CASE Close("close packet", "packet", Safe, "close support")
    <3>1. CASE Readable("packet")
      <4>0. WriteArtifact("packet", Safe, "close support", "idle")
        BY <2>2, <3>1 DEF Close
      <4>1. \/ files'["packet"] = Safe /\ at' = "close support"
            \/ at' = "idle"
        BY <4>0 DEF WriteArtifact, GroundingTypes, RunFiles
      <4>2. Safe.approved = {}
        BY DEF Safe, BaselineOnly, Closed
      <4>3. files'["packet"] = Safe => ApprovedIn("packet")' = {}
        BY <4>2 DEF ApprovedIn
      <4> QED
        BY <4>1, <4>3 DEF SupportGrounded
    <3>2. CASE ~Readable("packet")
      <4>1. ApprovedIn("packet")' = {} /\ at' = "close support"
        BY <2>2, <3>2 DEF Close, ApprovedIn, Readable
      <4> QED
        BY <4>1 DEF SupportGrounded
    <3> QED
      BY <3>1, <3>2
  <2> QED
    BY <1>12, <2>1, <2>2 DEF CloseViews, RunFiles
<1>13. CASE CloseSupport
  <2>0. WriteArtifact("support", SupportOf(Safe), "done", "idle")
    BY <1>13 DEF CloseSupport
  <2>1. \/ files'["support"] = SupportOf(Safe) /\ at' = "done"
        \/ at' = "idle"
    BY <2>0 DEF WriteArtifact, GroundingTypes, RunFiles
  <2>2. Safe.approved = {}
    BY DEF Safe, BaselineOnly, Closed
  <2>3. files'["support"] = SupportOf(Safe) => ApprovedIn("support")' = {}
    BY <2>2 DEF ApprovedIn, SupportOf
  <2> QED
    BY <2>1, <2>3 DEF SupportGrounded
<1> QED
  BY <1>1, <1>2, <1>4, <1>5, <1>6, <1>7, <1>8, <1>9, <1>10, <1>11, <1>12, <1>13,
     <1>14, <1>15 DEF GroundingNext, Layer

\* The join depends on nothing but the files and the capture.
LEMMA MismatchKept ==
  ASSUME files' = files, captured' = captured
  PROVE  Mismatch(Identity(captured))' = Mismatch(Identity(captured))
  BY DEF Mismatch, Identity, SourceOf, SelectedRegistry, Names, Grounded, ClaimedSomewhere, ApprovedIn, Readable,
    Required, Closed

LEMMA EndStep ==
  ASSUME GroundingTypes, SupportGrounded, EndJoined, [GroundingNext]_grounding
  PROVE  EndJoined'
<1>1. CASE EditAnchors \/ EditApprovals \/ UNCHANGED grounding
  <2>1. at' = at /\ files' = files /\ captured' = captured
    BY <1>1 DEF EditAnchors, EditApprovals, grounding
  <2>2. ApprovedIn("packet")' = ApprovedIn("packet")
    BY <2>1 DEF ApprovedIn, Readable
  <2> QED
    BY <2>1, <2>2, MismatchKept DEF EndJoined
<1>2. CASE Join
  <2>1. files' = files /\ captured' = captured /\ (at' = "done" => ~Mismatch(Identity(captured)))
    BY <1>2 DEF Join
  <2> QED
    BY <2>1, MismatchKept DEF EndJoined
<1>3. CASE CloseSupport
  <2>1. files'["packet"] = files["packet"] /\ ApprovedIn("packet") = {}
    BY <1>3, ArtifactWritten DEF CloseSupport, RunFiles, SupportGrounded
  <2>2. ApprovedIn("packet")' = {}
    BY <2>1 DEF ApprovedIn, Readable
  <2> QED
    BY <2>2 DEF EndJoined
<1>4. ASSUME NEW f \in RunFiles, NEW content, NEW next, NEW failed, WriteArtifact(f, content, next, failed),
             next # "done", failed # "done"
      PROVE  EndJoined'
  BY <1>4, ArtifactWritten DEF EndJoined
<1>5. CASE NextDay \/ Kill \/ CaptureApprovals \/ ReadDigest \/ MemoHasPacket
  <2>1. at' # "done"
    BY <1>5 DEF NextDay, Kill, CaptureApprovals, ReadDigest, MemoHasPacket
  <2> QED
    BY <2>1 DEF EndJoined
<1>6. CASE WritePacket
  <2>1. After(at) # "done" /\ After(After(at)) # "done"
    BY <1>6, LayersFollow DEF WritePacket
  <2> QED
    BY <1>6, <2>1, <1>4 DEF WritePacket, RunFiles
<1>7. CASE WriteSelection \/ WriteBaseline \/ WriteSupport \/ WriteReport
  <2>1. After(at) # "done"
    BY <1>7, LayersFollow DEF WriteSelection, WriteBaseline, WriteSupport, WriteReport
  <2> QED
    BY <1>7, <2>1, <1>4 DEF WriteSelection, WriteBaseline, WriteSupport, WriteReport, RunFiles
<1>8. CASE WriteOverlay \/ WriteDiff \/ WriteReadiness
  BY <1>8, <1>4, LayersFollow DEF WriteOverlay, WriteDiff, WriteReadiness, RunFiles
<1>9. CASE WriteDualGround
  <2>1. CASE Readable("support")
    BY <1>9, <2>1, <1>4 DEF WriteDualGround, RunFiles
  <2>2. CASE ~Readable("support")
    BY <1>9, <2>2 DEF WriteDualGround, EndJoined
  <2> QED
    BY <2>1, <2>2
<1>10. CASE CloseViews
  <2>1. ASSUME NEW step, NEW f \in RunFiles, NEW content, NEW next \in Closing, Close(step, f, content, next)
        PROVE  EndJoined'
    <3>1. CASE Readable(f)
      BY <2>1, <3>1, <1>4 DEF Close
    <3>2. CASE ~Readable(f)
      BY <2>1, <3>2 DEF Close, EndJoined
    <3> QED
      BY <3>1, <3>2
  <2> QED
    BY <1>10, <2>1 DEF CloseViews, RunFiles
<1> QED
  BY <1>1, <1>2, <1>3, <1>5, <1>6, <1>7, <1>8, <1>9, <1>10 DEF GroundingNext, Layer

-----------------------------------------------------------------------------
LEMMA GroundingInvInit == GroundingInit => GroundingInv
<1> SUFFICES ASSUME GroundingInit PROVE GroundingInv
  OBVIOUS
<1>1. GroundingTypes
  BY DEF GroundingInit, GroundingTypes
<1>2. ApprovedIn("packet") = {}
  BY DEF GroundingInit, ApprovedIn, Readable, RunFiles
<1> QED
  BY <1>1, <1>2 DEF GroundingInit, GroundingInv, PacketGrounded, SupportGrounded, EndJoined

\* The invariant at the end of a parse: the digests agree, so what the packet on
\* disk grounds on stood in the captured approvals, whoever wrote it.
LEMMA GroundingInvSound == GroundingInv => GroundingSound
<1> SUFFICES ASSUME GroundingInv, at = "done" PROVE GroundingSound
  BY DEF GroundingSound, GroundedByCapture, JoinedOrClosed
<1>1. JoinedOrClosed
  <2> SUFFICES ASSUME ApprovedIn("packet") # {}
      PROVE  /\ captured.present
             /\ files["packet"].source = captured
             /\ \A f \in Required : SourceOf(f) = captured
             /\ \A f \in {"selection", "dual ground"} : Readable(f) => files[f].source = captured
    BY DEF JoinedOrClosed
  <2>1. ClaimedSomewhere /\ ~Mismatch(Identity(captured))
    BY DEF GroundingInv, EndJoined, ClaimedSomewhere
  <2>2. Identity(captured) # NoText
    BY <2>1 DEF Mismatch
  <2>3. captured.present /\ Identity(captured) = captured
    BY <2>2 DEF Identity
  <2>4. Grounded = files["packet"]
    BY DEF Grounded, ApprovedIn
  <2>5. files["packet"].source = captured
    BY <2>1, <2>3, <2>4 DEF Mismatch, Names
  <2>6. /\ \A f \in Required : SourceOf(f) = captured
        /\ \A f \in {"selection", "dual ground"} : Readable(f) => files[f].source = captured
    BY <2>1, <2>3 DEF Mismatch
  <2> QED
    BY <2>3, <2>5, <2>6
<1>2. GroundedByCapture
  <2>1. \E date \in 1..day :
          /\ "packet" \in wrote => date = day
          /\ ApprovedIn("packet") \subseteq StandingOn(captured, date)
    <3>1. CASE ApprovedIn("packet") = {}
      <4>1. day \in 1..day
        BY DEF GroundingInv, GroundingTypes
      <4> QED
        BY <3>1, <4>1
    <3>2. CASE ApprovedIn("packet") # {}
      <4>1. files["packet"].source = captured
        BY <1>1, <3>2 DEF JoinedOrClosed
      <4> QED
        BY <3>2, <4>1 DEF GroundingInv, PacketGrounded
    <3> QED
      BY <3>1, <3>2
  <2>2. "support" \in wrote => ApprovedIn("support") \subseteq ApprovedIn("packet")
    BY DEF GroundingInv, SupportGrounded
  <2> SUFFICES ASSUME NEW f \in {"packet", "support"} \cap wrote
      PROVE  \E date \in 1..day :
               /\ "packet" \in wrote => date = day
               /\ ApprovedIn(f) \subseteq StandingOn(captured, date)
    BY DEF GroundedByCapture
  <2>3. ApprovedIn(f) \subseteq ApprovedIn("packet")
    BY <2>2
  <2> QED
    BY <2>1, <2>3
<1> QED
  BY <1>1, <1>2 DEF GroundingSound

\* Whatever the operator edits while step1_research.py compiles, whichever layers
\* fail or are killed, and however many parses and days there are: what a parse
\* grounds on stands in the approvals it captured, and the bundle is joined to
\* that capture or closed.
THEOREM GroundingSafe == GroundingSpec => []GroundingSound
<1>1. GroundingInv /\ [GroundingNext]_grounding => GroundingInv'
  BY GroundingTypesStep, PacketStep, SupportStep, EndStep DEF GroundingInv
<1> QED
  BY <1>1, GroundingInvInit, GroundingInvSound, PTL DEF GroundingSpec
=============================================================================
