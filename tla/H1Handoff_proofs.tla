-------------------------- MODULE H1Handoff_proofs --------------------------
(* H1Handoff for any sources, dates, answers, policy and bounds, and        *)
(* PersistedCase for any commands, versions, answers and bounds.            *)
EXTENDS H1Handoff, PersistedCase, FiniteSetTheorems, TLAPS

-----------------------------------------------------------------------------
(* Persisted cases.                                                        *)

\* The steps at which a command holds all three sources; the leaves
\* or case it is at; all steps.
Holding == {"make root", "create", "fill", "verify", "open", "read", "stat", "build"}
Places == Leaves \cup {"case"}
CaseSteps == Holding \cup {"idle", "take", "manifest", "live", "check"}

\* What a command is about to write: an artifact; one after the bundle is
\* created, after it is written, after the report is written; the manifest.
Makes(p) == p.at \in {"create", "fill"} /\ p.on \in Artifacts
Seals(p) == Makes(p) /\ ~(p.at = "create" /\ p.on = "bundle")
AfterBundle(p) == Makes(p) /\ p.on # "bundle"
AfterReport(p) == Makes(p) /\ p.on = "receipt"
FillsManifest(p) == p.at = "fill" /\ p.on = "manifest"
\* It reads or compares the case; it reads or uses the answers.
Consumes(p) == p.at \in {"live", "check"}
Uses(p) == p.at \in {"read", "build"} \/ Makes(p)

Manifests == [Sources -> Versions]
Given == Replies \cup {Junk}

ProcTypes == [at : CaseSteps, on : Places,
              took : [Sources -> Versions \cup {NoLeaf}], case : Manifests \cup {NoLeaf},
              answer : [Responses -> Given \cup {NoLeaf}], seen : [Responses -> Nat]]

CaseTyped ==
  /\ mode \in {"case", "session"}
  /\ live \in Manifests
  /\ disk = [l \in Leaves |-> disk[l]]
  /\ \A r \in Responses : disk[r] \in Given \cup {NoLeaf}
  /\ disk["manifest"] \in Manifests \cup {NoLeaf, Unfilled}
  /\ edits \in Nat /\ stamp \in [Responses -> Nat]
  /\ \A r \in Responses : stamp[r] <= edits
  /\ manifested \in Manifests \cup {NoLeaf}
  /\ proc \in [Processes -> ProcTypes]

\* What a command holds of the sources.
TookOK(p) ==
  /\ p.at \in {"create", "fill"} => p.on \notin Responses
  /\ p.at = "take" /\ p.on \in {"portfolio", "template"} => p.took["settings"] \in Versions
  /\ p.at = "take" /\ p.on = "template" => p.took["portfolio"] \in Versions
  /\ p.at \in Holding => p.took \in Manifests

\* What a consumption holds of the case: its manifest is the one that was
\* prepared, and each archive it has checked is what that names.
ConsumeOK(p) ==
  /\ p.at = "manifest" => mode = "case"
  /\ Consumes(p) => mode = "case" /\ p.case \in Manifests /\ p.case = manifested
  /\ p.at = "check" =>
       /\ p.on \in {"portfolio", "template", "h1 prompt"} => p.took["settings"] = p.case["settings"]
       /\ p.on \in {"template", "h1 prompt"} => p.took["portfolio"] = p.case["portfolio"]
       /\ p.on = "h1 prompt" => p.took["template"] = p.case["template"]
  /\ mode = "case" /\ Uses(p) => p.case \in Manifests /\ p.case = manifested /\ p.took = p.case

\* What a command holds of the answers.
AnswersOK(p) ==
  /\ \A r \in Responses : p.seen[r] <= edits
  /\ p.at \in {"stat", "build"} \/ (p.at = "read" /\ p.on # "h1 response") =>
       p.answer["h1 response"] # NoLeaf
  /\ Makes(p) => p.answer["h1 response"] \in Replies
  /\ p.at \in {"open", "stat"} => mode = "session"
  /\ mode = "session" =>
       /\ (p.at = "read" /\ p.on # "h1 response") \/ (p.at = "stat" /\ p.on = "h1 response") =>
            (stamp["h1 response"] = p.seen["h1 response"] => p.answer["h1 response"] = disk["h1 response"])
       /\ p.at = "stat" /\ p.on = "h1 response" =>
            (stamp["legacy response"] = p.seen["legacy response"] =>
               p.answer["legacy response"] = disk["legacy response"])
       /\ p.at = "stat" /\ p.on # "h1 response" =>
            (stamp["legacy response"] = p.seen["legacy response"] => p.answer \in stood)
       /\ p.at = "build" \/ Makes(p) => p.answer \in stood

\* What a command has written.
WroteOK(c) ==
  /\ Seals(proc[c]) => disk["bundle"] # NoLeaf
  /\ AfterBundle(proc[c]) => disk["bundle"] = Bundle(c)
  /\ AfterReport(proc[c]) => disk["report"] = Report(c)
  /\ FillsManifest(proc[c]) => disk["manifest"] = Unfilled

ProcOK(c) == TookOK(proc[c]) /\ ConsumeOK(proc[c]) /\ AnswersOK(proc[c]) /\ WroteOK(c)

\* Of the commands that passed an exclusive creation there is one.
OneSeals == \A c, d \in Processes : Seals(proc[c]) /\ Seals(proc[d]) => c = d
OneManifests == \A c, d \in Processes : FillsManifest(proc[c]) /\ FillsManifest(proc[d]) => c = d

\* A case is prepared once.
PreparedOnce ==
  manifested # NoLeaf =>
    /\ disk["manifest"] # NoLeaf
    /\ \A c \in Processes : ~FillsManifest(proc[c])

\* Behind a receipt nobody writes any more.
Sealed ==
  Whole("receipt") =>
    /\ disk["bundle"] # NoLeaf
    /\ \A c \in Processes : ~Seals(proc[c])
    /\ mode = "case" => manifested # NoLeaf

\* The answers that are there stood together.
PairStood ==
  mode = "session" /\ (\E r \in Responses : disk[r] # NoLeaf) => [r \in Responses |-> disk[r]] \in stood

CaseInv ==
  /\ CaseTyped /\ (\A c \in Processes : ProcOK(c))
  /\ OneSeals /\ OneManifests /\ PreparedOnce /\ Sealed /\ PairStood
  /\ CaseSound

-----------------------------------------------------------------------------
\* Counting up.
LEMMA OneMore == \A n \in Nat : n + 1 \in Nat /\ n <= n + 1
  OBVIOUS

\* A command that moves on and keeps what it holds.
LEMMA Goes ==
  ASSUME NEW p \in ProcTypes, NEW a \in CaseSteps, NEW l \in Places
  PROVE  /\ To(p, a, l) \in ProcTypes /\ To(p, a, l).at = a /\ To(p, a, l).on = l
         /\ To(p, a, l).took = p.took /\ To(p, a, l).case = p.case
         /\ To(p, a, l).answer = p.answer /\ To(p, a, l).seen = p.seen
  BY DEF ProcTypes, To

\* Whatever leaves the answers, the manifest and the artifacts as they are
\* concerns only the commands that move.
LEMMA Frame ==
  ASSUME CaseInv, NEW moved \in SUBSET Processes,
         UNCHANGED <<mode, stamp, manifested, stood>>,
         live' \in Manifests, edits' \in Nat, edits <= edits',
         disk' = [l \in Leaves |-> disk'[l]],
         \A l \in Responses \cup Artifacts \cup {"manifest"} : disk'[l] = disk[l],
         proc' \in [Processes -> ProcTypes],
         \A d \in Processes \ moved : proc'[d] = proc[d],
         \A d \in moved : ProcOK(d)' /\ ~FillsManifest(proc'[d]) /\ (Seals(proc'[d]) => Seals(proc[d]))
  PROVE  CaseInv'
<1>0. /\ \A r \in Responses : disk'[r] = disk[r]
      /\ disk'["manifest"] = disk["manifest"] /\ disk'["bundle"] = disk["bundle"]
      /\ disk'["report"] = disk["report"] /\ disk'["receipt"] = disk["receipt"]
  BY DEF Artifacts
<1>1. CaseTyped'
  <2>1. \A r \in Responses : stamp[r] \in Nat /\ stamp[r] <= edits /\ edits \in Nat
    BY DEF CaseInv, CaseTyped
  <2>2. \A r \in Responses : stamp[r] <= edits'
    BY <2>1
  <2>3. \A r \in Responses : disk'[r] \in Given \cup {NoLeaf}
    BY <1>0 DEF CaseInv, CaseTyped
  <2> QED
    BY <1>0, <2>2, <2>3 DEF CaseInv, CaseTyped
<1>a. \A d \in Processes : /\ Seals(proc'[d]) => Seals(proc[d])
                           /\ FillsManifest(proc'[d]) => FillsManifest(proc[d])
  <2> SUFFICES ASSUME NEW d \in Processes
               PROVE  /\ Seals(proc'[d]) => Seals(proc[d])
                      /\ FillsManifest(proc'[d]) => FillsManifest(proc[d])
    OBVIOUS
  <2>1. CASE d \in moved
    BY <2>1, Zenon
  <2>2. CASE d \notin moved
    BY <2>2
  <2> QED
    BY <2>1, <2>2
<1>2. ASSUME NEW d \in Processes \ moved
      PROVE  ProcOK(d)'
  <2>1. ProcOK(d) /\ proc'[d] = proc[d]
    BY DEF CaseInv
  <2>2. TookOK(proc[d])' /\ ConsumeOK(proc[d])'
    BY <2>1 DEF ProcOK, TookOK, ConsumeOK
  <2>3. AnswersOK(proc[d])'
    <3>1. \A r \in Responses : proc[d].seen[r] \in Nat
      BY DEF CaseInv, CaseTyped, ProcTypes
    <3>2. \A r \in Responses : proc[d].seen[r] <= edits
      BY <2>1 DEF ProcOK, AnswersOK
    <3>3. edits \in Nat
      BY DEF CaseInv, CaseTyped
    <3>4. \A r \in Responses : proc[d].seen[r] <= edits'
      BY <3>1, <3>2, <3>3
    <3> QED
      BY <1>0, <2>1, <3>4 DEF ProcOK, AnswersOK, Responses
  <2>4. WroteOK(d)'
    BY <1>0, <2>1 DEF ProcOK, WroteOK, Bundle, Report
  <2> QED
    BY <2>2, <2>3, <2>4 DEF ProcOK
<1>3. OneSeals' /\ OneManifests'
  BY <1>a DEF CaseInv, OneSeals, OneManifests
<1>4. PreparedOnce' /\ Sealed'
  BY <1>0, <1>a DEF CaseInv, PreparedOnce, Sealed, Whole
<1>5. PairStood' /\ CaseSound'
  <2>1. [r \in Responses |-> disk[r]]' = [r \in Responses |-> disk[r]]
    BY <1>0
  <2> QED
    BY <1>0, <2>1
       DEF CaseInv, PairStood, CaseSound, ReceiptSealsCase, BoundAsPrepared, AnswersStoodTogether, Whole
<1>6. \A d \in Processes : ProcOK(d)'
  <2> SUFFICES ASSUME NEW d \in Processes PROVE ProcOK(d)'
    OBVIOUS
  <2>1. CASE d \in moved
    BY <2>1, Zenon
  <2>2. CASE d \notin moved
    BY <1>2, <2>2
  <2> QED
    BY <2>1, <2>2
<1> QED
  BY <1>1, <1>3, <1>4, <1>5, <1>6 DEF CaseInv

\* A command that only reads.
LEMMA Becomes ==
  ASSUME CaseInv, NEW c \in Processes, NEW new \in ProcTypes, Become(c, new),
         TookOK(new), ConsumeOK(new), AnswersOK(new),
         ~Seals(new), ~FillsManifest(new)
  PROVE  CaseInv'
<1>1. /\ UNCHANGED <<mode, live, disk, stamp, edits, manifested, stood>>
      /\ proc' \in [Processes -> ProcTypes] /\ proc'[c] = new
      /\ \A d \in Processes \ {c} : proc'[d] = proc[d]
  BY DEF Become, CaseInv, CaseTyped
<1>2. ProcOK(c)'
  <2>1. TookOK(new)' /\ ConsumeOK(new)' /\ AnswersOK(new)'
    BY <1>1 DEF TookOK, ConsumeOK, AnswersOK
  <2>2. WroteOK(c)'
    BY <1>1 DEF WroteOK, AfterBundle, AfterReport, Seals
  <2> QED
    BY <1>1, <2>1, <2>2 DEF ProcOK
<1>3. live' \in Manifests /\ edits' \in Nat /\ edits <= edits' /\ disk' = [l \in Leaves |-> disk'[l]]
  BY <1>1 DEF CaseInv, CaseTyped
<1>4. {c} \in SUBSET Processes /\ UNCHANGED <<mode, stamp, manifested, stood>>
      /\ \A l \in Responses \cup Artifacts \cup {"manifest"} : disk'[l] = disk[l]
  BY <1>1
<1>5. \A d \in {c} : ProcOK(d)' /\ ~FillsManifest(proc'[d]) /\ (Seals(proc'[d]) => Seals(proc[d]))
  BY <1>1, <1>2
<1>6. proc' \in [Processes -> ProcTypes] /\ \A d \in Processes \ {c} : proc'[d] = proc[d]
  BY <1>1
<1> QED
  BY <1>3, <1>4, <1>5, <1>6, Frame, Zenon

-----------------------------------------------------------------------------
\* The operator.
LEMMA EditsSources ==
  ASSUME CaseInv, \/ \E s \in Sources : EditLive(s)
                  \/ \E l \in Sources \cup {"h1 prompt"} : EditLeaf(l)
  PROVE  CaseInv'
<1>1. /\ UNCHANGED <<mode, stamp, manifested, stood, proc>>
      /\ edits' = edits + 1 /\ edits \in Nat /\ proc \in [Processes -> ProcTypes]
      /\ disk = [l \in Leaves |-> disk[l]] /\ live \in Manifests
  BY DEF EditLive, EditLeaf, Edit, CaseInv, CaseTyped
<1>2. live' \in Manifests
  BY <1>1 DEF EditLive, EditLeaf, Manifests
<1>3. /\ disk' = [l \in Leaves |-> disk'[l]]
      /\ \A l \in Responses \cup Artifacts \cup {"manifest"} : disk'[l] = disk[l]
  <2>1. CASE disk' = disk
    BY <1>1, <2>1
  <2>2. CASE \E l \in Sources \cup {"h1 prompt"} : \E v : disk' = [disk EXCEPT ![l] = v]
    BY <1>1, <2>2 DEF Sources, Responses, Artifacts, Leaves
  <2> QED
    BY <2>1, <2>2 DEF EditLive, EditLeaf
<1>4. edits' \in Nat /\ edits <= edits'
  <2>1. edits' = edits + 1
    BY <1>1
  <2>2. edits \in Nat
    BY <1>1
  <2> QED
    BY <2>1, <2>2, OneMore, Zenon
<1>5. proc' \in [Processes -> ProcTypes] /\ \A d \in Processes : proc'[d] = proc[d]
  BY <1>1
<1> QED
  <2>1. /\ UNCHANGED <<mode, stamp, manifested, stood>>
        /\ \A d \in Processes \ {} : proc'[d] = proc[d]
    BY <1>1
  <2>2. {} \in SUBSET Processes
    OBVIOUS
  <2> QED
    BY <1>2, <1>3, <1>4, <1>5, <2>1, <2>2, Frame, Zenon

\* Another manifest is no longer the prepared one, and nobody is filling it.
LEMMA EditsManifest ==
  ASSUME CaseInv, EditManifest
  PROVE  CaseInv'
<1>1. /\ UNCHANGED <<mode, live, stamp, manifested, stood, proc>>
      /\ edits' = edits + 1 /\ edits \in Nat /\ Whole("manifest") /\ mode = "case"
  BY DEF EditManifest, Edit, CaseInv, CaseTyped
<1>2. PICK s \in Sources, v \in Versions : disk' = [disk EXCEPT !.manifest[s] = v]
  BY DEF EditManifest
<1>3. disk["manifest"] \in Manifests
  BY <1>1 DEF Whole, CaseInv, CaseTyped
<1>4. /\ disk' = [l \in Leaves |-> disk'[l]] /\ disk'["manifest"] = [disk["manifest"] EXCEPT ![s] = v]
      /\ \A l \in Responses \cup Artifacts : disk'[l] = disk[l]
  BY <1>2 DEF CaseInv, CaseTyped, Leaves, Responses, Artifacts
<1>5. disk'["manifest"] \in Manifests /\ disk'["manifest"] \notin {NoLeaf, Unfilled}
  BY <1>3, <1>4, LeafAssumption DEF Manifests
<1>6. \A c \in Processes : ~FillsManifest(proc[c])
  BY <1>1 DEF CaseInv, ProcOK, WroteOK, Whole
<1>7. CaseTyped'
  <2>1. \A r \in Responses : disk'[r] \in Given \cup {NoLeaf} /\ stamp[r] <= edits'
    BY <1>1, <1>4 DEF CaseInv, CaseTyped
  <2> QED
    BY <1>1, <1>4, <1>5, <2>1 DEF CaseInv, CaseTyped
<1>8. ASSUME NEW c \in Processes
      PROVE  ProcOK(c)'
  <2>1. ProcOK(c)
    BY DEF CaseInv
  <2>2. TookOK(proc[c])' /\ ConsumeOK(proc[c])'
    BY <1>1, <2>1 DEF ProcOK, TookOK, ConsumeOK
  <2>3. AnswersOK(proc[c])'
    <3>1. \A r \in Responses : proc[c].seen[r] \in Nat
      BY DEF CaseInv, CaseTyped, ProcTypes
    <3>2. \A r \in Responses : proc[c].seen[r] <= edits
      BY <2>1 DEF ProcOK, AnswersOK
    <3>3. \A r \in Responses : proc[c].seen[r] <= edits'
      BY <1>1, <3>1, <3>2
    <3>4. proc[c]' = proc[c]
      BY <1>1
    <3>5. mode = "case" /\ mode' = "case"
      BY <1>1
    <3> QED
      BY <1>1, <2>1, <3>3, <3>4, <3>5 DEF ProcOK, AnswersOK
  <2>4. WroteOK(c)'
    BY <1>1, <1>4, <1>6, <2>1 DEF ProcOK, WroteOK, Bundle, Report, Artifacts
  <2> QED
    BY <2>2, <2>3, <2>4 DEF ProcOK
<1>9. OneSeals' /\ OneManifests' /\ PreparedOnce' /\ Sealed'
  BY <1>1, <1>4, <1>5, <1>6 DEF CaseInv, OneSeals, OneManifests, PreparedOnce, Sealed, Whole, Artifacts
<1>10. PairStood' /\ CaseSound'
  BY <1>1, <1>4
     DEF CaseInv, PairStood, CaseSound, ReceiptSealsCase, BoundAsPrepared, AnswersStoodTogether, Whole,
         Artifacts
<1> QED
  BY <1>7, <1>8, <1>9, <1>10 DEF CaseInv

\* An answer: in a session it stands, with the other, among the pairs that stood.
LEMMA Replied ==
  ASSUME CaseInv, NEW r \in Responses, Answer(r)
  PROVE  CaseInv'
<1>1. /\ UNCHANGED <<mode, live, manifested, proc>>
      /\ edits' = edits + 1 /\ edits \in Nat
      /\ IF mode = "session"
         THEN stamp' = [stamp EXCEPT ![r] = edits'] /\ stood' = stood \cup {[x \in Responses |-> disk'[x]]}
         ELSE UNCHANGED <<stamp, stood>>
  BY DEF Answer, Edit, CaseInv, CaseTyped
<1>2. PICK v \in Given : disk' = [disk EXCEPT ![r] = v]
  BY DEF Answer, Given
<1>3. /\ disk' = [l \in Leaves |-> disk'[l]] /\ disk'[r] = v
      /\ \A l \in Leaves \ {r} : disk'[l] = disk[l]
  BY <1>2 DEF CaseInv, CaseTyped, Leaves, Responses
<1>4. /\ disk'["manifest"] = disk["manifest"] /\ disk'["bundle"] = disk["bundle"]
      /\ disk'["report"] = disk["report"] /\ disk'["receipt"] = disk["receipt"]
  BY <1>3 DEF Leaves, Responses, Artifacts
<1>5. \A x \in Responses : disk'[x] \in Given \cup {NoLeaf} /\ (x # r => disk'[x] = disk[x])
  BY <1>3 DEF CaseInv, CaseTyped, Leaves
<1>6. stamp' \in [Responses -> Nat] /\ \A x \in Responses : stamp'[x] <= edits'
                                        /\ (x # r => stamp'[x] = stamp[x])
                                        /\ (mode = "session" /\ x = r => stamp'[x] = edits + 1)
  BY <1>1 DEF CaseInv, CaseTyped
<1>7. CaseTyped'
  BY <1>1, <1>3, <1>4, <1>5, <1>6 DEF CaseInv, CaseTyped
<1>8. ASSUME NEW c \in Processes
      PROVE  ProcOK(c)'
  <2>1. ProcOK(c)
    BY DEF CaseInv
  <2>2. TookOK(proc[c])' /\ ConsumeOK(proc[c])'
    BY <1>1, <2>1 DEF ProcOK, TookOK, ConsumeOK
  <2>3. AnswersOK(proc[c])'
    <3>1. \A x \in Responses : proc[c].seen[x] \in Nat /\ proc[c].seen[x] <= edits
      BY <2>1 DEF CaseInv, CaseTyped, ProcTypes, ProcOK, AnswersOK
    <3>2. \A x \in Responses : proc[c].seen[x] <= edits'
      BY <1>1, <3>1
    <3>3. ASSUME mode = "session"
          PROVE  stamp'[r] # proc[c].seen[r]
      BY <1>1, <1>6, <3>1, <3>3
    <3>4. stood \subseteq stood'
      BY <1>1
    <3>5. mode = "session" => \A x \in Responses :
            stamp'[x] = proc[c].seen[x] => stamp[x] = proc[c].seen[x] /\ disk'[x] = disk[x]
      BY <1>5, <1>6, <3>3
    <3>6. mode = "session" /\ stamp'["legacy response"] = proc[c].seen["legacy response"] =>
            stamp["legacy response"] = proc[c].seen["legacy response"]
            /\ disk'["legacy response"] = disk["legacy response"]
      BY <3>5 DEF Responses
    <3>7. mode = "session" /\ stamp'["h1 response"] = proc[c].seen["h1 response"] =>
            stamp["h1 response"] = proc[c].seen["h1 response"]
            /\ disk'["h1 response"] = disk["h1 response"]
      BY <3>5 DEF Responses
    <3>8. AnswersOK(proc[c])
      BY <2>1 DEF ProcOK
    <3> QED
      BY <1>1, <3>2, <3>4, <3>6, <3>7, <3>8 DEF AnswersOK
  <2>4. WroteOK(c)'
    BY <1>1, <1>4, <2>1 DEF ProcOK, WroteOK, Bundle, Report
  <2> QED
    BY <2>2, <2>3, <2>4 DEF ProcOK
<1>9. OneSeals' /\ OneManifests' /\ PreparedOnce' /\ Sealed'
  BY <1>1, <1>4 DEF CaseInv, OneSeals, OneManifests, PreparedOnce, Sealed, Whole
<1>10. PairStood'
  BY <1>1 DEF PairStood
<1>11. CaseSound'
  BY <1>1, <1>4 DEF CaseInv, CaseSound, ReceiptSealsCase, BoundAsPrepared, AnswersStoodTogether, Whole
<1> QED
  BY <1>7, <1>8, <1>9, <1>10, <1>11 DEF CaseInv

-----------------------------------------------------------------------------
\* The commands.  First those of their steps that only read.

-----------------------------------------------------------------------------
\* The commands.  First those of their steps that only read.

\* A preparation reads the next live source.
LEMMA Takes ==
  ASSUME CaseInv, NEW c \in Processes, NEW s \in Sources, Take(c, s)
  PROVE  CaseInv'
<1> DEFINE p == [proc[c] EXCEPT !.took[s] = live[s]]
<1>1. /\ proc[c] \in ProcTypes /\ TookOK(proc[c]) /\ AnswersOK(proc[c])
      /\ live \in Manifests /\ mode \in {"case", "session"}
  BY DEF CaseInv, CaseTyped, ProcOK
<1>2. /\ p \in ProcTypes /\ p.seen = proc[c].seen /\ p.took[s] \in Versions
      /\ p.took \in [Sources -> Versions \cup {NoLeaf}]
      /\ \A x \in Sources \ {s} : p.took[x] = proc[c].took[x]
  BY <1>1 DEF ProcTypes, Manifests
<1>3. \/ At(c, "take", s) \/ s = "settings"
  BY DEF Take
<1>4. PICK a \in {"take", "make root", "create"}, l \in {"portfolio", "template", "case", "h1 prompt"} :
        /\ Become(c, To(p, a, l))
        /\ a = "take" /\ l = "portfolio" => s = "settings"
        /\ a = "take" /\ l = "template" => s = "portfolio"
        /\ a = "take" => l \in {"portfolio", "template"}
        /\ a \in {"make root", "create"} => s = "template" /\ l \in {"case", "h1 prompt"}
  <2> HIDE DEF p
  <2>1. Become(c, CASE s = "settings" -> To(p, "take", "portfolio")
                    [] s = "portfolio" -> To(p, "take", "template")
                    [] s = "template" -> IF mode = "case" THEN To(p, "make root", "case")
                                         ELSE To(p, "create", "h1 prompt"))
    BY DEF Take, p
  <2>2. CASE s = "settings"
    BY <2>1, <2>2
  <2>3. CASE s = "portfolio"
    BY <2>1, <2>3
  <2>4. CASE s = "template"
    BY <2>1, <2>4
  <2> QED
    BY <2>2, <2>3, <2>4 DEF Sources
<1> DEFINE q == To(p, a, l)
<1>5. a \in CaseSteps /\ l \in Places
  BY DEF CaseSteps, Holding, Leaves, Sources, Places
<1> HIDE DEF p
<1>6. q \in ProcTypes /\ q.at = a /\ q.on = l /\ q.took = p.took /\ q.seen = p.seen
  <2>1. p \in ProcTypes
    BY <1>2
  <2> QED
    BY <1>5, <2>1, Goes
<1> HIDE DEF q
<1>7. TookOK(q)
  <2>1. s = "portfolio" => p.took["settings"] \in Versions
    BY <1>1, <1>2, <1>3 DEF TookOK, At, Sources
  <2>2. s = "template" => p.took \in Manifests
    BY <1>1, <1>2, <1>3 DEF TookOK, At, Sources, Manifests
  <2> QED
    BY <1>2, <1>4, <1>6, <2>1, <2>2 DEF TookOK, Holding, Responses
<1>8. ConsumeOK(q) /\ ~Seals(q) /\ ~FillsManifest(q) /\ ~Makes(q)
  BY <1>4, <1>6 DEF ConsumeOK, Consumes, Uses, Seals, Makes, FillsManifest, Artifacts
<1>9. AnswersOK(q)
  BY <1>1, <1>2, <1>4, <1>6, <1>8 DEF AnswersOK
<1> QED
  BY <1>4, <1>6, <1>7, <1>8, <1>9, Becomes DEF q

\* A consumption compares a live source with the manifest.
LEMMA Captures ==
  ASSUME CaseInv, NEW c \in Processes, NEW s \in Sources, CaptureLive(c, s)
  PROVE  CaseInv'
<1>1. proc[c] \in ProcTypes /\ ConsumeOK(proc[c]) /\ AnswersOK(proc[c])
  BY DEF CaseInv, CaseTyped, ProcOK
<1>2. PICK a \in {"live", "check"}, l \in {"portfolio", "settings"} :
        Become(c, To(proc[c], a, l)) /\ (a = "check" => l = "settings")
  BY DEF CaptureLive, Go
<1> DEFINE q == To(proc[c], a, l)
<1>3. a \in CaseSteps /\ l \in Places
  BY DEF CaseSteps, Leaves, Sources, Places
<1>4. q \in ProcTypes /\ q.at = a /\ q.on = l /\ q.case = proc[c].case /\ q.seen = proc[c].seen
  BY <1>1, <1>3, Goes
<1>5. Consumes(proc[c])
  BY DEF CaptureLive, At, Consumes
<1> HIDE DEF q
<1>6. ~Seals(q) /\ ~FillsManifest(q) /\ ~Makes(q) /\ TookOK(q)
  BY <1>4 DEF Seals, Makes, FillsManifest, TookOK, Holding
<1>7. ConsumeOK(q)
  BY <1>1, <1>2, <1>4, <1>5, <1>6 DEF ConsumeOK, Consumes, Uses
<1>8. AnswersOK(q)
  BY <1>1, <1>4, <1>6 DEF AnswersOK
<1> QED
  BY <1>2, <1>4, <1>6, <1>7, <1>8, Becomes DEF q

\* A consumption compares an archive with the manifest.
LEMMA ChecksArchive ==
  ASSUME CaseInv, NEW c \in Processes, NEW s \in Sources, CheckArchive(c, s)
  PROVE  CaseInv'
<1>1. proc[c] \in ProcTypes /\ ConsumeOK(proc[c]) /\ AnswersOK(proc[c])
  BY DEF CaseInv, CaseTyped, ProcOK
<1>2. PICK l \in {"portfolio", "template", "h1 prompt"} :
        /\ Become(c, [To(proc[c], "check", l) EXCEPT !.took[s] = disk[s]])
        /\ l = "portfolio" => s = "settings"
        /\ l = "template" => s = "portfolio"
        /\ l = "h1 prompt" => s = "template"
  <2>1. PICK i \in DOMAIN CheckOrder :
          /\ CheckOrder[i] = s
          /\ Become(c, [To(proc[c], "check", CheckOrder[i + 1]) EXCEPT !.took[s] = disk[s]])
    BY DEF CheckArchive, Go
  <2>2. /\ DOMAIN CheckOrder = 1..4
        /\ CheckOrder[1] = "settings" /\ CheckOrder[2] = "portfolio"
        /\ CheckOrder[3] = "template" /\ CheckOrder[4] = "h1 prompt"
    BY DEF CheckOrder
  <2>3. \/ CheckOrder[i] = "settings" /\ CheckOrder[i + 1] = "portfolio"
        \/ CheckOrder[i] = "portfolio" /\ CheckOrder[i + 1] = "template"
        \/ CheckOrder[i] = "template" /\ CheckOrder[i + 1] = "h1 prompt"
    <3>1. i \in 1..4
      BY <2>1, <2>2
    <3>2. i = 1 \/ i = 2 \/ i = 3 \/ i = 4
      BY <3>1
    <3>3. i # 4
      BY <2>1, <2>2 DEF Sources
    <3>4. CASE i = 1
      <4>1. i + 1 = 2
        BY <3>4
      <4> QED
        BY <2>2, <3>4, <4>1, Zenon
    <3>5. CASE i = 2
      <4>1. i + 1 = 3
        BY <3>5
      <4> QED
        BY <2>2, <3>5, <4>1, Zenon
    <3>6. CASE i = 3
      <4>1. i + 1 = 4
        BY <3>6
      <4> QED
        BY <2>2, <3>6, <4>1, Zenon
    <3> QED
      BY <3>2, <3>3, <3>4, <3>5, <3>6
  <2> QED
    BY <2>1, <2>3
<1>3. At(c, "check", s) /\ disk[s] = proc[c].case[s]
  BY DEF CheckArchive
<1>4. mode = "case" /\ proc[c].case \in Manifests /\ proc[c].case = manifested
  BY <1>1, <1>3 DEF ConsumeOK, Consumes, At
<1> DEFINE q == [To(proc[c], "check", l) EXCEPT !.took[s] = disk[s]]
<1>5. /\ To(proc[c], "check", l) \in ProcTypes /\ To(proc[c], "check", l).at = "check"
      /\ To(proc[c], "check", l).on = l /\ To(proc[c], "check", l).took = proc[c].took
      /\ To(proc[c], "check", l).case = proc[c].case /\ To(proc[c], "check", l).seen = proc[c].seen
  <2>1. "check" \in CaseSteps /\ l \in Places
    BY DEF CaseSteps, Leaves, Sources, Places
  <2>2. proc[c] \in ProcTypes
    BY <1>1
  <2> QED
    BY <2>1, <2>2 DEF To, ProcTypes
<1>6. /\ q \in ProcTypes /\ q.at = "check" /\ q.on = l
      /\ q.case = proc[c].case /\ q.seen = proc[c].seen
      /\ q.took[s] = proc[c].case[s] /\ \A x \in Sources \ {s} : q.took[x] = proc[c].took[x]
  <2>1. disk[s] \in Versions
    BY <1>3, <1>4 DEF Manifests
  <2> QED
    BY <1>3, <1>5, <2>1 DEF ProcTypes
<1> HIDE DEF q
<1>7. ~Seals(q) /\ ~FillsManifest(q) /\ ~Makes(q) /\ TookOK(q)
  BY <1>6 DEF Seals, Makes, FillsManifest, TookOK, Holding
<1>8. ConsumeOK(q)
  <2>1. proc[c].at = "check" /\ proc[c].on = s
    BY <1>3 DEF At
  <2> QED
    BY <1>1, <1>2, <1>4, <1>6, <1>7, <2>1 DEF ConsumeOK, Consumes, Uses, Sources
<1>9. AnswersOK(q)
  BY <1>1, <1>6, <1>7 DEF AnswersOK
<1> QED
  BY <1>2, <1>6, <1>7, <1>8, <1>9, Becomes DEF q

\* A consumption begins, reads the manifest, checks the prompt, and is ready to build.
LEMMA ReadsCase ==
  ASSUME CaseInv, NEW c \in Processes, Preflight(c) \/ ReadManifest(c) \/ CheckPrompt(c) \/ Build(c)
  PROVE  CaseInv'
<1>1. /\ proc[c] \in ProcTypes /\ TookOK(proc[c]) /\ ConsumeOK(proc[c]) /\ AnswersOK(proc[c])
      /\ mode \in {"case", "session"}
  BY DEF CaseInv, CaseTyped, ProcOK
<1>2. CASE Preflight(c)
  <2> DEFINE q == To(proc[c], "manifest", "case")
  <2>1. q \in ProcTypes /\ q.at = "manifest" /\ q.seen = proc[c].seen
    BY <1>1, Goes DEF CaseSteps, Places
  <2>2. Become(c, q) /\ mode = "case"
    BY <1>2 DEF Preflight, Go
  <2> HIDE DEF q
  <2>3. TookOK(q) /\ ConsumeOK(q) /\ AnswersOK(q) /\ ~Seals(q) /\ ~FillsManifest(q)
    BY <1>1, <2>1, <2>2
       DEF TookOK, ConsumeOK, AnswersOK, Seals, Makes, FillsManifest, Consumes, Uses, Holding
  <2> QED
    BY <2>1, <2>2, <2>3, Becomes
<1>3. CASE ReadManifest(c)
  <2>1. PICK first \in {"live", "check"} :
          Become(c, [To(proc[c], first, "settings") EXCEPT !.case = disk["manifest"]])
    BY <1>3 DEF ReadManifest, Go
  <2> DEFINE q == [To(proc[c], first, "settings") EXCEPT !.case = disk["manifest"]]
  <2>2. disk["manifest"] = manifested /\ disk["manifest"] \in Manifests
    BY <1>3 DEF ReadManifest, Whole, CaseInv, CaseTyped
  <2>3. q \in ProcTypes /\ q.at = first /\ q.on = "settings" /\ q.case = manifested
        /\ q.seen = proc[c].seen
    <3>1. first \in CaseSteps /\ "settings" \in Places
      BY DEF CaseSteps, Leaves, Sources, Places
    <3>2. /\ To(proc[c], first, "settings") \in ProcTypes /\ To(proc[c], first, "settings").at = first
          /\ To(proc[c], first, "settings").on = "settings"
          /\ To(proc[c], first, "settings").seen = proc[c].seen
      BY <1>1, <3>1, Goes
    <3> QED
      BY <2>2, <3>2 DEF ProcTypes
  <2>4. mode = "case"
    BY <1>1, <1>3 DEF ReadManifest, ConsumeOK
  <2> HIDE DEF q
  <2>5. TookOK(q) /\ ConsumeOK(q) /\ AnswersOK(q) /\ ~Seals(q) /\ ~FillsManifest(q)
    BY <1>1, <2>2, <2>3, <2>4
       DEF TookOK, ConsumeOK, AnswersOK, Seals, Makes, FillsManifest, Consumes, Uses, Holding
  <2> QED
    BY <2>1, <2>3, <2>5, Becomes DEF q
<1>4. CASE CheckPrompt(c)
  <2> DEFINE q == To(proc[c], "read", "h1 response")
  <2>1. q \in ProcTypes /\ q.at = "read" /\ q.on = "h1 response" /\ q.seen = proc[c].seen
        /\ q.took = proc[c].took /\ q.case = proc[c].case
    <3>1. "read" \in CaseSteps /\ "h1 response" \in Places
      BY DEF CaseSteps, Holding, Leaves, Responses, Places
    <3> QED
      <4>1. proc[c] \in ProcTypes
        BY <1>1
      <4>2. \A a \in CaseSteps, l \in Places :
              /\ To(proc[c], a, l) \in ProcTypes /\ To(proc[c], a, l).at = a /\ To(proc[c], a, l).on = l
              /\ To(proc[c], a, l).took = proc[c].took /\ To(proc[c], a, l).case = proc[c].case
              /\ To(proc[c], a, l).answer = proc[c].answer /\ To(proc[c], a, l).seen = proc[c].seen
        BY <4>1, Goes
      <4> QED
        BY <3>1, <4>2
  <2>2. Become(c, q) /\ proc[c].at = "check" /\ proc[c].on = "h1 prompt"
    BY <1>4 DEF CheckPrompt, Go, At
  <2>3. mode = "case" /\ proc[c].case \in Manifests /\ proc[c].case = manifested
    BY <1>1, <2>2 DEF ConsumeOK, Consumes
  <2>4. proc[c].took = proc[c].case
    <3>1. \A s \in Sources : proc[c].took[s] = proc[c].case[s]
      BY <1>1, <2>2 DEF ConsumeOK, Sources
    <3>2. proc[c].took \in [Sources -> Versions \cup {NoLeaf}] /\ proc[c].case \in [Sources -> Versions]
      BY <1>1, <2>3 DEF ProcTypes, Manifests
    <3> QED
      BY <3>1, <3>2
  <2> HIDE DEF q
  <2>5. TookOK(q) /\ ConsumeOK(q) /\ AnswersOK(q) /\ ~Seals(q) /\ ~FillsManifest(q)
    BY <1>1, <2>1, <2>3, <2>4
       DEF TookOK, ConsumeOK, AnswersOK, Seals, Makes, FillsManifest, Consumes, Uses, Holding
  <2> QED
    BY <2>1, <2>2, <2>5, Becomes
<1>5. CASE Build(c)
  <2> DEFINE q == To(proc[c], "create", "bundle")
  <2>1. q \in ProcTypes /\ q.at = "create" /\ q.on = "bundle" /\ q.seen = proc[c].seen
        /\ q.took = proc[c].took /\ q.case = proc[c].case /\ q.answer = proc[c].answer
    <3>1. "create" \in CaseSteps /\ "bundle" \in Places
      BY DEF CaseSteps, Holding, Leaves, Artifacts, Places
    <3> QED
      BY <1>1, <3>1, Goes
  <2>2. Become(c, q) /\ proc[c].at = "build" /\ proc[c].answer["h1 response"] # Junk
    BY <1>5 DEF Build, Go, NoJunk, Responses
  <2>3. proc[c].answer["h1 response"] \in Replies
    BY <1>1, <2>2 DEF AnswersOK, ProcTypes, Responses, Given
  <2> HIDE DEF q
  <2>4. TookOK(q) /\ ConsumeOK(q) /\ ~Seals(q) /\ ~FillsManifest(q)
    BY <1>1, <2>1, <2>2
       DEF TookOK, ConsumeOK, Seals, Makes, FillsManifest, Consumes, Uses, Holding, Responses
  <2>5. AnswersOK(q)
    BY <1>1, <2>1, <2>2, <2>3 DEF AnswersOK, Makes
  <2> QED
    BY <2>1, <2>2, <2>4, <2>5, Becomes
<1> QED
  BY <1>2, <1>3, <1>4, <1>5

\* The answers are opened, read and compared with what they were.
LEMMA ReadsReplies ==
  ASSUME CaseInv, NEW c \in Processes, NEW r \in Responses, Open(c, r) \/ Read(c, r) \/ Stat(c, r)
  PROVE  CaseInv'
<1>1. /\ proc[c] \in ProcTypes /\ TookOK(proc[c]) /\ ConsumeOK(proc[c]) /\ AnswersOK(proc[c])
      /\ mode \in {"case", "session"} /\ edits \in Nat /\ stamp \in [Responses -> Nat]
      /\ \A x \in Responses : stamp[x] <= edits /\ disk[x] \in Given \cup {NoLeaf}
  BY DEF CaseInv, CaseTyped, ProcOK
<1>0. /\ {"open", "read", "stat", "build"} \subseteq CaseSteps
      /\ Responses \cup {"case"} \subseteq Places
      /\ r = "h1 response" \/ r = "legacy response"
  BY DEF CaseSteps, Holding, Leaves, Responses, Places
<1>2. CASE Open(c, r)
  <2> DEFINE p == [proc[c] EXCEPT !.seen[r] = stamp[r]]
  <2>1. /\ p \in ProcTypes /\ p.took = proc[c].took /\ p.case = proc[c].case
        /\ \A x \in Responses : p.seen[x] <= edits
    BY <1>1 DEF ProcTypes, AnswersOK
  <2> HIDE DEF p
  <2>2. PICK a \in {"open", "read"}, l \in Responses :
          Become(c, To(p, a, l)) /\ (a = "read" => l = "h1 response")
    <3>1. Become(c, IF r = "h1 response" THEN To(p, "open", "legacy response")
                    ELSE To(p, "read", "h1 response"))
      BY <1>2 DEF Open, p
    <3> QED
      BY <3>1 DEF Responses
  <2> DEFINE q == To(p, a, l)
  <2>3. q \in ProcTypes /\ q.at = a /\ q.on = l /\ q.took = p.took /\ q.case = p.case /\ q.seen = p.seen
    <3>1. a \in CaseSteps /\ l \in Places
      BY <1>0
    <3> QED
      BY <2>1, <3>1, Goes
  <2>4. proc[c].at = "open"
    BY <1>2 DEF Open, At
  <2>8. mode = "session"
    BY <1>1, <2>4 DEF AnswersOK
  <2> HIDE DEF q
  <2>5. ~Seals(q) /\ ~FillsManifest(q) /\ ~Makes(q) /\ TookOK(q)
    BY <1>1, <2>1, <2>3, <2>4 DEF Seals, Makes, FillsManifest, TookOK, Holding
  <2>6. ConsumeOK(q)
    BY <2>2, <2>3, <2>5, <2>8 DEF ConsumeOK, Consumes
  <2>7. AnswersOK(q)
    BY <2>1, <2>2, <2>3, <2>5, <2>8 DEF AnswersOK
  <2> QED
    BY <2>2, <2>3, <2>5, <2>6, <2>7, Becomes DEF q
<1>3. CASE Read(c, r)
  <2> DEFINE p == [proc[c] EXCEPT !.answer[r] = disk[r]]
  <2>1. /\ p \in ProcTypes /\ p.took = proc[c].took /\ p.case = proc[c].case /\ p.seen = proc[c].seen
        /\ p.answer[r] = disk[r] /\ \A x \in Responses \ {r} : p.answer[x] = proc[c].answer[x]
    BY <1>1 DEF ProcTypes
  <2> HIDE DEF p
  <2>2. Become(c, IF r = "h1 response" THEN To(p, "read", "legacy response")
                  ELSE IF mode = "session" THEN To(p, "stat", "h1 response") ELSE To(p, "build", "case"))
    BY <1>3 DEF Read, p
  <2>3. PICK a \in {"read", "stat", "build"}, l \in {"legacy response", "h1 response", "case"} :
          /\ Become(c, To(p, a, l))
          /\ a = "read" => r = "h1 response" /\ l = "legacy response"
          /\ a = "stat" => r = "legacy response" /\ mode = "session" /\ l = "h1 response"
          /\ a = "build" => r = "legacy response" /\ mode = "case" /\ l = "case"
    <3>1. CASE r = "h1 response"
      BY <2>2, <3>1
    <3>2. CASE r = "legacy response" /\ mode = "session"
      BY <2>2, <3>2
    <3>3. CASE r = "legacy response" /\ mode = "case"
      BY <2>2, <3>3
    <3> QED
      BY <1>0, <1>1, <3>1, <3>2, <3>3
  <2> DEFINE q == To(p, a, l)
  <2>4. /\ q \in ProcTypes /\ q.at = a /\ q.on = l /\ q.took = p.took /\ q.case = p.case
        /\ q.answer = p.answer /\ q.seen = p.seen
    <3>1. a \in CaseSteps /\ l \in Places
      BY <1>0 DEF Responses
    <3> QED
      BY <2>1, <3>1, Goes
  <2>5. proc[c].at = "read" /\ proc[c].on = r /\ disk[r] # NoLeaf
    BY <1>3 DEF Read, At
  <2> HIDE DEF q
  <2>6. ~Seals(q) /\ ~FillsManifest(q) /\ ~Makes(q) /\ TookOK(q)
    BY <1>1, <2>1, <2>4, <2>5 DEF Seals, Makes, FillsManifest, TookOK, Holding
  <2>7. ConsumeOK(q)
    BY <1>1, <2>1, <2>3, <2>4, <2>5, <2>6 DEF ConsumeOK, Consumes, Uses
  <2>8. AnswersOK(q)
    <3>1. p.answer["h1 response"] # NoLeaf
      BY <1>0, <1>1, <2>1, <2>5 DEF AnswersOK, Responses
    <3>2. mode = "session" =>
            (stamp["h1 response"] = p.seen["h1 response"] => p.answer["h1 response"] = disk["h1 response"])
      BY <1>0, <1>1, <2>1, <2>5 DEF AnswersOK, Responses
    <3>3. r = "legacy response" => p.answer["legacy response"] = disk["legacy response"]
      BY <2>1
    <3>4. \A x \in Responses : q.seen[x] <= edits
      BY <1>1, <2>1, <2>4 DEF AnswersOK
    <3> QED
      BY <2>1, <2>3, <2>4, <2>6, <3>1, <3>2, <3>3, <3>4 DEF AnswersOK
  <2> QED
    BY <2>3, <2>4, <2>6, <2>7, <2>8, Becomes DEF q
<1>4. CASE Stat(c, r)
  <2>1. PICK a \in {"stat", "build"}, l \in {"legacy response", "case"} :
          /\ Become(c, To(proc[c], a, l))
          /\ a = "stat" => r = "h1 response" /\ l = "legacy response"
          /\ a = "build" => r = "legacy response" /\ l = "case"
    BY <1>0, <1>4 DEF Stat, Go
  <2> DEFINE q == To(proc[c], a, l)
  <2>2. /\ q \in ProcTypes /\ q.at = a /\ q.on = l /\ q.took = proc[c].took /\ q.case = proc[c].case
        /\ q.answer = proc[c].answer /\ q.seen = proc[c].seen
    <3>1. a \in CaseSteps /\ l \in Places
      BY <1>0 DEF Responses
    <3>2. proc[c] \in ProcTypes
      BY <1>1
    <3> QED
      BY <3>1, <3>2 DEF To, ProcTypes
  <2>3. proc[c].at = "stat" /\ proc[c].on = r /\ stamp[r] = proc[c].seen[r] /\ mode = "session"
    BY <1>1, <1>4 DEF Stat, At, AnswersOK
  <2> HIDE DEF q
  <2>4. ~Seals(q) /\ ~FillsManifest(q) /\ ~Makes(q) /\ TookOK(q)
    BY <1>1, <2>1, <2>2, <2>3 DEF Seals, Makes, FillsManifest, TookOK, Holding
  <2>5. ConsumeOK(q)
    BY <1>1, <2>1, <2>2, <2>3, <2>4 DEF ConsumeOK, Consumes, Uses
  <2>6. ASSUME r = "h1 response", stamp["legacy response"] = proc[c].seen["legacy response"]
        PROVE  proc[c].answer \in stood
    <3>1. /\ proc[c].answer["h1 response"] = disk["h1 response"]
          /\ proc[c].answer["legacy response"] = disk["legacy response"]
          /\ proc[c].answer["h1 response"] # NoLeaf
      BY <1>1, <2>3, <2>6 DEF AnswersOK
    <3>2. proc[c].answer = [x \in Responses |-> disk[x]]
      BY <1>1, <3>1 DEF ProcTypes, Responses
    <3> QED
      BY <2>3, <3>1, <3>2 DEF CaseInv, PairStood, Responses
  <2>7. r = "legacy response" => proc[c].answer \in stood
    BY <1>1, <2>3 DEF AnswersOK
  <2>8. AnswersOK(q)
    <3>1. proc[c].answer["h1 response"] # NoLeaf /\ \A x \in Responses : q.seen[x] <= edits
      BY <1>1, <2>2, <2>3 DEF AnswersOK
    <3> QED
      BY <2>1, <2>2, <2>3, <2>4, <2>6, <2>7, <3>1 DEF AnswersOK
  <2> QED
    BY <2>1, <2>2, <2>4, <2>5, <2>8, Becomes DEF q
<1> QED
  BY <1>2, <1>3, <1>4

-----------------------------------------------------------------------------
\* The steps that write.

Prompts == {"h1 prompt", "legacy prompt"}

\* What a preparation writes, in order.
LEMMA PreparedLeaves ==
  /\ \A i \in DOMAIN PreparedOrder :
       /\ PreparedOrder[i] \in Sources \cup Prompts
       /\ i < Len(PreparedOrder) => PreparedOrder[i + 1] \in Sources \cup Prompts
<1>1. /\ DOMAIN PreparedOrder = 1..5 /\ Len(PreparedOrder) = 5
      /\ PreparedOrder[1] = "settings" /\ PreparedOrder[2] = "portfolio" /\ PreparedOrder[3] = "template"
      /\ PreparedOrder[4] = "h1 prompt" /\ PreparedOrder[5] = "legacy prompt"
  BY DEF PreparedOrder
<1>2. \A k \in 1..5 : PreparedOrder[k] \in Sources \cup Prompts
  <2> SUFFICES ASSUME NEW k \in 1..5 PROVE PreparedOrder[k] \in Sources \cup Prompts
    OBVIOUS
  <2>1. k = 1 \/ k = 2 \/ k = 3 \/ k = 4 \/ k = 5
    OBVIOUS
  <2> QED
    BY <1>1, <2>1 DEF Sources, Prompts
<1>3. \A k \in 1..5 : k < 5 => k + 1 \in 1..5
  OBVIOUS
<1> QED
  BY <1>1, <1>2, <1>3

\* A command that goes on to a leaf that is neither an answer nor an artifact.
LEMMA Onward ==
  ASSUME CaseInv, NEW c \in Processes, proc[c].at \in Holding,
         NEW a \in {"create", "fill", "verify", "open"}, NEW l \in Leaves \ Artifacts,
         a \in {"create", "fill"} => l \notin Responses,
         a = "open" => mode = "session", a = "fill" => l # "manifest"
  PROVE  /\ To(proc[c], a, l) \in ProcTypes
         /\ TookOK(To(proc[c], a, l)) /\ ConsumeOK(To(proc[c], a, l)) /\ AnswersOK(To(proc[c], a, l))
         /\ ~Seals(To(proc[c], a, l)) /\ ~FillsManifest(To(proc[c], a, l))
<1>1. proc[c] \in ProcTypes /\ TookOK(proc[c]) /\ AnswersOK(proc[c])
  BY DEF CaseInv, CaseTyped, ProcOK
<1> DEFINE q == To(proc[c], a, l)
<1>2. a \in CaseSteps /\ l \in Places
  BY DEF CaseSteps, Holding, Places
<1>3. q \in ProcTypes /\ q.at = a /\ q.on = l /\ q.took = proc[c].took /\ q.seen = proc[c].seen
  BY <1>1, <1>2, Goes
<1> HIDE DEF q
<1>4. ~Makes(q) /\ ~Seals(q) /\ ~FillsManifest(q)
  BY <1>3 DEF Makes, Seals, FillsManifest
<1>5. TookOK(q)
  BY <1>1, <1>3 DEF TookOK, Holding
<1>6. ConsumeOK(q)
  BY <1>3, <1>4 DEF ConsumeOK, Consumes, Uses
<1>7. AnswersOK(q)
  BY <1>1, <1>3, <1>4 DEF AnswersOK
<1> QED
  BY <1>3, <1>4, <1>5, <1>6, <1>7 DEF q

\* A command that has ended holds nothing.
LEMMA RestingOK ==
  ASSUME CaseInv
  PROVE  /\ Resting \in ProcTypes /\ TookOK(Resting) /\ ConsumeOK(Resting) /\ AnswersOK(Resting)
         /\ ~Seals(Resting) /\ ~FillsManifest(Resting)
<1>1. Resting \in ProcTypes
  BY DEF Resting, ProcTypes, CaseSteps, Places
<1>2. /\ Resting.at = "idle" /\ \A r \in Responses : Resting.seen[r] = 0
  BY DEF Resting
<1>3. edits \in Nat
  BY DEF CaseInv, CaseTyped
<1> HIDE DEF Resting
<1>4. ~Makes(Resting) /\ ~Seals(Resting) /\ ~FillsManifest(Resting)
  BY <1>2 DEF Makes, Seals, FillsManifest
<1>5. \A r \in Responses : Resting.seen[r] <= edits
  BY <1>2, <1>3
<1> QED
  BY <1>1, <1>2, <1>4, <1>5 DEF TookOK, ConsumeOK, AnswersOK, Consumes, Uses, Holding

\* A command that writes nothing but sources and prompts.
LEMMA Writes ==
  ASSUME CaseInv, NEW c \in Processes, NEW q \in ProcTypes,
         proc' = [proc EXCEPT ![c] = q],
         UNCHANGED <<mode, live, stamp, edits, manifested, stood>>,
         disk' = disk \/ \E l \in Sources \cup Prompts : \E x : disk' = [disk EXCEPT ![l] = x],
         TookOK(q), ConsumeOK(q), AnswersOK(q), ~Seals(q), ~FillsManifest(q)
  PROVE  CaseInv'
<1>1. /\ UNCHANGED <<mode, live, stamp, edits, manifested, stood>>
      /\ proc' \in [Processes -> ProcTypes] /\ proc'[c] = q
      /\ \A d \in Processes \ {c} : proc'[d] = proc[d]
  BY DEF CaseInv, CaseTyped
<1>2. ProcOK(c)'
  <2>1. TookOK(q)' /\ ConsumeOK(q)'
    BY <1>1 DEF TookOK, ConsumeOK
  <2>2. AnswersOK(q)'
    <3>1. disk'["h1 response"] = disk["h1 response"] /\ disk'["legacy response"] = disk["legacy response"]
      BY DEF CaseInv, CaseTyped, Sources, Prompts, Leaves, Responses
    <3> QED
      BY <1>1, <3>1 DEF AnswersOK
  <2>3. WroteOK(c)'
    BY <1>1 DEF WroteOK, AfterBundle, AfterReport, Seals
  <2> QED
    BY <1>1, <2>1, <2>2, <2>3 DEF ProcOK
<1>3. live' \in Manifests /\ edits' \in Nat /\ edits <= edits' /\ disk = [l \in Leaves |-> disk[l]]
  BY <1>1 DEF CaseInv, CaseTyped
<1>4. {c} \in SUBSET Processes /\ UNCHANGED <<mode, stamp, manifested, stood>>
  BY <1>1
<1>5. /\ disk' = [l \in Leaves |-> disk'[l]]
      /\ \A l \in Responses \cup Artifacts \cup {"manifest"} : disk'[l] = disk[l]
  <2>1. CASE disk' = disk
    BY <1>3, <2>1
  <2>2. CASE \E l \in Sources \cup Prompts : \E x : disk' = [disk EXCEPT ![l] = x]
    BY <1>3, <2>2 DEF Sources, Prompts, Responses, Artifacts, Leaves
  <2> QED
    BY <2>1, <2>2
<1>6. \A d \in {c} : ProcOK(d)' /\ ~FillsManifest(proc'[d]) /\ (Seals(proc'[d]) => Seals(proc[d]))
  BY <1>1, <1>2
<1>7. proc' \in [Processes -> ProcTypes] /\ \A d \in Processes \ {c} : proc'[d] = proc[d]
  BY <1>1
<1> QED
  BY <1>3, <1>4, <1>5, <1>6, <1>7, Frame, Zenon

\* A preparation up to its manifest, and every way a command ends.
LEMMA Prepares ==
  ASSUME CaseInv, NEW c \in Processes,
         \/ MakeRoot(c) \/ FillPrepared(c) \/ Verify(c) \/ ExposeH1(c) \/ ExposeLegacy(c)
         \/ Withdraw(c) \/ Stop(c) \/ \E l \in Sources \cup Prompts : Create(c, l)
  PROVE  CaseInv'
<1>0. /\ Sources \cup Prompts \cup {"manifest"} \subseteq Leaves \ (Artifacts \cup Responses)
      /\ "manifest" \notin Sources \cup Prompts /\ "h1 response" \in Leaves \ Artifacts
  BY DEF Sources, Prompts, Leaves, Artifacts, Responses
<1>1. ASSUME proc[c].at \in Holding, NEW a \in {"create", "fill", "verify", "open"},
             NEW l \in Leaves \ Artifacts, a \in {"create", "fill"} => l \notin Responses,
             a = "open" => mode = "session", a = "fill" => l # "manifest",
             proc' = [proc EXCEPT ![c] = Go(c, a, l)],
             UNCHANGED <<mode, live, stamp, edits, manifested, stood>>,
             disk' = disk \/ \E k \in Sources \cup Prompts : \E x : disk' = [disk EXCEPT ![k] = x]
      PROVE  CaseInv'
  BY <1>1, Onward, Writes DEF Go
<1>2. CASE MakeRoot(c)
  BY <1>0, <1>1, <1>2 DEF MakeRoot, Holding, Sources
<1>3. CASE FillPrepared(c)
  <2>1. PICK i \in DOMAIN PreparedOrder :
          Fill(c, PreparedOrder[i], PreparedContent(c, PreparedOrder[i]),
               IF i < Len(PreparedOrder) THEN Go(c, "create", PreparedOrder[i + 1])
               ELSE Go(c, "verify", "settings"))
    BY <1>3 DEF FillPrepared
  <2>2. /\ proc[c].at \in Holding /\ UNCHANGED <<mode, live, stamp, edits, manifested, stood>>
        /\ disk' = [disk EXCEPT ![PreparedOrder[i]] = PreparedContent(c, PreparedOrder[i])]
        /\ PreparedOrder[i] \in Sources \cup Prompts
    BY <1>3, <2>1, PreparedLeaves DEF FillPrepared, Fill, At, Holding
  <2>3. CASE i < Len(PreparedOrder)
    <3>1. proc' = [proc EXCEPT ![c] = Go(c, "create", PreparedOrder[i + 1])]
      BY <2>1, <2>3 DEF Fill
    <3>2. PreparedOrder[i + 1] \in Leaves \ Artifacts /\ PreparedOrder[i + 1] \notin Responses
      BY <1>0, <2>3, PreparedLeaves
    <3> QED
      BY <1>1, <2>2, <3>1, <3>2
  <2>4. CASE ~(i < Len(PreparedOrder))
    <3>1. proc' = [proc EXCEPT ![c] = Go(c, "verify", "settings")]
      BY <2>1, <2>4 DEF Fill
    <3>2. "settings" \in Leaves \ Artifacts
      BY <1>0 DEF Sources
    <3> QED
      BY <1>1, <2>2, <3>1, <3>2
  <2> QED
    BY <2>3, <2>4
<1>4. CASE Verify(c)
  <2>1. PICK i \in DOMAIN PreparedOrder :
          /\ At(c, "verify", PreparedOrder[i])
          /\ IF i < Len(PreparedOrder) THEN Become(c, Go(c, "verify", PreparedOrder[i + 1]))
             ELSE Become(c, Go(c, "create", "manifest"))
    BY <1>4 DEF Verify
  <2>2. proc[c].at \in Holding
    BY <2>1 DEF At, Holding
  <2>3. CASE i < Len(PreparedOrder)
    <3>1. PreparedOrder[i + 1] \in Leaves \ Artifacts
      BY <1>0, <2>3, PreparedLeaves
    <3>2. Become(c, Go(c, "verify", PreparedOrder[i + 1]))
      BY <2>1, <2>3
    <3> QED
      BY <1>1, <2>2, <3>1, <3>2 DEF Become
  <2>4. CASE ~(i < Len(PreparedOrder))
    <3>1. Become(c, Go(c, "create", "manifest"))
      BY <2>1, <2>4
    <3> QED
      BY <1>0, <1>1, <2>2, <3>1 DEF Become
  <2> QED
    BY <2>3, <2>4
<1>5. CASE ExposeH1(c)
  <2>1. /\ proc[c].at \in Holding /\ UNCHANGED <<mode, live, stamp, edits, manifested, stood>>
        /\ disk' = [disk EXCEPT !["h1 prompt"] = H1Prompt(proc[c].took)]
        /\ proc' = [proc EXCEPT ![c] = Go(c, "create", "legacy prompt")]
    BY <1>5 DEF ExposeH1, Fill, At, Holding
  <2> QED
    BY <1>0, <1>1, <2>1 DEF Prompts
<1>6. CASE ExposeLegacy(c)
  <2>1. /\ proc[c].at \in Holding /\ UNCHANGED <<mode, live, stamp, edits, manifested, stood>>
        /\ disk' = [disk EXCEPT !["legacy prompt"] = LegacyPrompt(proc[c].took)]
        /\ proc' = [proc EXCEPT ![c] = Go(c, "open", "h1 response")] /\ mode = "session"
    BY <1>6 DEF ExposeLegacy, Fill, At, Holding
  <2> QED
    BY <1>0, <1>1, <2>1 DEF Prompts
<1>7. CASE Withdraw(c) \/ Stop(c)
  <2>1. /\ proc' = [proc EXCEPT ![c] = Resting]
        /\ UNCHANGED <<mode, live, stamp, edits, manifested, stood>>
        /\ disk' = disk \/ \E l \in Sources \cup Prompts : \E x : disk' = [disk EXCEPT ![l] = x]
    BY <1>7 DEF Withdraw, Stop, Prompts
  <2> QED
    BY <2>1, RestingOK, Writes
<1>8. CASE \E l \in Sources \cup Prompts : Create(c, l)
  <2>1. PICK l \in Sources \cup Prompts : Create(c, l)
    BY <1>8
  <2>2. /\ proc[c].at \in Holding /\ UNCHANGED <<mode, live, stamp, edits, manifested, stood>>
        /\ disk' = [disk EXCEPT ![l] = Unfilled] /\ proc' = [proc EXCEPT ![c] = Go(c, "fill", l)]
    BY <2>1 DEF Create, At, Holding
  <2> QED
    BY <1>0, <1>1, <2>2
<1> QED
  BY <1>2, <1>3, <1>4, <1>5, <1>6, <1>7, <1>8

-----------------------------------------------------------------------------
\* The steps that write the manifest or an artifact: what each command holds
\* stays true of it.
LEMMA Commits ==
  ASSUME CaseInv, NEW c \in Processes, NEW q \in ProcTypes,
         NEW l \in Artifacts \cup {"manifest"}, NEW x,
         disk' = [disk EXCEPT ![l] = x], proc' = [proc EXCEPT ![c] = q],
         UNCHANGED <<mode, live, stamp, edits, stood>>,
         l = "manifest" => x \in Manifests \cup {Unfilled},
         manifested' \in Manifests \cup {NoLeaf},
         manifested' = manifested \/ manifested = NoLeaf,
         TookOK(q), ConsumeOK(q)', AnswersOK(q)
  PROVE  /\ CaseTyped' /\ PairStood'
         /\ \A d \in Processes : TookOK(proc[d])' /\ ConsumeOK(proc[d])' /\ AnswersOK(proc[d])'
         /\ proc'[c] = q /\ \A d \in Processes \ {c} : proc'[d] = proc[d]
         /\ disk'[l] = x /\ \A k \in (Artifacts \cup {"manifest"}) \ {l} : disk'[k] = disk[k]
<1>1. /\ disk = [k \in Leaves |-> disk[k]] /\ proc \in [Processes -> ProcTypes]
      /\ l \in Leaves \ Responses
      /\ Artifacts \cup {"manifest"} \subseteq Leaves /\ Responses \subseteq Leaves
  BY DEF CaseInv, CaseTyped, Artifacts, Responses, Leaves
<1>2. /\ disk' = [k \in Leaves |-> disk'[k]] /\ disk'[l] = x
      /\ \A k \in Leaves \ {l} : disk'[k] = disk[k]
  BY <1>1
<1>3. \A r \in Responses : disk'[r] = disk[r]
  BY <1>1, <1>2
<1>4. /\ proc' \in [Processes -> ProcTypes] /\ proc'[c] = q
      /\ \A d \in Processes \ {c} : proc'[d] = proc[d]
  BY <1>1
<1>5. disk'["manifest"] \in Manifests \cup {NoLeaf, Unfilled}
  BY <1>1, <1>2 DEF CaseInv, CaseTyped
<1>6. CaseTyped'
  <2>1. \A r \in Responses : disk'[r] \in Given \cup {NoLeaf}
    BY <1>3 DEF CaseInv, CaseTyped
  <2> QED
    BY <1>2, <1>4, <1>5, <2>1 DEF CaseInv, CaseTyped
<1>7. PairStood'
  <2>1. [r \in Responses |-> disk[r]]' = [r \in Responses |-> disk[r]]
    BY <1>3
  <2> QED
    BY <1>3, <2>1 DEF CaseInv, PairStood
<1>a. ASSUME NEW p, TookOK(p), AnswersOK(p)
      PROVE  TookOK(p)' /\ AnswersOK(p)'
  BY <1>3, <1>a DEF TookOK, AnswersOK, Responses
<1>8. ASSUME NEW d \in Processes
      PROVE  TookOK(proc[d])' /\ ConsumeOK(proc[d])' /\ AnswersOK(proc[d])'
  <2>1. CASE d = c
    <3>1. TookOK(q)' /\ AnswersOK(q)'
      BY <1>a
    <3> QED
      BY <1>4, <2>1, <3>1
  <2>2. CASE d # c
    <3>1. proc'[d] = proc[d] /\ TookOK(proc[d]) /\ ConsumeOK(proc[d]) /\ AnswersOK(proc[d])
      BY <1>4, <2>2 DEF CaseInv, ProcOK
    <3>2. TookOK(proc[d])' /\ AnswersOK(proc[d])'
      BY <1>a, <3>1
    <3>3. Consumes(proc[d]) \/ (mode = "case" /\ Uses(proc[d])) => manifested' = manifested
      BY <3>1, LeafAssumption DEF ConsumeOK, Manifests
    <3>4. ConsumeOK(proc[d])'
      BY <3>1, <3>3 DEF ConsumeOK
    <3> QED
      BY <3>2, <3>4
  <2> QED
    BY <2>1, <2>2
<1> QED
  BY <1>1, <1>2, <1>4, <1>6, <1>7, <1>8

\* A command whose every part is in order is in order.
LEMMA InOrder ==
  ASSUME \A d \in Processes : TookOK(proc[d])' /\ ConsumeOK(proc[d])' /\ AnswersOK(proc[d])',
         \A d \in Processes : WroteOK(d)'
  PROVE  \A d \in Processes : ProcOK(d)'
  BY DEF ProcOK

\* The manifest is created once, before the case is prepared.
LEMMA CreatesManifest ==
  ASSUME CaseInv, NEW c \in Processes, Create(c, "manifest")
  PROVE  CaseInv'
<1>0. PICK q : q = To(proc[c], "fill", "manifest")
  OBVIOUS
<1>1. /\ proc[c] \in ProcTypes /\ TookOK(proc[c]) /\ AnswersOK(proc[c])
      /\ proc[c].at = "create" /\ proc[c].on = "manifest"
      /\ disk["manifest"] = NoLeaf /\ disk' = [disk EXCEPT !["manifest"] = Unfilled]
      /\ proc' = [proc EXCEPT ![c] = q]
      /\ UNCHANGED <<mode, live, stamp, edits, stood, manifested>>
  BY <1>0 DEF Create, At, Go, CaseInv, CaseTyped, ProcOK
<1>2. /\ q \in ProcTypes /\ q.at = "fill" /\ q.on = "manifest"
      /\ q.took = proc[c].took /\ q.seen = proc[c].seen
  <2>1. "fill" \in CaseSteps /\ "manifest" \in Places
    BY DEF CaseSteps, Holding, Leaves, Places
  <2> QED
    BY <1>0, <1>1, <2>1, Goes
<1>3. manifested = NoLeaf
  BY <1>1 DEF CaseInv, PreparedOnce
<1>4. ~Makes(q) /\ ~Seals(q) /\ ~Seals(proc[c])
  BY <1>1, <1>2 DEF Makes, Seals, Artifacts
<1>5. TookOK(q) /\ ConsumeOK(q)' /\ AnswersOK(q)
  <2>1. TookOK(q)
    BY <1>1, <1>2 DEF TookOK, Holding, Responses
  <2>2. ConsumeOK(q)'
    BY <1>2, <1>4 DEF ConsumeOK, Consumes, Uses
  <2>3. AnswersOK(q)
    BY <1>1, <1>2, <1>4 DEF AnswersOK
  <2> QED
    BY <2>1, <2>2, <2>3
<1>6. /\ CaseTyped' /\ PairStood'
      /\ \A d \in Processes : TookOK(proc[d])' /\ ConsumeOK(proc[d])' /\ AnswersOK(proc[d])'
      /\ proc'[c] = q /\ \A d \in Processes \ {c} : proc'[d] = proc[d]
      /\ disk'["manifest"] = Unfilled
      /\ \A k \in (Artifacts \cup {"manifest"}) \ {"manifest"} : disk'[k] = disk[k]
  <2>1. manifested' \in Manifests \cup {NoLeaf} /\ manifested' = manifested
    BY <1>1, <1>3
  <2>2. /\ disk' = [disk EXCEPT !["manifest"] = Unfilled] /\ proc' = [proc EXCEPT ![c] = q]
        /\ UNCHANGED <<mode, live, stamp, edits, stood>>
        /\ q \in ProcTypes /\ "manifest" \in Artifacts \cup {"manifest"}
        /\ Unfilled \in Manifests \cup {Unfilled}
    BY <1>0, <1>1, <1>2
  <2>3. /\ TookOK(q) /\ ConsumeOK(q)' /\ AnswersOK(q)
        /\ "manifest" = "manifest" => Unfilled \in Manifests \cup {Unfilled}
        /\ manifested' = manifested \/ manifested = NoLeaf
    BY <1>5, <2>1
  <2>4. CaseTyped' /\ PairStood'
    BY <2>1, <2>2, <2>3, Commits
  <2>5. proc'[c] = q /\ disk'["manifest"] = Unfilled
    BY <2>1, <2>2, <2>3, Commits, ZenonT(60)
  <2>6. \A d \in Processes : TookOK(proc[d])' /\ ConsumeOK(proc[d])' /\ AnswersOK(proc[d])'
    BY <2>1, <2>2, <2>3, Commits
  <2>7. /\ \A d \in Processes \ {c} : proc'[d] = proc[d]
        /\ \A k \in (Artifacts \cup {"manifest"}) \ {"manifest"} : disk'[k] = disk[k]
    BY <2>1, <2>2, <2>3, Commits
  <2> QED
    BY <2>4, <2>5, <2>6, <2>7
<1>7. /\ disk'["bundle"] = disk["bundle"] /\ disk'["report"] = disk["report"]
      /\ disk'["receipt"] = disk["receipt"]
  BY <1>6 DEF Artifacts
<1>8. \A d \in Processes : ~FillsManifest(proc[d])
  BY <1>1, LeafAssumption DEF CaseInv, ProcOK, WroteOK
<1>9. \A d \in Processes : WroteOK(d)'
  <2> SUFFICES ASSUME NEW d \in Processes PROVE WroteOK(d)'
    OBVIOUS
  <2>1. CASE d = c
    BY <1>4, <1>6, <2>1 DEF WroteOK, Seals, AfterBundle, AfterReport
  <2>2. CASE d # c
    <3>1. proc'[d] = proc[d] /\ WroteOK(d)
      BY <1>6, <2>2 DEF CaseInv, ProcOK
    <3> QED
      BY <1>6, <1>7, <3>1 DEF WroteOK, Bundle, Report
  <2> QED
    BY <2>1, <2>2
<1>10. OneSeals' /\ OneManifests'
  <2>1. \A d \in Processes : (Seals(proc'[d]) => Seals(proc[d])) /\ (FillsManifest(proc'[d]) => d = c)
    BY <1>4, <1>6, <1>8
  <2> QED
    BY <2>1 DEF CaseInv, OneSeals, OneManifests
<1>11. PreparedOnce' /\ Sealed' /\ CaseSound'
  <2>1. \A d \in Processes : Seals(proc'[d]) => Seals(proc[d])
    BY <1>4, <1>6
  <2> QED
    BY <1>1, <1>3, <1>7, <2>1
       DEF CaseInv, PreparedOnce, Sealed, CaseSound, ReceiptSealsCase, BoundAsPrepared,
           AnswersStoodTogether, Whole
<1> QED
  BY <1>6, <1>9, <1>10, <1>11, InOrder DEF CaseInv

\* Once it is filled the case is prepared, and nobody consumed it before.
LEMMA FillsTheManifest ==
  ASSUME CaseInv, NEW c \in Processes, FillManifest(c)
  PROVE  CaseInv'
<1> DEFINE x == proc[c].took
<1>1. /\ proc[c] \in ProcTypes /\ TookOK(proc[c])
      /\ proc[c].at = "fill" /\ proc[c].on = "manifest"
      /\ disk' = [disk EXCEPT !["manifest"] = x] /\ manifested' = x
      /\ proc' = [proc EXCEPT ![c] = Resting]
      /\ UNCHANGED <<mode, live, stamp, edits, stood>>
  BY DEF FillManifest, Fill, At, CaseInv, CaseTyped, ProcOK
<1>2. x \in Manifests
  BY <1>1 DEF TookOK, Holding
<1>3. manifested = NoLeaf /\ FillsManifest(proc[c]) /\ ~Seals(proc[c])
  BY <1>1 DEF CaseInv, PreparedOnce, FillsManifest, Seals, Makes, Artifacts
<1> HIDE DEF x
<1>4. /\ Resting \in ProcTypes /\ TookOK(Resting) /\ AnswersOK(Resting)
      /\ ~Seals(Resting) /\ ~FillsManifest(Resting)
  BY RestingOK
<1>5. ConsumeOK(Resting)'
  BY DEF ConsumeOK, Consumes, Uses, Makes, Resting
<1>6. /\ CaseTyped' /\ PairStood'
      /\ \A d \in Processes : TookOK(proc[d])' /\ ConsumeOK(proc[d])' /\ AnswersOK(proc[d])'
      /\ proc'[c] = Resting /\ \A d \in Processes \ {c} : proc'[d] = proc[d]
      /\ disk'["manifest"] = x
      /\ \A k \in (Artifacts \cup {"manifest"}) \ {"manifest"} : disk'[k] = disk[k]
  <2> HIDE DEF Resting
  <2>1. /\ disk' = [disk EXCEPT !["manifest"] = x] /\ proc' = [proc EXCEPT ![c] = Resting]
        /\ UNCHANGED <<mode, live, stamp, edits, stood>>
        /\ Resting \in ProcTypes /\ "manifest" \in Artifacts \cup {"manifest"}
        /\ x \in Manifests \cup {Unfilled}
    BY <1>1, <1>2, <1>4
  <2>2. /\ TookOK(Resting) /\ ConsumeOK(Resting)' /\ AnswersOK(Resting)
        /\ manifested' \in Manifests \cup {NoLeaf}
        /\ manifested' = manifested \/ manifested = NoLeaf
    BY <1>1, <1>2, <1>3, <1>4, <1>5
  <2>3. CaseTyped' /\ PairStood'
    BY <2>1, <2>2, Commits
  <2>4. proc'[c] = Resting /\ disk'["manifest"] = x
    BY <2>1, <2>2, Commits
  <2>5. \A d \in Processes : TookOK(proc[d])' /\ ConsumeOK(proc[d])' /\ AnswersOK(proc[d])'
    BY <2>1, <2>2, Commits
  <2>6. /\ \A d \in Processes \ {c} : proc'[d] = proc[d]
        /\ \A k \in (Artifacts \cup {"manifest"}) \ {"manifest"} : disk'[k] = disk[k]
    BY <2>1, <2>2, Commits
  <2> QED
    BY <2>3, <2>4, <2>5, <2>6
<1> HIDE DEF Resting
<1>7. /\ disk'["bundle"] = disk["bundle"] /\ disk'["report"] = disk["report"]
      /\ disk'["receipt"] = disk["receipt"]
  BY <1>6 DEF Artifacts
<1>8. \A d \in Processes : ~FillsManifest(proc'[d]) /\ (Seals(proc'[d]) => Seals(proc[d]))
  <2>1. \A d \in Processes \ {c} : ~FillsManifest(proc[d])
    BY <1>3 DEF CaseInv, OneManifests
  <2> QED
    BY <1>4, <1>6, <2>1
<1>9. \A d \in Processes : WroteOK(d)'
  <2> SUFFICES ASSUME NEW d \in Processes PROVE WroteOK(d)'
    OBVIOUS
  <2>1. CASE d = c
    BY <1>4, <1>6, <2>1 DEF WroteOK, Seals, AfterBundle, AfterReport
  <2>2. CASE d # c
    <3>1. proc'[d] = proc[d] /\ WroteOK(d) /\ ~FillsManifest(proc'[d])
      BY <1>6, <1>8, <2>2 DEF CaseInv, ProcOK
    <3> QED
      BY <1>7, <3>1 DEF WroteOK, Bundle, Report
  <2> QED
    BY <2>1, <2>2
<1>10. OneSeals' /\ OneManifests'
  BY <1>8 DEF CaseInv, OneSeals, OneManifests
<1>11. x \notin {NoLeaf, Unfilled}
  BY <1>2, LeafAssumption DEF Manifests
<1>12. PreparedOnce'
  BY <1>6, <1>8, <1>11 DEF PreparedOnce
<1>13. Sealed'
  BY <1>1, <1>7, <1>8, <1>11 DEF CaseInv, Sealed, Whole
<1>14. CaseSound'
  BY <1>1, <1>3, <1>7
     DEF CaseInv, Sealed, CaseSound, ReceiptSealsCase, BoundAsPrepared, AnswersStoodTogether, Whole
<1> QED
  BY <1>6, <1>9, <1>10, <1>12, <1>13, <1>14, InOrder DEF CaseInv

\* A command that alone makes artifacts goes on with them, or ends.
LEMMA Seal ==
  ASSUME CaseInv, NEW c \in Processes, NEW q \in ProcTypes, NEW l \in Artifacts, NEW x,
         disk' = [disk EXCEPT ![l] = x], proc' = [proc EXCEPT ![c] = q],
         UNCHANGED <<mode, live, stamp, edits, stood, manifested>>,
         TookOK(q), ConsumeOK(q)', AnswersOK(q), ~FillsManifest(q),
         \A d \in Processes \ {c} : ~Seals(proc[d]),
         WroteOK(c)', Sealed', CaseSound'
  PROVE  CaseInv'
<1>1. /\ l \in Artifacts \cup {"manifest"} /\ l # "manifest"
      /\ manifested' \in Manifests \cup {NoLeaf} /\ manifested' = manifested
      /\ UNCHANGED <<mode, live, stamp, edits, stood>>
  BY DEF CaseInv, CaseTyped, Artifacts
<1>2. CaseTyped' /\ PairStood'
  BY <1>1, Commits
<1>3. \A d \in Processes : TookOK(proc[d])' /\ ConsumeOK(proc[d])' /\ AnswersOK(proc[d])'
  BY <1>1, Commits
<1>4. proc'[c] = q /\ \A d \in Processes \ {c} : proc'[d] = proc[d]
  BY <1>1, Commits
<1>5. disk'["manifest"] = disk["manifest"]
  <2>1. \A k \in (Artifacts \cup {"manifest"}) \ {l} : disk'[k] = disk[k]
    BY <1>1, Commits
  <2> QED
    BY <1>1, <2>1
<1>6. \A d \in Processes : WroteOK(d)'
  <2> SUFFICES ASSUME NEW d \in Processes, d # c PROVE WroteOK(d)'
    OBVIOUS
  <2>1. proc'[d] = proc[d] /\ ~Seals(proc[d]) /\ WroteOK(d)
    BY <1>4 DEF CaseInv, ProcOK
  <2> QED
    BY <1>5, <2>1 DEF WroteOK, AfterBundle, AfterReport, Seals
<1>7. OneSeals' /\ OneManifests' /\ PreparedOnce'
  <2>1. \A d \in Processes : (Seals(proc'[d]) => d = c) /\ (FillsManifest(proc'[d]) => FillsManifest(proc[d]))
    BY <1>4
  <2> QED
    BY <1>1, <1>5, <2>1 DEF CaseInv, OneSeals, OneManifests, PreparedOnce
<1> QED
  BY <1>2, <1>3, <1>6, <1>7, InOrder DEF CaseInv

\* One that makes artifacts and goes on doing so keeps what it holds.
LEMMA Making ==
  ASSUME CaseInv, NEW c \in Processes, Makes(proc[c]), UNCHANGED <<mode, manifested>>,
         NEW a \in {"create", "fill"}, NEW l \in Artifacts
  PROVE  \E q \in ProcTypes :
           /\ q = To(proc[c], a, l) /\ q.at = a /\ q.on = l
           /\ q.took = proc[c].took /\ q.answer = proc[c].answer /\ q.case = proc[c].case
           /\ TookOK(q) /\ ConsumeOK(q)' /\ AnswersOK(q) /\ ~FillsManifest(q)
<1>1. proc[c] \in ProcTypes /\ TookOK(proc[c]) /\ ConsumeOK(proc[c]) /\ AnswersOK(proc[c])
  BY DEF CaseInv, CaseTyped, ProcOK
<1>2. PICK q : q = To(proc[c], a, l)
  OBVIOUS
<1>3. /\ q \in ProcTypes /\ q.at = a /\ q.on = l /\ q.took = proc[c].took /\ q.case = proc[c].case
      /\ q.answer = proc[c].answer /\ q.seen = proc[c].seen
  <2>1. a \in CaseSteps /\ l \in Places
    BY DEF CaseSteps, Holding, Leaves, Places
  <2> QED
    BY <1>1, <1>2, <2>1, Goes
<1>4. Makes(q) /\ ~FillsManifest(q) /\ proc[c].at \in {"create", "fill"}
  BY <1>3 DEF Makes, FillsManifest, Artifacts
<1>5. TookOK(q)
  BY <1>1, <1>3, <1>4 DEF TookOK, Holding, Responses, Artifacts
<1>6. ConsumeOK(q)'
  BY <1>1, <1>3, <1>4 DEF ConsumeOK, Consumes, Uses
<1>7. AnswersOK(q)
  BY <1>1, <1>3, <1>4 DEF AnswersOK
<1> QED
  BY <1>2, <1>3, <1>4, <1>5, <1>6, <1>7

\* The bundle is created where none is; the report and the receipt by its maker.
LEMMA CreatesArtifact ==
  ASSUME CaseInv, NEW c \in Processes, NEW l \in Artifacts, Create(c, l)
  PROVE  CaseInv'
<1>1. /\ proc[c].at = "create" /\ proc[c].on = l
      /\ disk[l] = NoLeaf /\ disk' = [disk EXCEPT ![l] = Unfilled]
      /\ proc' = [proc EXCEPT ![c] = To(proc[c], "fill", l)]
      /\ UNCHANGED <<mode, live, stamp, edits, stood, manifested>>
  BY DEF Create, At, Go
<1>2. Makes(proc[c]) /\ (l # "bundle" => Seals(proc[c]))
  BY <1>1 DEF Makes, Seals
<1>3. PICK q \in ProcTypes :
        /\ q = To(proc[c], "fill", l) /\ q.at = "fill" /\ q.on = l
        /\ q.took = proc[c].took /\ q.answer = proc[c].answer
        /\ TookOK(q) /\ ConsumeOK(q)' /\ AnswersOK(q) /\ ~FillsManifest(q)
  BY <1>1, <1>2, Making
<1>4. /\ proc'[c] = q
      /\ disk'[l] = Unfilled /\ \A k \in Artifacts \ {l} : disk'[k] = disk[k]
  <2>1. proc \in [Processes -> ProcTypes] /\ disk = [k \in Leaves |-> disk[k]] /\ Artifacts \subseteq Leaves
    BY DEF CaseInv, CaseTyped, Leaves
  <2> QED
    BY <1>1, <1>3, <2>1
<1>5. WroteOK(c)
  BY DEF CaseInv, ProcOK
<1>6. \A d \in Processes \ {c} : ~Seals(proc[d])
  <2>1. CASE l = "bundle"
    BY <1>1, <2>1 DEF CaseInv, ProcOK, WroteOK
  <2>2. CASE l # "bundle"
    BY <1>2, <2>2 DEF CaseInv, OneSeals
  <2> QED
    BY <2>1, <2>2
<1>7. ~Whole("receipt")
  BY <1>1, <1>2 DEF CaseInv, Sealed
<1>8. ~Whole("receipt")'
  BY <1>4, <1>7 DEF Whole, Artifacts
<1>9. Sealed' /\ CaseSound'
  BY <1>8 DEF Sealed, CaseSound, ReceiptSealsCase, BoundAsPrepared, AnswersStoodTogether
<1>10. WroteOK(c)'
  <2>1. Bundle(c)' = Bundle(c) /\ Report(c)' = Report(c)
    BY <1>3, <1>4 DEF Bundle, Report
  <2>2. disk'["bundle"] # NoLeaf
    BY <1>2, <1>4, <1>5, LeafAssumption DEF WroteOK, Artifacts
  <2>3. AfterBundle(q) => disk'["bundle"] = Bundle(c)
    BY <1>1, <1>2, <1>3, <1>4, <1>5 DEF WroteOK, AfterBundle, Artifacts
  <2>4. AfterReport(q) => disk'["report"] = Report(c)
    BY <1>1, <1>2, <1>3, <1>4, <1>5 DEF WroteOK, AfterReport, Artifacts
  <2> QED
    BY <1>3, <1>4, <2>1, <2>2, <2>3, <2>4 DEF WroteOK
<1> QED
  <2>1. proc' = [proc EXCEPT ![c] = q]
    BY <1>1, <1>3
  <2> QED
    BY <1>1, <1>3, <1>6, <1>9, <1>10, <2>1, Seal

\* Each artifact is filled beside those it names.
LEMMA FillsArtifact ==
  ASSUME CaseInv, NEW c \in Processes, FillArtifact(c)
  PROVE  CaseInv'
<1>1. /\ UNCHANGED <<mode, live, stamp, edits, stood, manifested>>
      /\ proc[c].at = "fill" /\ proc[c].on \in Artifacts
  BY DEF FillArtifact, Fill, At, Artifacts
<1>2. Makes(proc[c]) /\ Seals(proc[c])
  BY <1>1 DEF Makes, Seals
<1>3. /\ proc \in [Processes -> ProcTypes] /\ disk = [k \in Leaves |-> disk[k]]
      /\ Artifacts \subseteq Leaves
      /\ WroteOK(c) /\ TookOK(proc[c]) /\ ConsumeOK(proc[c]) /\ AnswersOK(proc[c])
      /\ mode \in {"case", "session"}
  BY DEF CaseInv, CaseTyped, ProcOK, Leaves
<1>4. \A d \in Processes \ {c} : ~Seals(proc[d])
  BY <1>2 DEF CaseInv, OneSeals
<1>5. disk["bundle"] # NoLeaf /\ ~Whole("receipt")
  BY <1>2, <1>3 DEF CaseInv, WroteOK, Sealed
\* The bundle, then the report: the command goes on with the next.
<1>6. ASSUME NEW l \in {"bundle", "report"}, NEW k \in {"report", "receipt"}, NEW x,
             disk' = [disk EXCEPT ![l] = x], proc' = [proc EXCEPT ![c] = Go(c, "create", k)],
             l = "bundle" => k = "report" /\ x = Bundle(c),
             l = "report" => k = "receipt" /\ x = Report(c) /\ AfterBundle(proc[c])
      PROVE  CaseInv'
  <2>1. PICK q \in ProcTypes :
          /\ q = To(proc[c], "create", k) /\ q.at = "create" /\ q.on = k
          /\ q.took = proc[c].took /\ q.answer = proc[c].answer
          /\ TookOK(q) /\ ConsumeOK(q)' /\ AnswersOK(q) /\ ~FillsManifest(q)
    <3>1. k \in Artifacts
      BY DEF Artifacts
    <3> QED
      BY <1>1, <1>2, <3>1, Making
  <2>2. /\ proc' = [proc EXCEPT ![c] = q] /\ proc'[c] = q
        /\ disk'[l] = x /\ \A j \in Artifacts \ {l} : disk'[j] = disk[j]
    BY <1>3, <1>6, <2>1 DEF Go, Artifacts
  <2>3. Bundle(c)' = Bundle(c) /\ Report(c)' = Report(c)
    BY <2>1, <2>2 DEF Bundle, Report
  <2>4. Bundle(c) # NoLeaf
    <3>1. proc[c].took \in Manifests /\ proc[c].answer["h1 response"] \in Replies
      BY <1>1, <1>2, <1>3 DEF TookOK, AnswersOK, Holding
    <3>2. Bundle(c) \in [h1Prompt : Versions \X Versions, h1 : Replies]
      BY <3>1 DEF Bundle, H1Prompt, Manifests, Sources
    <3> QED
      BY <3>2, LeafAssumption
  <2>5. disk'["bundle"] = Bundle(c) /\ (l = "report" => disk'["report"] = Report(c))
    BY <1>3, <1>6, <2>2 DEF WroteOK, Artifacts
  <2>6. WroteOK(c)'
    BY <1>6, <2>1, <2>2, <2>3, <2>4, <2>5 DEF WroteOK, AfterReport
  <2>7. ~Whole("receipt")'
    BY <1>5, <2>2 DEF Whole, Artifacts
  <2>8. Sealed' /\ CaseSound'
    BY <2>7 DEF Sealed, CaseSound, ReceiptSealsCase, BoundAsPrepared, AnswersStoodTogether
  <2>9. l \in Artifacts
    BY DEF Artifacts
  <2> QED
    BY <1>1, <1>4, <1>6, <2>1, <2>2, <2>6, <2>8, <2>9, Seal
\* The receipt: the command ends, and nobody makes artifacts.
<1>7. ASSUME Fill(c, "receipt", Receipt(c), Resting)
      PROVE  CaseInv'
  <2>1. /\ disk' = [disk EXCEPT !["receipt"] = Receipt(c)] /\ proc' = [proc EXCEPT ![c] = Resting]
        /\ AfterBundle(proc[c]) /\ AfterReport(proc[c])
    BY <1>2, <1>7 DEF Fill, At, AfterBundle, AfterReport
  <2>2. /\ Resting \in ProcTypes /\ TookOK(Resting) /\ AnswersOK(Resting)
        /\ ~Seals(Resting) /\ ~FillsManifest(Resting)
    BY RestingOK
  <2>3. ConsumeOK(Resting)'
    BY DEF ConsumeOK, Consumes, Uses, Makes, Resting
  <2> HIDE DEF Resting
  <2>4. /\ proc'[c] = Resting /\ disk'["receipt"] = Receipt(c)
        /\ disk'["bundle"] = disk["bundle"] /\ disk'["report"] = disk["report"]
    BY <1>3, <2>1 DEF Artifacts
  <2>5. WroteOK(c)'
    BY <2>2, <2>4 DEF WroteOK, AfterBundle, AfterReport, Seals
  <2>6. \A d \in Processes : ~Seals(proc'[d])
    BY <1>3, <1>4, <2>1, <2>2
  <2>7. mode = "case" => manifested = proc[c].case /\ manifested = proc[c].took /\ manifested # NoLeaf
    BY <1>2, <1>3, LeafAssumption DEF ConsumeOK, Uses, Manifests
  <2>8. Sealed'
    BY <1>1, <1>5, <2>4, <2>6, <2>7 DEF Sealed
  <2>9. disk["bundle"] = Bundle(c) /\ disk["report"] = Report(c)
    BY <1>3, <2>1 DEF WroteOK
  <2>10. /\ Receipt(c).bundle = Bundle(c) /\ Receipt(c).report = Report(c)
         /\ Receipt(c).case = proc[c].case /\ Receipt(c).took = proc[c].took
         /\ Receipt(c).answer = proc[c].answer
    BY DEF Receipt
  <2>11. mode = "session" => proc[c].answer \in stood
    BY <1>2, <1>3 DEF AnswersOK
  <2>12. CaseSound'
    BY <1>1, <2>4, <2>7, <2>9, <2>10, <2>11
       DEF CaseSound, ReceiptSealsCase, BoundAsPrepared, AnswersStoodTogether
  <2>13. "receipt" \in Artifacts
    BY DEF Artifacts
  <2> QED
    BY <1>1, <1>4, <2>1, <2>2, <2>3, <2>5, <2>8, <2>12, <2>13, Seal
<1>8. \/ Fill(c, "bundle", Bundle(c), Go(c, "create", "report"))
      \/ Fill(c, "report", Report(c), Go(c, "create", "receipt"))
      \/ Fill(c, "receipt", Receipt(c), Resting)
  BY DEF FillArtifact
<1>9. CASE Fill(c, "bundle", Bundle(c), Go(c, "create", "report"))
  BY <1>6, <1>9 DEF Fill
<1>10. CASE Fill(c, "report", Report(c), Go(c, "create", "receipt"))
  <2>1. AfterBundle(proc[c])
    BY <1>2, <1>10 DEF Fill, At, AfterBundle
  <2> QED
    BY <1>6, <1>10, <2>1 DEF Fill
<1> QED
  BY <1>7, <1>8, <1>9, <1>10

\* Nothing exists at first.
LEMMA CaseInitInv == CaseInit => CaseInv
<1> SUFFICES ASSUME CaseInit PROVE CaseInv
  OBVIOUS
<1>1. /\ mode \in {"case", "session"} /\ live = [s \in Sources |-> Original]
      /\ disk = [l \in Leaves |-> NoLeaf] /\ stamp = [r \in Responses |-> 0] /\ edits = 0
      /\ proc = [c \in Processes |-> Resting] /\ manifested = NoLeaf /\ stood = {}
  BY DEF CaseInit
<1>2. \A l \in Leaves : disk[l] = NoLeaf
  BY <1>1
<1>3. /\ Responses \subseteq Leaves
      /\ disk["manifest"] = NoLeaf /\ disk["bundle"] = NoLeaf /\ disk["receipt"] = NoLeaf
      /\ \A r \in Responses : disk[r] = NoLeaf
  BY <1>2 DEF Leaves, Artifacts
<1>4. Resting \in ProcTypes /\ Resting.at = "idle" /\ \A r \in Responses : Resting.seen[r] = 0
  BY DEF Resting, ProcTypes, CaseSteps, Places
<1> HIDE DEF Resting
<1>5. \A c \in Processes : proc[c] = Resting
  BY <1>1
<1>6. CaseTyped
  <2>1. live \in Manifests
    BY <1>1, LeafAssumption DEF Manifests
  <2>2. stamp \in [Responses -> Nat] /\ edits \in Nat /\ \A r \in Responses : stamp[r] <= edits
    BY <1>1
  <2>3. proc \in [Processes -> ProcTypes]
    BY <1>1, <1>4
  <2>4. disk = [l \in Leaves |-> disk[l]]
    BY <1>1
  <2> QED
    BY <1>1, <1>3, <2>1, <2>2, <2>3, <2>4 DEF CaseTyped
<1>7. ~Makes(Resting) /\ ~Seals(Resting) /\ ~FillsManifest(Resting)
  BY <1>4 DEF Makes, Seals, FillsManifest
<1>8. \A c \in Processes : ProcOK(c)
  <2>1. TookOK(Resting) /\ ConsumeOK(Resting)
    BY <1>4, <1>7 DEF TookOK, ConsumeOK, Consumes, Uses, Holding
  <2>2. AnswersOK(Resting)
    <3>1. \A r \in Responses : Resting.seen[r] <= edits
      BY <1>1, <1>4
    <3> QED
      BY <1>4, <1>7, <3>1 DEF AnswersOK
  <2> QED
    BY <1>5, <1>7, <2>1, <2>2 DEF ProcOK, WroteOK, AfterBundle, AfterReport, Seals
<1>9. OneSeals /\ OneManifests
  BY <1>5, <1>7 DEF OneSeals, OneManifests
<1>10. PreparedOnce /\ Sealed /\ PairStood /\ CaseSound
  BY <1>1, <1>3
     DEF PreparedOnce, Sealed, PairStood, CaseSound, ReceiptSealsCase, BoundAsPrepared,
         AnswersStoodTogether, Whole
<1> QED
  BY <1>6, <1>8, <1>9, <1>10 DEF CaseInv

\* Every step of the operator or of a command keeps the invariant.
LEMMA CaseStepInv == CaseInv /\ [CaseNext]_casing => CaseInv'
<1> SUFFICES ASSUME CaseInv, [CaseNext]_casing PROVE CaseInv'
  OBVIOUS
<1>1. CASE Operator
  BY <1>1, EditsSources, EditsManifest, Replied DEF Operator
<1>2. ASSUME NEW c \in Processes, Command(c)
      PROVE  CaseInv'
  <2>1. CASE \E s \in Sources : Take(c, s) \/ CaptureLive(c, s) \/ CheckArchive(c, s)
    BY <2>1, Takes, Captures, ChecksArchive
  <2>2. CASE \E l \in Leaves : Create(c, l)
    <3>1. PICK l \in Leaves : Create(c, l)
      BY <2>2
    <3>2. l \notin Responses
      BY <3>1 DEF Create, At, CaseInv, ProcOK, TookOK
    <3>3. l \in Sources \cup Prompts \cup Artifacts \cup {"manifest"}
      BY <3>2 DEF Leaves, Prompts
    <3> QED
      BY <3>1, <3>3, Prepares, CreatesManifest, CreatesArtifact
  <2>3. CASE \E r \in Responses : Open(c, r) \/ Read(c, r) \/ Stat(c, r)
    BY <2>3, ReadsReplies
  <2>4. CASE MakeRoot(c) \/ FillPrepared(c) \/ Verify(c) \/ ExposeH1(c) \/ ExposeLegacy(c)
             \/ Withdraw(c) \/ Stop(c)
    BY <2>4, Prepares
  <2>5. CASE FillManifest(c) \/ FillArtifact(c)
    BY <2>5, FillsTheManifest, FillsArtifact
  <2>6. CASE Preflight(c) \/ ReadManifest(c) \/ CheckPrompt(c) \/ Build(c)
    BY <2>6, ReadsCase
  <2> QED
    BY <1>2, <2>1, <2>2, <2>3, <2>4, <2>5, <2>6 DEF Command
<1>3. CASE UNCHANGED casing
  <2>1. /\ UNCHANGED <<mode, live, disk, stamp, edits, manifested, stood, proc>>
    BY <1>3 DEF casing
  <2>2. /\ live' \in Manifests /\ edits' \in Nat /\ edits <= edits'
        /\ disk' = [l \in Leaves |-> disk'[l]] /\ proc' \in [Processes -> ProcTypes]
    BY <2>1 DEF CaseInv, CaseTyped
  <2>3. /\ {} \in SUBSET Processes /\ UNCHANGED <<mode, stamp, manifested, stood>>
        /\ \A l \in Responses \cup Artifacts \cup {"manifest"} : disk'[l] = disk[l]
        /\ \A d \in Processes \ {} : proc'[d] = proc[d]
    BY <2>1
  <2> QED
    BY <2>2, <2>3, Frame, Zenon
<1> QED
  BY <1>1, <1>2, <1>3 DEF CaseNext

\* However preparations, consumptions, sessions and the operator overlap, and
\* wherever they are killed, a whole receipt stands beside the bundle and the
\* report it names; a case is consumed as it was prepared; and the two answers
\* a session binds stood together (_stable_read_response_pair, O_EXCL).
THEOREM CaseSafe == CaseSpec => []CaseSound
<1>1. CaseInv => CaseSound
  BY DEF CaseInv
<1> QED
  BY CaseInitInv, CaseStepInv, <1>1, PTL DEF CaseSpec

-----------------------------------------------------------------------------
(* The replacement handoff.                                               *)

USE FreshAssumption, DateAssumption, PortfolioAssumption, NoneAssumption

Building == {"strategy", "portfolio", "prepare", "answer", "report"}
Answering == {"read", "answer", "report", "reclear", "decide"}
Answered == {"report", "reclear", "decide"}
Dropped == {"drop prepared", "mint", "strategy", "portfolio", "prepare", "read", "answer", "report"}

\* What a running command has established.
CommandOK ==
  /\ cmd.at # "idle" => decision.facts = None
  /\ cmd.at \in Dropped => report = None /\ ~torn
  /\ cmd.at \in Building =>
       /\ cmd.context \in Contexts
       /\ cmd.named # None => cmd.context = prepared
  /\ cmd.at \in Answering => cmd.named # None
  /\ cmd.at \in {"drop prepared", "mint"} => cmd.named = None
  /\ cmd.at = "answer" => Projectable(cmd.context)
  /\ cmd.at \in Answered =>
       /\ cmd.facts \in Reports
       /\ cmd.facts.to = prepared
       /\ cmd.facts.to.portfolio # Absent
       /\ Projectable(cmd.facts.to)
  /\ cmd.at \in {"reclear", "decide"} => report = cmd.facts /\ ~torn

\* The inductive invariant.
HandoffInv == TypeOK /\ CompletionBacked /\ ClaimBacked /\ ClaimWithinPeriod /\ CommandOK

LEMMA Verdicts ==
  ASSUME NEW warrant \in Warrants
  PROVE  Plain(warrant) \in Decisions /\ Plain(warrant).facts = None
BY DEF Plain, Decisions, States, Warrants

LEMMA NoVerdict == NoDecision \in Decisions /\ NoDecision.facts = None
BY Verdicts DEF NoDecision, Warrants

LEMMA DatesOfContext ==
  ASSUME NEW context \in Contexts, context.portfolio # Absent
  PROVE  context.portfolio \in Portfolios /\ context.strategy \in Strategies
         /\ AsOf[context.strategy] \in Nat /\ Dated[context.portfolio] \in Nat /\ context.day \in Nat
BY DEF Contexts

\* A decision made at now with facts either recognises them within their
\* period or makes no claim.
Sound(d, facts, now) ==
  /\ d \in Decisions
  /\ \/ d.facts = None
     \/ /\ d.facts = facts /\ d.now = now
        /\ facts.to.day <= now
        /\ \A date \in {AsOf[facts.to.strategy], Dated[facts.to.portfolio]} :
             date <= facts.to.day /\ now <= date + FreshDays

LEMMA JudgedSoundly ==
  ASSUME NEW facts \in Reports, facts.to.portfolio # Absent, Projectable(facts.to),
         NEW now \in Nat, NEW warrant \in Warrants
  PROVE  Sound(Judged(facts, now, warrant), facts, now)
<1> DEFINE d == Judged(facts, now, warrant)
           defective == FutureDated(facts.to, now) \/ TooOld(facts.to, now)
           fresh == ~defective /\ OldestFresh(facts.to, now) /\ warrant \in {"fallback", "expired"}
<1>1. facts.to \in Contexts
  BY DEF Reports, Answers
<1>2. CASE defective /\ warrant = "fallback"
  <2>1. d = Plain("manual")
    BY <1>2 DEF Judged
  <2> QED BY <2>1, Verdicts DEF Warrants, Sound
<1>3. CASE ~(defective /\ warrant = "fallback") /\ ~fresh
  <2>1. d = Plain(warrant)
    BY <1>3 DEF Judged
  <2> QED BY <2>1, Verdicts DEF Sound
<1>4. CASE fresh
  <2>1. d = [state |-> "H1", facts |-> facts, now |-> now]
    BY <1>4 DEF Judged
  <2>2. d \in Decisions /\ d.facts = facts /\ d.now = now
    BY <2>1 DEF Decisions, States
  <2>3. facts.to.day <= now /\ OldestFresh(facts.to, now)
    BY <1>1, <1>4, DatesOfContext DEF FutureDated
  <2>4. \A date \in {AsOf[facts.to.strategy], Dated[facts.to.portfolio]} :
          date <= facts.to.day /\ now <= date + FreshDays
    BY <2>3 DEF OldestFresh, Projectable
  <2> QED BY <2>2, <2>3, <2>4 DEF Sound
<1> QED BY <1>2, <1>3, <1>4

----------------------------------------------------------------------------
LEMMA HandoffInit == Init => HandoffInv
<1> SUFFICES ASSUME Init PROVE HandoffInv
  OBVIOUS
<1>1. cmd \in Commands
  BY DEF Init, Idle, Commands, Steps
<1>2. TypeOK
  BY <1>1, NoVerdict, FS_EmptySet DEF Init, TypeOK
<1>3. CompletionBacked /\ ClaimBacked /\ ClaimWithinPeriod
  BY NoVerdict DEF Init, CompletionBacked, ClaimBacked, ClaimWithinPeriod
<1>4. CommandOK
  BY DEF Init, Idle, CommandOK, Building, Answering, Answered, Dropped
<1> QED BY <1>2, <1>3, <1>4 DEF HandoffInv

\* What the invariant says is kept by a step that leaves the files alone and
\* moves the command only.
LEMMA CommandStep ==
  ASSUME HandoffInv, UNCHANGED <<sources, shown, files, torn>>, cmd' \in Commands, CommandOK'
  PROVE  HandoffInv'
BY DEF HandoffInv, TypeOK, CompletionBacked, ClaimBacked, ClaimWithinPeriod, sources, files

LEMMA IdleCommand ==
  /\ Idle \in Commands
  /\ Idle.at = "idle"
BY DEF Idle, Commands, Steps

LEMMA EndOfCommand ==
  ASSUME cmd' = Idle
  PROVE  CommandOK'
BY DEF CommandOK, Idle, Building, Answering, Answered, Dropped

LEMMA NoClaim ==
  ASSUME decision'.facts = None
  PROVE  ClaimBacked' /\ ClaimWithinPeriod'
BY DEF ClaimBacked, ClaimWithinPeriod

THEOREM HandoffNext == HandoffInv /\ [Next]_vars => HandoffInv'
<1> SUFFICES ASSUME HandoffInv, [Next]_vars PROVE HandoffInv'
  OBVIOUS
<1> USE DEF HandoffInv, TypeOK
<1> DEFINE Clears == cmd.at = "idle" /\ \E named \in Contexts \cup {None} : Clear(named)
<1>1. CASE Clears
  <2>1. PICK named \in Contexts \cup {None} : Clear(named)
    BY <1>1
  <2>2. cmd' \in Commands /\ cmd'.at = "rebuild" /\ decision' = NoDecision
    BY <2>1 DEF Clear, Idle, Commands, Steps
  <2>3. TypeOK'
    BY <2>1, <2>2, NoVerdict DEF Clear, sources
  <2>4. CompletionBacked'
    BY <2>1 DEF Clear, CompletionBacked
  <2>5. CommandOK'
    BY <2>2, NoVerdict DEF CommandOK, Building, Answering, Answered, Dropped
  <2> QED BY <2>2, <2>3, <2>4, <2>5, NoVerdict, NoClaim
<1>2. CASE Rebuild
  <2>1. PICK warrant \in Warrants : decision' = Plain(warrant)
    BY <1>2 DEF Rebuild
  <2>2. cmd' \in Commands /\ cmd'.at = "drop report"
    BY <1>2 DEF Rebuild, Goto, Commands, Steps
  <2>3. TypeOK'
    BY <1>2, <2>1, <2>2, Verdicts DEF Rebuild, sources
  <2>4. CompletionBacked'
    BY <1>2 DEF Rebuild, CompletionBacked
  <2>5. CommandOK'
    BY <2>1, <2>2, Verdicts DEF CommandOK, Building, Answering, Answered, Dropped
  <2> QED BY <2>1, <2>3, <2>4, <2>5, Verdicts, NoClaim
<1>3. CASE DropReport
  <2>1. cmd' \in Commands /\ cmd'.at = (IF cmd.named = None THEN "drop prepared" ELSE "read")
        /\ cmd'.named = cmd.named
    BY <1>3 DEF DropReport, Goto, Commands, Steps
  <2>2. decision'.facts = None /\ report' = None /\ torn' = FALSE
    BY <1>3 DEF DropReport, CommandOK
  <2>3. TypeOK'
    BY <1>3, <2>1, <2>2 DEF DropReport, sources
  <2>4. CommandOK'
    BY <2>1, <2>2 DEF CommandOK, Building, Answering, Answered, Dropped
  <2> QED BY <2>2, <2>3, <2>4, NoClaim DEF CompletionBacked
<1>4. CASE DropPrepared
  <2>1. cmd' \in Commands /\ cmd'.at = "mint" /\ cmd'.named = None
    BY <1>4 DEF DropPrepared, Goto, Commands, Steps, CommandOK
  <2>2. decision'.facts = None /\ report' = None /\ torn' = FALSE
    BY <1>4 DEF DropPrepared, CommandOK, Dropped
  <2>3. TypeOK'
    BY <1>4, <2>1 DEF DropPrepared, sources
  <2>4. CommandOK'
    BY <2>1, <2>2 DEF CommandOK, Building, Answering, Answered, Dropped
  <2> QED BY <2>2, <2>3, <2>4, NoClaim DEF CompletionBacked
<1>5. CASE Mint
  <2>1. PICK s \in Strategies, p \in Portfolios \cup {Absent} :
          cmd' = [cmd EXCEPT !.at = "strategy",
                    !.context = [run |-> Cardinality(shown) + 1, day |-> today,
                                 strategy |-> s, portfolio |-> p]]
    BY <1>5 DEF Mint
  <2>2. Cardinality(shown) \in Nat
    BY FS_CardinalityType
  <2>9. [run |-> Cardinality(shown) + 1, day |-> today, strategy |-> s, portfolio |-> p] \in Contexts
    BY <2>2 DEF Contexts
  <2>3. cmd' \in Commands /\ cmd'.at = "strategy" /\ cmd'.context \in Contexts /\ cmd'.named = cmd.named
    BY <2>1, <2>9 DEF Commands, Steps
  <2>4. cmd.named = None
    BY <1>5 DEF Mint, CommandOK
  <2>5. decision'.facts = None /\ report' = None /\ torn' = FALSE
    BY <1>5 DEF Mint, CommandOK, Dropped, files
  <2>6. CommandOK'
    BY <2>3, <2>4, <2>5 DEF CommandOK, Building, Answering, Answered, Dropped
  <2> QED BY <1>5, <2>3, <2>6, CommandStep DEF Mint
<1>6. CASE CaptureStrategy
  <2>1. cmd' \in Commands /\ cmd' = [cmd EXCEPT !.at = "portfolio"] /\ cmd.at = "strategy"
    BY <1>6 DEF CaptureStrategy, Goto, Commands, Steps
  <2>2. CommandOK'
    BY <1>6, <2>1 DEF CaptureStrategy, CommandOK, Building, Answering, Answered, Dropped, Commands, files
  <2> QED BY <1>6, <2>1, <2>2, CommandStep DEF CaptureStrategy
<1>7. CASE CapturePortfolio
  <2>1. cmd' \in Commands
    BY <1>7 DEF CapturePortfolio, Goto, Commands, Steps
  <2>2. cmd' = [cmd EXCEPT !.at = IF cmd.named = None THEN "prepare" ELSE "answer"] /\ cmd.at = "portfolio"
        /\ Projectable(cmd.context)
    BY <1>7 DEF CapturePortfolio, Goto
  <2>3. Projectable(cmd'.context)
    BY <2>2 DEF Projectable, Commands
  <2>4. CommandOK'
    BY <1>7, <2>2, <2>3 DEF CapturePortfolio, CommandOK, Building, Answering, Answered, Dropped,
                            Commands, files
  <2> QED BY <1>7, <2>1, <2>4, CommandStep DEF CapturePortfolio
<1>8. CASE PublishPrepared
  <2>1. cmd.context \in Contexts /\ report = None /\ decision.facts = None
    BY <1>8 DEF PublishPrepared, CommandOK, Building, Dropped
  <2>2. IsFiniteSet(shown')
    BY <1>8, FS_AddElement DEF PublishPrepared
  <2>3. TypeOK'
    BY <1>8, <2>1, <2>2, IdleCommand DEF PublishPrepared, sources
  <2> QED BY <1>8, <2>1, <2>3, EndOfCommand, NoClaim DEF PublishPrepared, CompletionBacked
<1>9. CASE ReadPrepared
  <2>1. prepared = cmd.named /\ cmd.named # None /\ prepared \in Contexts
    BY <1>9 DEF ReadPrepared, CommandOK, Answering
  <2>2. cmd' \in Commands /\ cmd' = [cmd EXCEPT !.at = "strategy", !.context = prepared] /\ cmd.at = "read"
    BY <1>9, <2>1 DEF ReadPrepared, Commands, Steps
  <2>3. CommandOK'
    BY <1>9, <2>1, <2>2 DEF ReadPrepared, CommandOK, Building, Answering, Answered, Dropped, Commands, files
  <2> QED BY <1>9, <2>2, <2>3, CommandStep DEF ReadPrepared
<1>10. CASE ReadAnswer
  <2>1. answer \in Reports /\ answer.to = cmd.context /\ answer.to.portfolio # Absent
    BY <1>10 DEF ReadAnswer, Binds, Reports
  <2>2. cmd.named # None /\ cmd.context = prepared /\ Projectable(answer.to)
    BY <1>10, <2>1 DEF ReadAnswer, CommandOK, Answering, Building
  <2>3. cmd' \in Commands /\ cmd' = [cmd EXCEPT !.at = "report", !.facts = answer] /\ cmd.at = "answer"
    BY <1>10, <2>1 DEF ReadAnswer, Commands, Steps
  <2>4. cmd'.facts = answer /\ cmd'.at = "report" /\ cmd'.named = cmd.named /\ cmd'.context = cmd.context
    BY <2>3 DEF Commands
  <2>5. Projectable(cmd'.facts.to)
    BY <2>2, <2>4
  <2>6. CommandOK'
    BY <1>10, <2>1, <2>2, <2>4, <2>5
      DEF ReadAnswer, CommandOK, Building, Answering, Answered, Dropped, files
  <2> QED BY <1>10, <2>3, <2>6, CommandStep DEF ReadAnswer
<1>11. CASE PublishReport
  <2>1. /\ cmd.facts \in Reports /\ cmd.facts.to = prepared /\ cmd.facts.to.portfolio # Absent
        /\ Projectable(cmd.facts.to) /\ cmd.named # None /\ decision.facts = None /\ ~torn
    BY <1>11 DEF PublishReport, CommandOK, Answering, Answered, Dropped
  <2>2. cmd' \in Commands /\ cmd' = [cmd EXCEPT !.at = "reclear"] /\ report' = cmd.facts
    BY <1>11 DEF PublishReport, Goto, Commands, Steps
  <2>3. cmd'.facts = cmd.facts /\ cmd'.at = "reclear" /\ cmd'.named = cmd.named
    BY <2>2 DEF Commands
  <2>4. TypeOK'
    BY <1>11, <2>1, <2>2 DEF PublishReport, sources
  <2>5. Projectable(cmd'.facts.to)
    BY <2>1, <2>3
  <2>6. CommandOK'
    BY <1>11, <2>1, <2>2, <2>3, <2>5
      DEF PublishReport, CommandOK, Building, Answering, Answered, Dropped
  <2>7. CompletionBacked'
    BY <1>11, <2>1, <2>2 DEF PublishReport, CompletionBacked
  <2> QED BY <1>11, <2>1, <2>4, <2>6, <2>7, NoClaim DEF PublishReport
<1>12. CASE Reclear
  <2>1. cmd' \in Commands /\ cmd' = [cmd EXCEPT !.at = "decide"] /\ cmd.at = "reclear"
    BY <1>12 DEF Reclear, Goto, Commands, Steps
  <2>2. cmd'.facts = cmd.facts /\ cmd'.at = "decide" /\ cmd'.named = cmd.named
    BY <2>1 DEF Commands
  <2>3. TypeOK'
    BY <1>12, <2>1, NoVerdict DEF Reclear, sources
  <2>4. Projectable(cmd.facts.to)
    BY <2>1 DEF CommandOK, Answered
  <2>5. Projectable(cmd'.facts.to)
    BY <2>2, <2>4
  <2>6. CommandOK'
    BY <1>12, <2>1, <2>2, <2>5, NoVerdict
      DEF Reclear, CommandOK, Building, Answering, Answered, Dropped
  <2>7. CompletionBacked'
    BY <1>12 DEF Reclear, CompletionBacked
  <2> QED BY <1>12, <2>3, <2>6, <2>7, NoClaim, NoVerdict DEF Reclear
<1>13. CASE Decide
  <2>1. /\ cmd.facts \in Reports /\ cmd.facts.to.portfolio # Absent
        /\ Projectable(cmd.facts.to) /\ report = cmd.facts
    BY <1>13 DEF Decide, CommandOK, Answered
  <2>2. AsOf[strategy] \in Nat
    OBVIOUS
  <2>3. Sound(decision', cmd.facts, AsOf[strategy])
    <3>1. CASE \E warrant \in Warrants \ {"none"} :
                 decision' = Judged(cmd.facts, AsOf[strategy], warrant)
      BY <2>1, <2>2, <3>1, JudgedSoundly
    <3>2. CASE decision' \in {Plain("fallback"), NoDecision}
      BY <3>2, NoVerdict, Verdicts DEF Warrants, Sound
    <3> QED BY <1>13, <3>1, <3>2 DEF Decide
  <2>4. TypeOK'
    BY <1>13, <2>3, IdleCommand DEF Decide, sources, Sound
  <2>5. CompletionBacked'
    BY <1>13 DEF Decide, CompletionBacked
  <2>6. ClaimBacked'
    BY <1>13, <2>1, <2>3 DEF Decide, ClaimBacked, Sound
  <2>7. ClaimWithinPeriod'
    BY <2>3 DEF ClaimWithinPeriod, Sound
  <2>8. CommandOK'
    BY <1>13, EndOfCommand DEF Decide
  <2> QED BY <2>4, <2>5, <2>6, <2>7, <2>8
<1>14. CASE Fail
  BY <1>14, IdleCommand, EndOfCommand, CommandStep DEF Fail
<1>15. CASE Reevaluate
  <2>1. decision' \in Decisions /\ decision'.facts = None
    BY <1>15, Verdicts DEF Reevaluate
  <2>2. TypeOK' /\ CompletionBacked'
    BY <1>15, <2>1 DEF Reevaluate, sources, CompletionBacked
  <2>3. CommandOK'
    BY <1>15 DEF Reevaluate, CommandOK, Building, Answering, Answered, Dropped
  <2> QED BY <2>1, <2>2, <2>3, NoClaim
<1>16. CASE PrepareNextRun
  <2>1. TypeOK' /\ CompletionBacked'
    BY <1>16, NoVerdict DEF PrepareNextRun, sources, CompletionBacked
  <2>2. CommandOK'
    BY <1>16 DEF PrepareNextRun, CommandOK, Building, Answering, Answered, Dropped
  <2> QED BY <1>16, <2>1, <2>2, NoClaim, NoVerdict DEF PrepareNextRun
<1>17. CASE KilledClear
  <2>1. PICK gone \in SUBSET {"prepared", "answer", "report", "decision"} :
          /\ prepared' = Keep(prepared, gone, "prepared", None)
          /\ answer' = Keep(answer, gone, "answer", None)
          /\ report' = Keep(report, gone, "report", None)
          /\ decision' = Keep(decision, gone, "decision", NoDecision)
          /\ torn' = (torn \/ gone \cap {"prepared", "report"} # {})
    BY <1>17 DEF KilledClear
  <2>2. prepared' \in {prepared, None} /\ answer' \in {answer, None} /\ report' \in {report, None}
        /\ (decision' = decision \/ decision' = NoDecision) /\ torn' \in BOOLEAN
    BY <2>1 DEF Keep
  <2>3. TypeOK'
    BY <1>17, <2>2, NoVerdict DEF KilledClear, sources
  <2>4. ~torn' => ~torn /\ prepared' = prepared /\ report' = report
    BY <2>1 DEF Keep
  <2>5. CompletionBacked'
    BY <2>4 DEF CompletionBacked
  <2>6. ClaimBacked' /\ ClaimWithinPeriod'
    BY <2>2, <2>4, NoVerdict DEF ClaimBacked, ClaimWithinPeriod
  <2>7. CommandOK'
    BY <1>17 DEF KilledClear, CommandOK, Building, Answering, Answered, Dropped
  <2> QED BY <2>3, <2>5, <2>6, <2>7
<1>18. CASE EditSources \/ Tick
  <2>1. strategy' \in Strategies /\ portfolio' \in Portfolios \cup {Absent} /\ today' \in Nat
        /\ UNCHANGED <<shown, files, torn, cmd>>
    BY <1>18 DEF EditSources, Tick
  <2> QED BY <2>1, ZenonT(60) DEF files, CompletionBacked, ClaimBacked, ClaimWithinPeriod, CommandOK
<1>19. CASE PlaceAnswer
  <2>1. answer' \in Answers \cup {None} /\ UNCHANGED <<sources, shown, prepared, report, decision, torn, cmd>>
    BY <1>19 DEF PlaceAnswer, Answers
  <2> QED BY <2>1, ZenonT(60) DEF sources, CompletionBacked, ClaimBacked, ClaimWithinPeriod, CommandOK
<1>20. CASE UNCHANGED vars
  <2>1. cmd' \in Commands /\ CommandOK' /\ UNCHANGED <<sources, shown, files, torn>>
    BY <1>20 DEF vars, files, CommandOK
  <2> QED BY <2>1, CommandStep
<1>21. BeginPrepare => Clears
  BY DEF BeginPrepare
<1>22. BeginConsume => Clears
  BY DEF BeginConsume
<1> QED
  BY <1>1, <1>2, <1>3, <1>4, <1>5, <1>6, <1>7, <1>8, <1>9, <1>10, <1>11, <1>12, <1>13, <1>14,
     <1>15, <1>16, <1>17, <1>18, <1>19, <1>20, <1>21, <1>22 DEF Next

LEMMA HandoffInvariant == Spec => []HandoffInv
BY HandoffInit, HandoffNext, PTL DEF Spec

\* Every file, decision and command keeps its shape.
THEOREM HandoffTypes == Spec => []TypeOK
BY HandoffInvariant, PTL DEF HandoffInv

\* No failure, kill or edit leaves a completion beside another preparation.
THEOREM CompletionStandsBacked == Spec => []CompletionBacked
BY HandoffInvariant, PTL DEF HandoffInv

\* A decision that recognises H1 rests on the completion on disk.
THEOREM ClaimStandsBacked == Spec => []ClaimBacked
BY HandoffInvariant, PTL DEF HandoffInv

\* The two together.
THEOREM ClaimStands == Spec => []ClaimSound
BY CompletionStandsBacked, ClaimStandsBacked, PTL DEF ClaimSound

\* Such a decision was made within the period of its facts.
THEOREM ClaimStaysWithinPeriod == Spec => []ClaimWithinPeriod
BY HandoffInvariant, PTL DEF HandoffInv

----------------------------------------------------------------------------
\* The claim, as MappedClaim counts it.
Claim == IF torn THEN None ELSE decision.facts
Pending == cmd.at \in {"reclear", "decide"}

LEMMA ClaimsInit == Init => Claims!Init
BY NoVerdict DEF Init, Idle, Claims!Init

LEMMA ClaimsNext == HandoffInv /\ [Next]_vars => [Claims!Next]_Claims!vars
<1> SUFFICES ASSUME HandoffInv, [Next]_vars PROVE [Claims!Next]_Claims!vars
  OBVIOUS
<1> USE DEF HandoffInv
<1> DEFINE Dropping == Claim' = None /\ ~Pending' /\ report' \in {report, None}
           Stuttering == UNCHANGED <<report, Claim, Pending>>
<1>12. Dropping => Claims!Next
  BY DEF Claims!Next, Claims!Drop, Claim, Pending
<1>13. Stuttering => UNCHANGED Claims!vars
  BY DEF Claims!vars, Claim, Pending
<1>14. ASSUME UNCHANGED <<report, decision, torn>>, cmd.at \notin {"reclear", "decide"},
             cmd'.at \notin {"reclear", "decide"}
      PROVE  Stuttering
  BY <1>14 DEF Claim, Pending
<1>1. CASE BeginPrepare \/ BeginConsume
  <2>1. PICK named : Clear(named)
    BY <1>1 DEF BeginPrepare, BeginConsume
  <2>2. Dropping
    BY <2>1, NoVerdict DEF Clear, Idle, Claim, Pending
  <2> QED BY <2>2, <1>12
<1>2. CASE Rebuild
  <2>1. Dropping
    BY <1>2, Verdicts DEF Rebuild, Goto, Claim, Pending, TypeOK, Commands
  <2> QED BY <2>1, <1>12
<1>3. CASE DropReport
  <2>1. decision.facts = None
    BY <1>3 DEF DropReport, CommandOK
  <2>2. Dropping
    BY <1>3, <2>1 DEF DropReport, Goto, Claim, Pending, TypeOK, Commands
  <2> QED BY <2>2, <1>12
<1>4. CASE DropPrepared \/ Mint \/ CaptureStrategy \/ CapturePortfolio \/ PublishPrepared
           \/ ReadPrepared \/ ReadAnswer
  <2>1. UNCHANGED <<report, decision, torn>>
    BY <1>4 DEF DropPrepared, Mint, CaptureStrategy, CapturePortfolio, PublishPrepared,
      ReadPrepared, ReadAnswer, files
  <2>3. cmd.at \notin {"reclear", "decide"}
    BY <1>4 DEF DropPrepared, Mint, CaptureStrategy, CapturePortfolio, PublishPrepared,
      ReadPrepared, ReadAnswer
  <2>2. cmd'.at \notin {"reclear", "decide"}
    <3>1. CASE DropPrepared \/ CaptureStrategy
      BY <3>1 DEF DropPrepared, CaptureStrategy, Goto, TypeOK, Commands
    <3>5. CASE CapturePortfolio
      BY <3>5 DEF CapturePortfolio, Goto, TypeOK, Commands
    <3>6. CASE PublishPrepared
      BY <3>6 DEF PublishPrepared, Idle
    <3>2. CASE Mint
      BY <3>2 DEF Mint, TypeOK, Commands
    <3>3. CASE ReadPrepared
      BY <3>3 DEF ReadPrepared, TypeOK, Commands
    <3>4. CASE ReadAnswer
      BY <3>4 DEF ReadAnswer, TypeOK, Commands
    <3> QED BY <1>4, <3>1, <3>2, <3>3, <3>4, <3>5, <3>6
  <2> QED BY <2>1, <2>2, <2>3, <1>13, <1>14
<1>5. CASE PublishReport
  <2>1. report = None /\ ~torn /\ decision.facts = None /\ cmd.facts \in Reports
    BY <1>5 DEF PublishReport, CommandOK, Dropped, Answered
  <2>2. report' \in Reports /\ Claim = None /\ UNCHANGED Claim
    BY <1>5, <2>1 DEF PublishReport, Claim
  <2>3. Pending'
    BY <1>5 DEF PublishReport, Goto, Pending, TypeOK, Commands
  <2> QED BY <2>1, <2>2, <2>3 DEF Claims!Next, Claims!Publish, Claim, Pending
<1>6. CASE Reclear
  <2>1. decision.facts = None
    BY <1>6 DEF Reclear, CommandOK
  <2>2. Stuttering
    BY <1>6, <2>1, NoVerdict DEF Reclear, Goto, Claim, Pending, TypeOK, Commands
  <2> QED BY <2>2, <1>13
<1>7. CASE Decide
  <2>1. /\ cmd.facts \in Reports /\ cmd.facts.to.portfolio # Absent /\ Projectable(cmd.facts.to)
        /\ report = cmd.facts /\ ~torn
    BY <1>7 DEF Decide, CommandOK, Answered
  <2>2. AsOf[strategy] \in Nat
    BY DEF TypeOK
  <2>3. decision'.facts \in {report, None}
    <3>1. CASE \E warrant \in Warrants \ {"none"} :
                 decision' = Judged(cmd.facts, AsOf[strategy], warrant)
      BY <2>1, <2>2, <3>1, JudgedSoundly DEF Sound
    <3>2. CASE decision' \in {Plain("fallback"), NoDecision}
      BY <3>2, NoVerdict, Verdicts DEF Warrants
    <3> QED BY <1>7, <3>1, <3>2 DEF Decide
  <2>4. Pending /\ ~Pending' /\ report' = report /\ torn' = torn
    BY <1>7 DEF Decide, Idle, Pending
  <2>5. CASE decision'.facts = None
    BY <2>1, <2>4, <2>5, <1>12 DEF Claim
  <2>6. CASE decision'.facts = report
    BY <2>1, <2>4, <2>6 DEF Claims!Next, Claims!Assert, Claim, Pending
  <2> QED BY <2>3, <2>5, <2>6
<1>8. CASE Fail
  <2>1. decision.facts = None
    BY <1>8 DEF Fail, CommandOK
  <2>2. Dropping
    BY <1>8, <2>1 DEF Fail, Idle, files, Claim, Pending
  <2> QED BY <2>2, <1>12
<1>9. CASE Reevaluate \/ PrepareNextRun
  <2>1. decision'.facts = None
    BY <1>9, Verdicts, NoVerdict DEF Reevaluate, PrepareNextRun
  <2>2. Dropping
    BY <1>9, <2>1 DEF Reevaluate, PrepareNextRun, Claim, Pending
  <2> QED BY <2>2, <1>12
<1>10. CASE KilledClear
  <2>1. PICK gone \in SUBSET {"prepared", "answer", "report", "decision"} :
          /\ report' = Keep(report, gone, "report", None)
          /\ decision' = Keep(decision, gone, "decision", NoDecision)
          /\ torn' = (torn \/ gone \cap {"prepared", "report"} # {})
    BY <1>10 DEF KilledClear
  <2>2. ~Pending /\ ~Pending' /\ report' \in {report, None}
    BY <1>10, <2>1 DEF KilledClear, Pending, Keep
  <2>3. CASE torn' \/ decision' = NoDecision
    BY <2>2, <2>3, NoVerdict, <1>12 DEF Claim
  <2>4. CASE ~torn' /\ decision' # NoDecision
    <3>1. ~torn /\ report' = report /\ decision' = decision
      BY <2>1, <2>4 DEF Keep
    <3>2. UNCHANGED Claim
      BY <2>4, <3>1 DEF Claim
    <3>3. UNCHANGED Pending
      BY <1>10 DEF KilledClear, Pending
    <3> QED BY <3>1, <3>2, <3>3, <1>13
  <2> QED BY <2>3, <2>4
<1>11. CASE EditSources \/ PlaceAnswer \/ Tick \/ UNCHANGED vars
  <2>1. UNCHANGED <<report, decision, torn, cmd>>
    BY <1>11 DEF EditSources, PlaceAnswer, Tick, vars, files
  <2> QED BY <2>1, <1>13 DEF Claim, Pending
<1> QED
  BY <1>1, <1>2, <1>3, <1>4, <1>5, <1>6, <1>7, <1>8, <1>9, <1>10, <1>11 DEF Next

\* The handoff implements MappedClaim.
THEOREM HandoffImplementsClaim == Spec => ClaimSpec
BY HandoffInvariant, ClaimsInit, ClaimsNext, PTL DEF Spec, ClaimSpec, Claims!Spec
=============================================================================
