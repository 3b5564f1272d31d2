------------------------ MODULE EvidenceArchive_proofs ------------------------
(* EvidenceArchive for any number of processes, sources and replaced anchors.  *)
EXTENDS EvidenceArchive, TLAPS

USE ArchiveAssumption DEF archive, writer, history, Quiet, Goto, Acquire, Release,
    Forget, Raise, Touch, Mutate, Valid, Free, Holders

\* Which step goes with which lock, layout entry and verdict.
Phases ==
  \A p \in Procs :
    /\ pc[p] \in WriterSteps => mode[p] = "exclusive" /\ source[p] \in Sources
    /\ pc[p] \in ScannerSteps => mode[p] = "shared" /\ stage[p] \in 1..4
    /\ pc[p] \notin WriterSteps => ~touched[p] /\ ~visible[p]
    /\ pc[p] = "idle" => stage[p] = 1
    /\ rejecting[p] => stage[p] = 6 /\ pc[p] \notin {"layout", "mkdir", "decide"}
    /\ pc[p] \in {"layout", "mkdir"} => stage[p] \in 1..5
    /\ pc[p] \in {"target", "temp", "ready", "link", "cleanup"} => stage[p] \in {2, 6}
    /\ pc[p] \in {"target", "temp", "ready", "link"} /\ stage[p] = 6
         => rejecting[p] \/ source[p] \notin Malformed
    /\ pc[p] \in {"decide", "verify", "complete"} => stage[p] = 6

LEMMA StepTypeOK ==
  ASSUME TypeOK, Phases, [Next]_vars
  PROVE  TypeOK'
<1> USE DEF TypeOK, Exits, Links, WriterSteps, ScannerSteps, Entries
<1>1. ASSUME NEW p \in Procs, NEW s \in Sources, BeginIngest(p, s)
      PROVE  TypeOK'
  BY <1>1 DEF BeginIngest
<1>2. ASSUME NEW p \in Procs, FindEntry(p)
      PROVE  TypeOK'
  <2>1. stage' \in [Procs -> 1..6]
    BY <1>2, SMTT(40) DEF FindEntry
  <2>2. pc' \in [Procs -> {"layout", "decide"} \cup {"idle"} \cup WriterSteps \cup ScannerSteps]
    BY <1>2 DEF FindEntry
  <2> QED
    BY <1>2, <2>1, <2>2 DEF FindEntry
<1>3. ASSUME NEW p \in Procs, MissEntry(p)
      PROVE  TypeOK'
  BY <1>3 DEF MissEntry
<1>4. ASSUME NEW p \in Procs, MakeDirectory(p)
      PROVE  TypeOK'
  <2>1. layout' \in 0..5
    BY <1>4 DEF MakeDirectory, Phases
  <2>2. late' \in [Procs -> 0..2]
    BY <1>4 DEF MakeDirectory
  <2> QED
    BY <1>4, <2>1, <2>2 DEF MakeDirectory
<1>5. ASSUME NEW p \in Procs, Keep(p)
      PROVE  TypeOK'
  BY <1>5 DEF Keep
<1>6. ASSUME NEW p \in Procs, Refuse(p)
      PROVE  TypeOK'
  BY <1>6 DEF Refuse
<1>7. ASSUME NEW p \in Procs, CheckTarget(p)
      PROVE  TypeOK'
  BY <1>7 DEF CheckTarget
<1>8. ASSUME NEW p \in Procs, CreateTemp(p)
      PROVE  TypeOK'
  BY <1>8 DEF CreateTemp
<1>9. ASSUME NEW p \in Procs, CheckLink(p)
      PROVE  TypeOK'
  BY <1>9 DEF CheckLink
<1>10. ASSUME NEW p \in Procs, Link(p)
      PROVE  TypeOK'
  <2>1. source[p] \in Sources /\ stage[p] \in {2, 6}
    BY <1>10 DEF Link, Phases
  <2>2. ~OfLayout(p) /\ ~rejecting[p] => source[p] \notin Malformed
    BY <1>10, <2>1 DEF Link, Phases, OfLayout
  <2>3. /\ layout' \in 0..5 /\ records' \subseteq Sources \ Malformed
       /\ records \subseteq records' /\ rejects' \subseteq Sources
    BY <1>10, <2>1, <2>2 DEF Link
  <2>4. late' \in [Procs -> 0..2]
    BY <1>10 DEF Link
  <2> QED
    BY <1>10, <2>1, <2>2, <2>3, <2>4 DEF Link
<1>11. ASSUME NEW p \in Procs, LinkExists(p)
      PROVE  TypeOK'
  BY <1>11 DEF LinkExists
<1>12. ASSUME NEW p \in Procs, LinkRaises(p)
      PROVE  TypeOK'
  BY <1>12 DEF LinkRaises
<1>13. ASSUME NEW p \in Procs, Cleanup(p)
      PROVE  TypeOK'
  <2>1. AfterCleanup(p) \in WriterSteps
    BY DEF AfterCleanup
  <2>2. temp' \in [Procs -> BOOLEAN]
    BY <1>13 DEF Cleanup
  <2>3. pc' \in [Procs -> {"idle"} \cup WriterSteps \cup ScannerSteps]
    BY <1>13, <2>1 DEF Cleanup
  <2> QED
    BY <1>13, <2>1, <2>2, <2>3 DEF Cleanup
<1>14. ASSUME NEW p \in Procs, LeaveTemp(p)
      PROVE  TypeOK'
  BY <1>14 DEF LeaveTemp
<1>15. ASSUME NEW p \in Procs, DropTemp(p)
      PROVE  TypeOK'
  BY <1>15 DEF DropTemp
<1>16. ASSUME NEW p \in Procs, VerifyDuplicate(p)
      PROVE  TypeOK'
  BY <1>16 DEF VerifyDuplicate
<1>17. ASSUME NEW p \in Procs, Complete(p)
      PROVE  TypeOK'
  BY <1>17 DEF Complete
<1>18. ASSUME NEW p \in Procs, Fail(p)
      PROVE  TypeOK'
  BY <1>18 DEF Fail
<1>19. ASSUME NEW p \in Procs, BeginScan(p)
      PROVE  TypeOK'
  BY <1>19 DEF BeginScan
<1>20. ASSUME NEW p \in Procs, ListDirectory(p)
      PROVE  TypeOK'
  <2>1. stage[p] \in 1..4
    BY <1>20 DEF ListDirectory, Phases
  <2>2. Content(stage[p]) \subseteq Entries \cup Sources
    BY <2>1, 1..layout \subseteq 1..5 DEF Content
  <2>3. snap' \in [Procs -> [1..4 -> SUBSET (Entries \cup Sources)]]
    BY <1>20, <2>1, <2>2 DEF ListDirectory
  <2>4. stage' \in {stage, [stage EXCEPT ![p] = @ + 1]}
    BY <1>20 DEF ListDirectory
  <2>5. stage' \in [Procs -> 1..6]
    BY <2>1, <2>4
  <2>6. pc' \in [Procs -> {"idle"} \cup WriterSteps \cup ScannerSteps]
    BY <1>20 DEF ListDirectory
  <2>7. \A q \in Procs : /\ (pc'[q] = "idle") = (pc[q] = "idle")
                       /\ temp[q] => pc'[q] = pc[q]
    BY <1>20 DEF ListDirectory
  <2> QED
    BY <1>20, <2>1, <2>2, <2>3, <2>4, <2>5, <2>6, <2>7 DEF ListDirectory
<1>21. ASSUME NEW p \in Procs, ReadRecords(p)
      PROVE  TypeOK'
  <2>1. Turn(p) \in BOOLEAN
    BY DEF Turn, Exact
  <2>2. whole' \in [Procs -> BOOLEAN]
    BY <1>21, <2>1 DEF ReadRecords
  <2>3. stage' \in [Procs -> 1..6]
    BY <1>21 DEF ReadRecords
  <2>4. pc' \in [Procs -> {"idle"} \cup WriterSteps \cup ScannerSteps]
    BY <1>21 DEF ReadRecords
  <2> QED
    BY <1>21, <2>1, <2>2, <2>3, <2>4 DEF ReadRecords
<1>22. ASSUME NEW p \in Procs, CompareDirectory(p)
      PROVE  TypeOK'
  <2>1. stage[p] \in 1..4
    BY <1>22 DEF CompareDirectory, Phases
  <2>2. stage' \in {stage, [stage EXCEPT ![p] = @ + 1]}
    BY <1>22 DEF CompareDirectory
  <2>3. stage' \in [Procs -> 1..6]
    BY <2>1, <2>2
  <2>4. pc' \in [Procs -> {"idle"} \cup WriterSteps \cup ScannerSteps]
    BY <1>22 DEF CompareDirectory
  <2>5. \A q \in Procs : /\ (pc'[q] = "idle") = (pc[q] = "idle")
                       /\ temp[q] => pc'[q] = pc[q]
    BY <1>22 DEF CompareDirectory
  <2> QED
    BY <1>22, <2>1, <2>2, <2>3, <2>4, <2>5 DEF CompareDirectory
<1>23. ASSUME NEW p \in Procs, RereadRecords(p)
      PROVE  TypeOK'
  BY <1>23 DEF RereadRecords
<1>24. ASSUME NEW p \in Procs, Report(p)
      PROVE  TypeOK'
  BY <1>24 DEF Report
<1>25. ASSUME NEW p \in Procs, Findings(p)
      PROVE  TypeOK'
  BY <1>25 DEF Findings
<1>26. ASSUME NEW p \in Procs, Crash(p)
      PROVE  TypeOK'
  BY <1>26 DEF Crash
<1>27. ASSUME NEW p \in Procs, NEW how, Contended(p, how)
      PROVE  TypeOK'
  BY <1>27 DEF Contended
<1>28. CASE ReplaceAnchor
  BY <1>28 DEF ReplaceAnchor
<1>29. CASE Damage
  BY <1>29 DEF Damage
<1>30. CASE UNCHANGED vars
  BY <1>30 DEF vars
<1> QED
  BY <1>1, <1>2, <1>3, <1>4, <1>5, <1>6, <1>7, <1>8, <1>9, <1>10, <1>11, <1>12, <1>13,
     <1>14, <1>15, <1>16, <1>17, <1>18, <1>19, <1>20, <1>21, <1>22, <1>23, <1>24, <1>25, <1>26,
     <1>27, <1>28, <1>29, <1>30
     DEF Next, Ingest, Scan

LEMMA StepPhases ==
  ASSUME TypeOK, Phases, [Next]_vars
  PROVE  Phases'
<1> USE DEF TypeOK, Phases, WriterSteps, ScannerSteps, OfLayout, AfterCleanup
<1>1. ASSUME NEW p \in Procs, NEW s \in Sources, BeginIngest(p, s)
      PROVE  Phases'
  BY <1>1 DEF BeginIngest
<1>2. ASSUME NEW p \in Procs, FindEntry(p)
      PROVE  Phases'
  BY <1>2 DEF FindEntry
<1>3. ASSUME NEW p \in Procs, MissEntry(p)
      PROVE  Phases'
  BY <1>3 DEF MissEntry
<1>4. ASSUME NEW p \in Procs, MakeDirectory(p)
      PROVE  Phases'
  BY <1>4 DEF MakeDirectory
<1>5. ASSUME NEW p \in Procs, Keep(p)
      PROVE  Phases'
  BY <1>5 DEF Keep
<1>6. ASSUME NEW p \in Procs, Refuse(p)
      PROVE  Phases'
  BY <1>6 DEF Refuse
<1>7. ASSUME NEW p \in Procs, CheckTarget(p)
      PROVE  Phases'
  BY <1>7 DEF CheckTarget
<1>8. ASSUME NEW p \in Procs, CreateTemp(p)
      PROVE  Phases'
  BY <1>8 DEF CreateTemp
<1>9. ASSUME NEW p \in Procs, CheckLink(p)
      PROVE  Phases'
  BY <1>9 DEF CheckLink
<1>10. ASSUME NEW p \in Procs, Link(p)
      PROVE  Phases'
  BY <1>10 DEF Link
<1>11. ASSUME NEW p \in Procs, LinkExists(p)
      PROVE  Phases'
  BY <1>11 DEF LinkExists
<1>12. ASSUME NEW p \in Procs, LinkRaises(p)
      PROVE  Phases'
  BY <1>12 DEF LinkRaises
<1>13. ASSUME NEW p \in Procs, Cleanup(p)
      PROVE  Phases'
  BY <1>13 DEF Cleanup
<1>14. ASSUME NEW p \in Procs, LeaveTemp(p)
      PROVE  Phases'
  BY <1>14 DEF LeaveTemp
<1>15. ASSUME NEW p \in Procs, DropTemp(p)
      PROVE  Phases'
  BY <1>15 DEF DropTemp
<1>16. ASSUME NEW p \in Procs, VerifyDuplicate(p)
      PROVE  Phases'
  BY <1>16 DEF VerifyDuplicate
<1>17. ASSUME NEW p \in Procs, Complete(p)
      PROVE  Phases'
  BY <1>17 DEF Complete
<1>18. ASSUME NEW p \in Procs, Fail(p)
      PROVE  Phases'
  BY <1>18 DEF Fail
<1>19. ASSUME NEW p \in Procs, BeginScan(p)
      PROVE  Phases'
  BY <1>19 DEF BeginScan
<1>20. ASSUME NEW p \in Procs, ListDirectory(p)
      PROVE  Phases'
  BY <1>20 DEF ListDirectory
<1>21. ASSUME NEW p \in Procs, ReadRecords(p)
      PROVE  Phases'
  BY <1>21 DEF ReadRecords
<1>22. ASSUME NEW p \in Procs, CompareDirectory(p)
      PROVE  Phases'
  BY <1>22 DEF CompareDirectory
<1>23. ASSUME NEW p \in Procs, RereadRecords(p)
      PROVE  Phases'
  BY <1>23 DEF RereadRecords
<1>24. ASSUME NEW p \in Procs, Report(p)
      PROVE  Phases'
  BY <1>24 DEF Report
<1>25. ASSUME NEW p \in Procs, Findings(p)
      PROVE  Phases'
  BY <1>25 DEF Findings
<1>26. ASSUME NEW p \in Procs, Crash(p)
      PROVE  Phases'
  BY <1>26 DEF Crash
<1>27. ASSUME NEW p \in Procs, NEW how, Contended(p, how)
      PROVE  Phases'
  BY <1>27 DEF Contended
<1>28. CASE ReplaceAnchor
  BY <1>28 DEF ReplaceAnchor
<1>29. CASE Damage
  BY <1>29 DEF Damage
<1>30. CASE UNCHANGED vars
  BY <1>30 DEF vars
<1> QED
  BY <1>1, <1>2, <1>3, <1>4, <1>5, <1>6, <1>7, <1>8, <1>9, <1>10, <1>11, <1>12, <1>13,
     <1>14, <1>15, <1>16, <1>17, <1>18, <1>19, <1>20, <1>21, <1>22, <1>23, <1>24, <1>25, <1>26,
     <1>27, <1>28, <1>29, <1>30
     DEF Next, Ingest, Scan

\* A lock on the present anchor is held by one writer or by readers only.
Leases ==
  /\ \A p \in Procs : lease[p] # None => lease[p] <= anchor
  /\ \A p, q \in Procs :
       p # q /\ lease[p] = lease[q] /\ lease[p] # None
         => mode[p] = "shared" /\ mode[q] = "shared"

LEMMA StepLeases ==
  ASSUME TypeOK, Phases, Leases, [Next]_vars
  PROVE  Leases'
<1> USE DEF TypeOK, Phases, WriterSteps, ScannerSteps, Leases
<1>1. ASSUME NEW p \in Procs, NEW s \in Sources, BeginIngest(p, s)
      PROVE  Leases'
  BY <1>1 DEF BeginIngest
<1>2. ASSUME NEW p \in Procs, FindEntry(p)
      PROVE  Leases'
  BY <1>2 DEF FindEntry
<1>3. ASSUME NEW p \in Procs, MissEntry(p)
      PROVE  Leases'
  BY <1>3 DEF MissEntry
<1>4. ASSUME NEW p \in Procs, MakeDirectory(p)
      PROVE  Leases'
  BY <1>4 DEF MakeDirectory
<1>5. ASSUME NEW p \in Procs, Keep(p)
      PROVE  Leases'
  BY <1>5 DEF Keep
<1>6. ASSUME NEW p \in Procs, Refuse(p)
      PROVE  Leases'
  BY <1>6 DEF Refuse
<1>7. ASSUME NEW p \in Procs, CheckTarget(p)
      PROVE  Leases'
  BY <1>7 DEF CheckTarget
<1>8. ASSUME NEW p \in Procs, CreateTemp(p)
      PROVE  Leases'
  BY <1>8 DEF CreateTemp
<1>9. ASSUME NEW p \in Procs, CheckLink(p)
      PROVE  Leases'
  BY <1>9 DEF CheckLink
<1>10. ASSUME NEW p \in Procs, Link(p)
      PROVE  Leases'
  BY <1>10 DEF Link
<1>11. ASSUME NEW p \in Procs, LinkExists(p)
      PROVE  Leases'
  BY <1>11 DEF LinkExists
<1>12. ASSUME NEW p \in Procs, LinkRaises(p)
      PROVE  Leases'
  BY <1>12 DEF LinkRaises
<1>13. ASSUME NEW p \in Procs, Cleanup(p)
      PROVE  Leases'
  BY <1>13 DEF Cleanup
<1>14. ASSUME NEW p \in Procs, LeaveTemp(p)
      PROVE  Leases'
  BY <1>14 DEF LeaveTemp
<1>15. ASSUME NEW p \in Procs, DropTemp(p)
      PROVE  Leases'
  BY <1>15 DEF DropTemp
<1>16. ASSUME NEW p \in Procs, VerifyDuplicate(p)
      PROVE  Leases'
  BY <1>16 DEF VerifyDuplicate
<1>17. ASSUME NEW p \in Procs, Complete(p)
      PROVE  Leases'
  BY <1>17 DEF Complete
<1>18. ASSUME NEW p \in Procs, Fail(p)
      PROVE  Leases'
  BY <1>18 DEF Fail
<1>19. ASSUME NEW p \in Procs, BeginScan(p)
      PROVE  Leases'
  BY <1>19 DEF BeginScan
<1>20. ASSUME NEW p \in Procs, ListDirectory(p)
      PROVE  Leases'
  BY <1>20 DEF ListDirectory
<1>21. ASSUME NEW p \in Procs, ReadRecords(p)
      PROVE  Leases'
  BY <1>21 DEF ReadRecords
<1>22. ASSUME NEW p \in Procs, CompareDirectory(p)
      PROVE  Leases'
  BY <1>22 DEF CompareDirectory
<1>23. ASSUME NEW p \in Procs, RereadRecords(p)
      PROVE  Leases'
  BY <1>23 DEF RereadRecords
<1>24. ASSUME NEW p \in Procs, Report(p)
      PROVE  Leases'
  BY <1>24 DEF Report
<1>25. ASSUME NEW p \in Procs, Findings(p)
      PROVE  Leases'
  BY <1>25 DEF Findings
<1>26. ASSUME NEW p \in Procs, Crash(p)
      PROVE  Leases'
  BY <1>26 DEF Crash
<1>27. ASSUME NEW p \in Procs, NEW how, Contended(p, how)
      PROVE  Leases'
  BY <1>27 DEF Contended
<1>28. CASE ReplaceAnchor
  BY <1>28 DEF ReplaceAnchor
<1>29. CASE Damage
  BY <1>29 DEF Damage
<1>30. CASE UNCHANGED vars
  BY <1>30 DEF vars
<1> QED
  BY <1>1, <1>2, <1>3, <1>4, <1>5, <1>6, <1>7, <1>8, <1>9, <1>10, <1>11, <1>12, <1>13,
     <1>14, <1>15, <1>16, <1>17, <1>18, <1>19, <1>20, <1>21, <1>22, <1>23, <1>24, <1>25, <1>26,
     <1>27, <1>28, <1>29, <1>30
     DEF Next, Ingest, Scan

\* After a change under a lost lease, the next thing a writer meets is a check.
Lateness ==
  \A p \in Procs :
    /\ late[p] <= 1
    /\ late[p] = 1 => ~Valid(p) /\ pc[p] \in {"layout", "ready", "cleanup"}

LEMMA StepLateness ==
  ASSUME TypeOK, Phases, Leases, Lateness, [Next]_vars
  PROVE  Lateness'
<1> USE DEF TypeOK, Phases, WriterSteps, ScannerSteps, Leases, Lateness, OfLayout, AfterCleanup
<1>1. ASSUME NEW p \in Procs, NEW s \in Sources, BeginIngest(p, s)
      PROVE  Lateness'
  BY <1>1 DEF BeginIngest
<1>2. ASSUME NEW p \in Procs, FindEntry(p)
      PROVE  Lateness'
  BY <1>2 DEF FindEntry
<1>3. ASSUME NEW p \in Procs, MissEntry(p)
      PROVE  Lateness'
  BY <1>3 DEF MissEntry
<1>4. ASSUME NEW p \in Procs, MakeDirectory(p)
      PROVE  Lateness'
  BY <1>4 DEF MakeDirectory
<1>5. ASSUME NEW p \in Procs, Keep(p)
      PROVE  Lateness'
  BY <1>5 DEF Keep
<1>6. ASSUME NEW p \in Procs, Refuse(p)
      PROVE  Lateness'
  BY <1>6 DEF Refuse
<1>7. ASSUME NEW p \in Procs, CheckTarget(p)
      PROVE  Lateness'
  BY <1>7 DEF CheckTarget
<1>8. ASSUME NEW p \in Procs, CreateTemp(p)
      PROVE  Lateness'
  BY <1>8 DEF CreateTemp
<1>9. ASSUME NEW p \in Procs, CheckLink(p)
      PROVE  Lateness'
  BY <1>9 DEF CheckLink
<1>10. ASSUME NEW p \in Procs, Link(p)
      PROVE  Lateness'
  BY <1>10 DEF Link
<1>11. ASSUME NEW p \in Procs, LinkExists(p)
      PROVE  Lateness'
  BY <1>11 DEF LinkExists
<1>12. ASSUME NEW p \in Procs, LinkRaises(p)
      PROVE  Lateness'
  BY <1>12 DEF LinkRaises
<1>13. ASSUME NEW p \in Procs, Cleanup(p)
      PROVE  Lateness'
  BY <1>13 DEF Cleanup
<1>14. ASSUME NEW p \in Procs, LeaveTemp(p)
      PROVE  Lateness'
  BY <1>14 DEF LeaveTemp
<1>15. ASSUME NEW p \in Procs, DropTemp(p)
      PROVE  Lateness'
  BY <1>15 DEF DropTemp
<1>16. ASSUME NEW p \in Procs, VerifyDuplicate(p)
      PROVE  Lateness'
  BY <1>16 DEF VerifyDuplicate
<1>17. ASSUME NEW p \in Procs, Complete(p)
      PROVE  Lateness'
  BY <1>17 DEF Complete
<1>18. ASSUME NEW p \in Procs, Fail(p)
      PROVE  Lateness'
  BY <1>18 DEF Fail
<1>19. ASSUME NEW p \in Procs, BeginScan(p)
      PROVE  Lateness'
  BY <1>19 DEF BeginScan
<1>20. ASSUME NEW p \in Procs, ListDirectory(p)
      PROVE  Lateness'
  BY <1>20 DEF ListDirectory
<1>21. ASSUME NEW p \in Procs, ReadRecords(p)
      PROVE  Lateness'
  BY <1>21 DEF ReadRecords
<1>22. ASSUME NEW p \in Procs, CompareDirectory(p)
      PROVE  Lateness'
  BY <1>22 DEF CompareDirectory
<1>23. ASSUME NEW p \in Procs, RereadRecords(p)
      PROVE  Lateness'
  BY <1>23 DEF RereadRecords
<1>24. ASSUME NEW p \in Procs, Report(p)
      PROVE  Lateness'
  BY <1>24 DEF Report
<1>25. ASSUME NEW p \in Procs, Findings(p)
      PROVE  Lateness'
  BY <1>25 DEF Findings
<1>26. ASSUME NEW p \in Procs, Crash(p)
      PROVE  Lateness'
  BY <1>26 DEF Crash
<1>27. ASSUME NEW p \in Procs, NEW how, Contended(p, how)
      PROVE  Lateness'
  BY <1>27 DEF Contended
<1>28. CASE ReplaceAnchor
  BY <1>28 DEF ReplaceAnchor
<1>29. CASE Damage
  BY <1>29 DEF Damage
<1>30. CASE UNCHANGED vars
  BY <1>30 DEF vars
<1> QED
  BY <1>1, <1>2, <1>3, <1>4, <1>5, <1>6, <1>7, <1>8, <1>9, <1>10, <1>11, <1>12, <1>13,
     <1>14, <1>15, <1>16, <1>17, <1>18, <1>19, <1>20, <1>21, <1>22, <1>23, <1>24, <1>25, <1>26,
     <1>27, <1>28, <1>29, <1>30
     DEF Next, Ingest, Scan

\* Until the anchor is replaced, the verdict of a decision stays true up to the link.
Decided ==
  \A p \in Procs :
    anchor = 0 /\ pc[p] \in {"target", "temp", "ready", "link"} /\ stage[p] = 6 =>
      IF rejecting[p]
      THEN source[p] \in Malformed \/ Rivals(source[p]) # {}
      ELSE source[p] \notin Malformed /\ Rivals(source[p]) = {}

LEMMA StepDecided ==
  ASSUME TypeOK, Phases, Leases, Decided, [Next]_vars
  PROVE  Decided'
<1> USE DEF TypeOK, Phases, WriterSteps, ScannerSteps, Leases, Decided, Rivals, OfLayout
<1>1. ASSUME NEW p \in Procs, NEW s \in Sources, BeginIngest(p, s)
      PROVE  Decided'
  BY <1>1 DEF BeginIngest
<1>2. ASSUME NEW p \in Procs, FindEntry(p)
      PROVE  Decided'
  BY <1>2 DEF FindEntry
<1>3. ASSUME NEW p \in Procs, MissEntry(p)
      PROVE  Decided'
  BY <1>3 DEF MissEntry
<1>4. ASSUME NEW p \in Procs, MakeDirectory(p)
      PROVE  Decided'
  BY <1>4 DEF MakeDirectory
<1>5. ASSUME NEW p \in Procs, Keep(p)
      PROVE  Decided'
  BY <1>5 DEF Keep
<1>6. ASSUME NEW p \in Procs, Refuse(p)
      PROVE  Decided'
  BY <1>6 DEF Refuse
<1>7. ASSUME NEW p \in Procs, CheckTarget(p)
      PROVE  Decided'
  BY <1>7 DEF CheckTarget
<1>8. ASSUME NEW p \in Procs, CreateTemp(p)
      PROVE  Decided'
  BY <1>8 DEF CreateTemp
<1>9. ASSUME NEW p \in Procs, CheckLink(p)
      PROVE  Decided'
  BY <1>9 DEF CheckLink
<1>10. ASSUME NEW p \in Procs, Link(p)
      PROVE  Decided'
  <2>1. \A q \in Procs \ {p} : anchor = 0 => pc[q] \notin WriterSteps
    BY <1>10, SMTT(40) DEF Link
  <2>2. pc'[p] = "cleanup" /\ \A q \in Procs \ {p} : pc'[q] = pc[q]
    BY <1>10 DEF Link
  <2>3. anchor' = anchor
    BY <1>10 DEF Link
  <2> HIDE DEF TypeOK, Phases, Leases, Rivals, OfLayout
  <2>4. ASSUME anchor' = 0, NEW q \in Procs
        PROVE  pc'[q] \notin {"target", "temp", "ready", "link"}
    BY <2>1, <2>2, <2>3, <2>4
  <2> QED
    BY <2>4
<1>11. ASSUME NEW p \in Procs, LinkExists(p)
      PROVE  Decided'
  BY <1>11 DEF LinkExists
<1>12. ASSUME NEW p \in Procs, LinkRaises(p)
      PROVE  Decided'
  BY <1>12 DEF LinkRaises
<1>13. ASSUME NEW p \in Procs, Cleanup(p)
      PROVE  Decided'
  <2>1. AfterCleanup(p) \notin {"target", "temp", "ready", "link"}
    BY DEF AfterCleanup
  <2> QED
    BY <1>13, <2>1 DEF Cleanup
<1>14. ASSUME NEW p \in Procs, LeaveTemp(p)
      PROVE  Decided'
  BY <1>14 DEF LeaveTemp
<1>15. ASSUME NEW p \in Procs, DropTemp(p)
      PROVE  Decided'
  BY <1>15 DEF DropTemp
<1>16. ASSUME NEW p \in Procs, VerifyDuplicate(p)
      PROVE  Decided'
  BY <1>16 DEF VerifyDuplicate
<1>17. ASSUME NEW p \in Procs, Complete(p)
      PROVE  Decided'
  BY <1>17 DEF Complete
<1>18. ASSUME NEW p \in Procs, Fail(p)
      PROVE  Decided'
  BY <1>18 DEF Fail
<1>19. ASSUME NEW p \in Procs, BeginScan(p)
      PROVE  Decided'
  BY <1>19 DEF BeginScan
<1>20. ASSUME NEW p \in Procs, ListDirectory(p)
      PROVE  Decided'
  BY <1>20 DEF ListDirectory
<1>21. ASSUME NEW p \in Procs, ReadRecords(p)
      PROVE  Decided'
  BY <1>21 DEF ReadRecords
<1>22. ASSUME NEW p \in Procs, CompareDirectory(p)
      PROVE  Decided'
  BY <1>22, SMTT(40) DEF CompareDirectory
<1>23. ASSUME NEW p \in Procs, RereadRecords(p)
      PROVE  Decided'
  BY <1>23 DEF RereadRecords
<1>24. ASSUME NEW p \in Procs, Report(p)
      PROVE  Decided'
  BY <1>24 DEF Report
<1>25. ASSUME NEW p \in Procs, Findings(p)
      PROVE  Decided'
  BY <1>25 DEF Findings
<1>26. ASSUME NEW p \in Procs, Crash(p)
      PROVE  Decided'
  BY <1>26 DEF Crash
<1>27. ASSUME NEW p \in Procs, NEW how, Contended(p, how)
      PROVE  Decided'
  BY <1>27 DEF Contended
<1>28. CASE ReplaceAnchor
  BY <1>28 DEF ReplaceAnchor
<1>29. CASE Damage
  BY <1>29 DEF Damage
<1>30. CASE UNCHANGED vars
  BY <1>30 DEF vars
<1> QED
  BY <1>1, <1>2, <1>3, <1>4, <1>5, <1>6, <1>7, <1>8, <1>9, <1>10, <1>11, <1>12, <1>13,
     <1>14, <1>15, <1>16, <1>17, <1>18, <1>19, <1>20, <1>21, <1>22, <1>23, <1>24, <1>25, <1>26,
     <1>27, <1>28, <1>29, <1>30
     DEF Next, Ingest, Scan

LEMMA StepUnique ==
  ASSUME TypeOK, Phases, Leases, Decided, OneRecordPerId, [Next]_vars
  PROVE  OneRecordPerId'
<1> USE DEF TypeOK, Phases, WriterSteps, ScannerSteps, Leases, Decided, Rivals, OfLayout, OneRecordPerId, Conflicting
<1>1. ASSUME NEW p \in Procs, NEW s \in Sources, BeginIngest(p, s)
      PROVE  OneRecordPerId'
  BY <1>1 DEF BeginIngest
<1>2. ASSUME NEW p \in Procs, FindEntry(p)
      PROVE  OneRecordPerId'
  BY <1>2 DEF FindEntry
<1>3. ASSUME NEW p \in Procs, MissEntry(p)
      PROVE  OneRecordPerId'
  BY <1>3 DEF MissEntry
<1>4. ASSUME NEW p \in Procs, MakeDirectory(p)
      PROVE  OneRecordPerId'
  BY <1>4 DEF MakeDirectory
<1>5. ASSUME NEW p \in Procs, Keep(p)
      PROVE  OneRecordPerId'
  BY <1>5 DEF Keep
<1>6. ASSUME NEW p \in Procs, Refuse(p)
      PROVE  OneRecordPerId'
  BY <1>6 DEF Refuse
<1>7. ASSUME NEW p \in Procs, CheckTarget(p)
      PROVE  OneRecordPerId'
  BY <1>7 DEF CheckTarget
<1>8. ASSUME NEW p \in Procs, CreateTemp(p)
      PROVE  OneRecordPerId'
  BY <1>8 DEF CreateTemp
<1>9. ASSUME NEW p \in Procs, CheckLink(p)
      PROVE  OneRecordPerId'
  BY <1>9 DEF CheckLink
<1>10. ASSUME NEW p \in Procs, Link(p)
      PROVE  OneRecordPerId'
  BY <1>10 DEF Link
<1>11. ASSUME NEW p \in Procs, LinkExists(p)
      PROVE  OneRecordPerId'
  BY <1>11 DEF LinkExists
<1>12. ASSUME NEW p \in Procs, LinkRaises(p)
      PROVE  OneRecordPerId'
  BY <1>12 DEF LinkRaises
<1>13. ASSUME NEW p \in Procs, Cleanup(p)
      PROVE  OneRecordPerId'
  BY <1>13 DEF Cleanup
<1>14. ASSUME NEW p \in Procs, LeaveTemp(p)
      PROVE  OneRecordPerId'
  BY <1>14 DEF LeaveTemp
<1>15. ASSUME NEW p \in Procs, DropTemp(p)
      PROVE  OneRecordPerId'
  BY <1>15 DEF DropTemp
<1>16. ASSUME NEW p \in Procs, VerifyDuplicate(p)
      PROVE  OneRecordPerId'
  BY <1>16 DEF VerifyDuplicate
<1>17. ASSUME NEW p \in Procs, Complete(p)
      PROVE  OneRecordPerId'
  BY <1>17 DEF Complete
<1>18. ASSUME NEW p \in Procs, Fail(p)
      PROVE  OneRecordPerId'
  BY <1>18 DEF Fail
<1>19. ASSUME NEW p \in Procs, BeginScan(p)
      PROVE  OneRecordPerId'
  BY <1>19 DEF BeginScan
<1>20. ASSUME NEW p \in Procs, ListDirectory(p)
      PROVE  OneRecordPerId'
  BY <1>20 DEF ListDirectory
<1>21. ASSUME NEW p \in Procs, ReadRecords(p)
      PROVE  OneRecordPerId'
  BY <1>21 DEF ReadRecords
<1>22. ASSUME NEW p \in Procs, CompareDirectory(p)
      PROVE  OneRecordPerId'
  BY <1>22 DEF CompareDirectory
<1>23. ASSUME NEW p \in Procs, RereadRecords(p)
      PROVE  OneRecordPerId'
  BY <1>23 DEF RereadRecords
<1>24. ASSUME NEW p \in Procs, Report(p)
      PROVE  OneRecordPerId'
  BY <1>24 DEF Report
<1>25. ASSUME NEW p \in Procs, Findings(p)
      PROVE  OneRecordPerId'
  BY <1>25 DEF Findings
<1>26. ASSUME NEW p \in Procs, Crash(p)
      PROVE  OneRecordPerId'
  BY <1>26 DEF Crash
<1>27. ASSUME NEW p \in Procs, NEW how, Contended(p, how)
      PROVE  OneRecordPerId'
  BY <1>27 DEF Contended
<1>28. CASE ReplaceAnchor
  BY <1>28 DEF ReplaceAnchor
<1>29. CASE Damage
  BY <1>29 DEF Damage
<1>30. CASE UNCHANGED vars
  BY <1>30 DEF vars
<1> QED
  BY <1>1, <1>2, <1>3, <1>4, <1>5, <1>6, <1>7, <1>8, <1>9, <1>10, <1>11, <1>12, <1>13,
     <1>14, <1>15, <1>16, <1>17, <1>18, <1>19, <1>20, <1>21, <1>22, <1>23, <1>24, <1>25, <1>26,
     <1>27, <1>28, <1>29, <1>30
     DEF Next, Ingest, Scan

\* What a writer is about to report is on file, and the tracker knows what it did.
Reported ==
  \A p \in Procs :
    /\ touched[p] => visible[p]
    /\ pc[p] = "cleanup" /\ stage[p] = 6 /\ link[p] # "raised" => Taken(p)
    /\ pc[p] = "verify" => source[p] \in records
    /\ pc[p] = "complete" => source[p] \in records \cup rejects

LEMMA StepReported ==
  ASSUME TypeOK, Phases, Reported, [Next]_vars
  PROVE  Reported'
<1> USE DEF TypeOK, Phases, WriterSteps, ScannerSteps, Reported, OfLayout, AfterCleanup, Taken
<1>1. ASSUME NEW p \in Procs, NEW s \in Sources, BeginIngest(p, s)
      PROVE  Reported'
  BY <1>1 DEF BeginIngest
<1>2. ASSUME NEW p \in Procs, FindEntry(p)
      PROVE  Reported'
  BY <1>2 DEF FindEntry
<1>3. ASSUME NEW p \in Procs, MissEntry(p)
      PROVE  Reported'
  BY <1>3 DEF MissEntry
<1>4. ASSUME NEW p \in Procs, MakeDirectory(p)
      PROVE  Reported'
  BY <1>4 DEF MakeDirectory
<1>5. ASSUME NEW p \in Procs, Keep(p)
      PROVE  Reported'
  BY <1>5 DEF Keep
<1>6. ASSUME NEW p \in Procs, Refuse(p)
      PROVE  Reported'
  BY <1>6 DEF Refuse
<1>7. ASSUME NEW p \in Procs, CheckTarget(p)
      PROVE  Reported'
  BY <1>7 DEF CheckTarget
<1>8. ASSUME NEW p \in Procs, CreateTemp(p)
      PROVE  Reported'
  BY <1>8 DEF CreateTemp
<1>9. ASSUME NEW p \in Procs, CheckLink(p)
      PROVE  Reported'
  BY <1>9 DEF CheckLink
<1>10. ASSUME NEW p \in Procs, Link(p)
      PROVE  Reported'
  BY <1>10 DEF Link
<1>11. ASSUME NEW p \in Procs, LinkExists(p)
      PROVE  Reported'
  BY <1>11 DEF LinkExists
<1>12. ASSUME NEW p \in Procs, LinkRaises(p)
      PROVE  Reported'
  BY <1>12 DEF LinkRaises
<1>13. ASSUME NEW p \in Procs, Cleanup(p)
      PROVE  Reported'
  BY <1>13 DEF Cleanup
<1>14. ASSUME NEW p \in Procs, LeaveTemp(p)
      PROVE  Reported'
  BY <1>14 DEF LeaveTemp
<1>15. ASSUME NEW p \in Procs, DropTemp(p)
      PROVE  Reported'
  BY <1>15 DEF DropTemp
<1>16. ASSUME NEW p \in Procs, VerifyDuplicate(p)
      PROVE  Reported'
  BY <1>16 DEF VerifyDuplicate
<1>17. ASSUME NEW p \in Procs, Complete(p)
      PROVE  Reported'
  BY <1>17 DEF Complete
<1>18. ASSUME NEW p \in Procs, Fail(p)
      PROVE  Reported'
  BY <1>18 DEF Fail
<1>19. ASSUME NEW p \in Procs, BeginScan(p)
      PROVE  Reported'
  BY <1>19 DEF BeginScan
<1>20. ASSUME NEW p \in Procs, ListDirectory(p)
      PROVE  Reported'
  BY <1>20 DEF ListDirectory
<1>21. ASSUME NEW p \in Procs, ReadRecords(p)
      PROVE  Reported'
  BY <1>21 DEF ReadRecords
<1>22. ASSUME NEW p \in Procs, CompareDirectory(p)
      PROVE  Reported'
  BY <1>22 DEF CompareDirectory
<1>23. ASSUME NEW p \in Procs, RereadRecords(p)
      PROVE  Reported'
  BY <1>23 DEF RereadRecords
<1>24. ASSUME NEW p \in Procs, Report(p)
      PROVE  Reported'
  BY <1>24 DEF Report
<1>25. ASSUME NEW p \in Procs, Findings(p)
      PROVE  Reported'
  BY <1>25 DEF Findings
<1>26. ASSUME NEW p \in Procs, Crash(p)
      PROVE  Reported'
  BY <1>26 DEF Crash
<1>27. ASSUME NEW p \in Procs, NEW how, Contended(p, how)
      PROVE  Reported'
  BY <1>27 DEF Contended
<1>28. CASE ReplaceAnchor
  BY <1>28 DEF ReplaceAnchor
<1>29. CASE Damage
  BY <1>29 DEF Damage
<1>30. CASE UNCHANGED vars
  BY <1>30 DEF vars
<1> QED
  BY <1>1, <1>2, <1>3, <1>4, <1>5, <1>6, <1>7, <1>8, <1>9, <1>10, <1>11, <1>12, <1>13,
     <1>14, <1>15, <1>16, <1>17, <1>18, <1>19, <1>20, <1>21, <1>22, <1>23, <1>24, <1>25, <1>26,
     <1>27, <1>28, <1>29, <1>30
     DEF Next, Ingest, Scan

\* Something a second reading of p cannot miss, and that no step under a valid
\* lease of p takes away.
Tainted(p) ==
  \/ litter
  \/ \E q \in Procs : temp[q] /\ ~Valid(q)
  \/ \E d \in 1..4 : snap[p][d] # Content(d)

\* A scan lists no more than the archive holds, and one that gets through its second
\* reading had listed it exactly.
Scanned ==
  \A p \in Procs :
    /\ \A d \in 1..4 : snap[p][d] \subseteq Content(d)
    /\ pc[p] \in {"relist", "reread"} /\ Valid(p) => whole[p] \/ Tainted(p)
    /\ pc[p] = "report" /\ Valid(p) => whole[p]
    /\ pc[p] = "report" /\ anchor = 0 => Exact(p)

\* What no step undoes.  A lost lease can neither be won back nor clean up.
Grows ==
  /\ layout <= layout' /\ records \subseteq records' /\ rejects \subseteq rejects'
  /\ (litter => litter') /\ anchor <= anchor'
  /\ \A q \in Procs : temp[q] /\ ~Valid(q) => litter' \/ (temp'[q] /\ lease'[q] # anchor')

LEMMA StepGrows ==
  ASSUME TypeOK, Phases, Leases, [Next]_vars
  PROVE  Grows
<1> USE DEF TypeOK, Phases, WriterSteps, ScannerSteps, Leases, Grows
<1>1. ASSUME NEW p \in Procs, NEW s \in Sources, BeginIngest(p, s)
      PROVE  Grows
  BY <1>1 DEF BeginIngest
<1>2. ASSUME NEW p \in Procs, FindEntry(p)
      PROVE  Grows
  BY <1>2 DEF FindEntry
<1>3. ASSUME NEW p \in Procs, MissEntry(p)
      PROVE  Grows
  BY <1>3 DEF MissEntry
<1>4. ASSUME NEW p \in Procs, MakeDirectory(p)
      PROVE  Grows
  BY <1>4 DEF MakeDirectory
<1>5. ASSUME NEW p \in Procs, Keep(p)
      PROVE  Grows
  BY <1>5 DEF Keep
<1>6. ASSUME NEW p \in Procs, Refuse(p)
      PROVE  Grows
  BY <1>6 DEF Refuse
<1>7. ASSUME NEW p \in Procs, CheckTarget(p)
      PROVE  Grows
  BY <1>7 DEF CheckTarget
<1>8. ASSUME NEW p \in Procs, CreateTemp(p)
      PROVE  Grows
  BY <1>8 DEF CreateTemp
<1>9. ASSUME NEW p \in Procs, CheckLink(p)
      PROVE  Grows
  BY <1>9 DEF CheckLink
<1>10. ASSUME NEW p \in Procs, Link(p)
      PROVE  Grows
  BY <1>10 DEF Link, Taken, OfLayout
<1>11. ASSUME NEW p \in Procs, LinkExists(p)
      PROVE  Grows
  BY <1>11 DEF LinkExists
<1>12. ASSUME NEW p \in Procs, LinkRaises(p)
      PROVE  Grows
  BY <1>12 DEF LinkRaises
<1>13. ASSUME NEW p \in Procs, Cleanup(p)
      PROVE  Grows
  BY <1>13 DEF Cleanup
<1>14. ASSUME NEW p \in Procs, LeaveTemp(p)
      PROVE  Grows
  BY <1>14 DEF LeaveTemp
<1>15. ASSUME NEW p \in Procs, DropTemp(p)
      PROVE  Grows
  BY <1>15 DEF DropTemp
<1>16. ASSUME NEW p \in Procs, VerifyDuplicate(p)
      PROVE  Grows
  BY <1>16 DEF VerifyDuplicate
<1>17. ASSUME NEW p \in Procs, Complete(p)
      PROVE  Grows
  BY <1>17 DEF Complete
<1>18. ASSUME NEW p \in Procs, Fail(p)
      PROVE  Grows
  <2>1. ~temp[p] /\ \A q \in Procs \ {p} : temp'[q] = temp[q] /\ lease'[q] = lease[q]
    BY <1>18 DEF Fail
  <2> QED
    BY <1>18, <2>1 DEF Fail
<1>19. ASSUME NEW p \in Procs, BeginScan(p)
      PROVE  Grows
  BY <1>19 DEF BeginScan
<1>20. ASSUME NEW p \in Procs, ListDirectory(p)
      PROVE  Grows
  BY <1>20 DEF ListDirectory
<1>21. ASSUME NEW p \in Procs, ReadRecords(p)
      PROVE  Grows
  BY <1>21 DEF ReadRecords
<1>22. ASSUME NEW p \in Procs, CompareDirectory(p)
      PROVE  Grows
  BY <1>22 DEF CompareDirectory
<1>23. ASSUME NEW p \in Procs, RereadRecords(p)
      PROVE  Grows
  BY <1>23 DEF RereadRecords
<1>24. ASSUME NEW p \in Procs, Report(p)
      PROVE  Grows
  BY <1>24 DEF Report
<1>25. ASSUME NEW p \in Procs, Findings(p)
      PROVE  Grows
  BY <1>25, SMTT(40) DEF Findings
<1>26. ASSUME NEW p \in Procs, Crash(p)
      PROVE  Grows
  BY <1>26 DEF Crash
<1>27. ASSUME NEW p \in Procs, NEW how, Contended(p, how)
      PROVE  Grows
  BY <1>27 DEF Contended
<1>28. CASE ReplaceAnchor
  BY <1>28 DEF ReplaceAnchor
<1>29. CASE Damage
  BY <1>29 DEF Damage
<1>30. CASE UNCHANGED vars
  BY <1>30 DEF vars
<1> QED
  BY <1>1, <1>2, <1>3, <1>4, <1>5, <1>6, <1>7, <1>8, <1>9, <1>10, <1>11, <1>12, <1>13,
     <1>14, <1>15, <1>16, <1>17, <1>18, <1>19, <1>20, <1>21, <1>22, <1>23, <1>24, <1>25, <1>26,
     <1>27, <1>28, <1>29, <1>30
     DEF Next, Ingest, Scan

\* Before the anchor is replaced, a scan keeps every writer out.
Calm ==
  (\E o \in Procs : pc[o] \in ScannerSteps) /\ anchor = 0 =>
    UNCHANGED <<layout, records, rejects, litter, temp>>

LEMMA StepCalm ==
  ASSUME TypeOK, Phases, Leases, [Next]_vars
  PROVE  Calm
<1> SUFFICES ASSUME NEW o \in Procs, pc[o] \in ScannerSteps, anchor = 0
             PROVE  UNCHANGED <<layout, records, rejects, litter, temp>>
  BY DEF Calm
<1>0. \A q \in Procs : pc[q] \notin WriterSteps /\ ~temp[q]
  <2>1. ASSUME NEW q \in Procs, pc[q] # "idle" PROVE lease[q] = 0
    <3>1. lease[q] \in Nat /\ lease[q] <= 0
      BY <2>1 DEF TypeOK, Leases
    <3> QED
      BY <3>1
  <2>2. lease[o] = 0 /\ None # 0
    BY <2>1 DEF ScannerSteps
  <2>3. \A q \in Procs : pc[q] # "idle" => mode[q] = "shared"
    BY <2>1, <2>2 DEF Phases, Leases
  <2> QED
    BY <2>3 DEF TypeOK, Phases, WriterSteps
<1> USE <1>0 DEF TypeOK, WriterSteps, ScannerSteps
<1>1. ASSUME NEW p \in Procs, NEW s \in Sources, BeginIngest(p, s)
      PROVE  UNCHANGED <<layout, records, rejects, litter, temp>>
  BY <1>1 DEF BeginIngest
<1>2. ASSUME NEW p \in Procs, FindEntry(p)
      PROVE  UNCHANGED <<layout, records, rejects, litter, temp>>
  BY <1>2 DEF FindEntry
<1>3. ASSUME NEW p \in Procs, MissEntry(p)
      PROVE  UNCHANGED <<layout, records, rejects, litter, temp>>
  BY <1>3 DEF MissEntry
<1>4. ASSUME NEW p \in Procs, MakeDirectory(p)
      PROVE  UNCHANGED <<layout, records, rejects, litter, temp>>
  BY <1>4 DEF MakeDirectory
<1>5. ASSUME NEW p \in Procs, Keep(p)
      PROVE  UNCHANGED <<layout, records, rejects, litter, temp>>
  BY <1>5 DEF Keep
<1>6. ASSUME NEW p \in Procs, Refuse(p)
      PROVE  UNCHANGED <<layout, records, rejects, litter, temp>>
  BY <1>6 DEF Refuse
<1>7. ASSUME NEW p \in Procs, CheckTarget(p)
      PROVE  UNCHANGED <<layout, records, rejects, litter, temp>>
  BY <1>7 DEF CheckTarget
<1>8. ASSUME NEW p \in Procs, CreateTemp(p)
      PROVE  UNCHANGED <<layout, records, rejects, litter, temp>>
  BY <1>8 DEF CreateTemp
<1>9. ASSUME NEW p \in Procs, CheckLink(p)
      PROVE  UNCHANGED <<layout, records, rejects, litter, temp>>
  BY <1>9 DEF CheckLink
<1>10. ASSUME NEW p \in Procs, Link(p)
      PROVE  UNCHANGED <<layout, records, rejects, litter, temp>>
  BY <1>10 DEF Link
<1>11. ASSUME NEW p \in Procs, LinkExists(p)
      PROVE  UNCHANGED <<layout, records, rejects, litter, temp>>
  BY <1>11 DEF LinkExists
<1>12. ASSUME NEW p \in Procs, LinkRaises(p)
      PROVE  UNCHANGED <<layout, records, rejects, litter, temp>>
  BY <1>12 DEF LinkRaises
<1>13. ASSUME NEW p \in Procs, Cleanup(p)
      PROVE  UNCHANGED <<layout, records, rejects, litter, temp>>
  BY <1>13 DEF Cleanup
<1>14. ASSUME NEW p \in Procs, LeaveTemp(p)
      PROVE  UNCHANGED <<layout, records, rejects, litter, temp>>
  BY <1>14 DEF LeaveTemp
<1>15. ASSUME NEW p \in Procs, DropTemp(p)
      PROVE  UNCHANGED <<layout, records, rejects, litter, temp>>
  BY <1>15 DEF DropTemp
<1>16. ASSUME NEW p \in Procs, VerifyDuplicate(p)
      PROVE  UNCHANGED <<layout, records, rejects, litter, temp>>
  BY <1>16 DEF VerifyDuplicate
<1>17. ASSUME NEW p \in Procs, Complete(p)
      PROVE  UNCHANGED <<layout, records, rejects, litter, temp>>
  BY <1>17 DEF Complete
<1>18. ASSUME NEW p \in Procs, Fail(p)
      PROVE  UNCHANGED <<layout, records, rejects, litter, temp>>
  BY <1>18 DEF Fail
<1>19. ASSUME NEW p \in Procs, BeginScan(p)
      PROVE  UNCHANGED <<layout, records, rejects, litter, temp>>
  BY <1>19 DEF BeginScan
<1>20. ASSUME NEW p \in Procs, ListDirectory(p)
      PROVE  UNCHANGED <<layout, records, rejects, litter, temp>>
  BY <1>20 DEF ListDirectory
<1>21. ASSUME NEW p \in Procs, ReadRecords(p)
      PROVE  UNCHANGED <<layout, records, rejects, litter, temp>>
  BY <1>21 DEF ReadRecords
<1>22. ASSUME NEW p \in Procs, CompareDirectory(p)
      PROVE  UNCHANGED <<layout, records, rejects, litter, temp>>
  BY <1>22 DEF CompareDirectory
<1>23. ASSUME NEW p \in Procs, RereadRecords(p)
      PROVE  UNCHANGED <<layout, records, rejects, litter, temp>>
  BY <1>23 DEF RereadRecords
<1>24. ASSUME NEW p \in Procs, Report(p)
      PROVE  UNCHANGED <<layout, records, rejects, litter, temp>>
  BY <1>24 DEF Report
<1>25. ASSUME NEW p \in Procs, Findings(p)
      PROVE  UNCHANGED <<layout, records, rejects, litter, temp>>
  BY <1>25 DEF Findings
<1>26. ASSUME NEW p \in Procs, Crash(p)
      PROVE  UNCHANGED <<layout, records, rejects, litter, temp>>
  BY <1>26 DEF Crash
<1>27. ASSUME NEW p \in Procs, NEW how, Contended(p, how)
      PROVE  UNCHANGED <<layout, records, rejects, litter, temp>>
  BY <1>27 DEF Contended
<1>28. CASE ReplaceAnchor
  BY <1>28 DEF ReplaceAnchor
<1>29. CASE Damage
  BY <1>29 DEF Damage
<1>30. CASE UNCHANGED vars
  BY <1>30 DEF vars
<1> QED
  BY <1>1, <1>2, <1>3, <1>4, <1>5, <1>6, <1>7, <1>8, <1>9, <1>10, <1>11, <1>12, <1>13,
     <1>14, <1>15, <1>16, <1>17, <1>18, <1>19, <1>20, <1>21, <1>22, <1>23, <1>24, <1>25, <1>26,
     <1>27, <1>28, <1>29, <1>30
     DEF Next, Ingest, Scan

\* What a step does to what a scan has seen.
Moves(o) ==
  \/ UNCHANGED <<pc[o], snap[o], whole[o], lease[o]>>
  \/ /\ pc'[o] \notin {"relist", "reread", "report"}
     /\ \A d \in 1..4 : snap'[o][d] \in {{}, snap[o][d], Content(d)}
  \/ ReadRecords(o) \/ CompareDirectory(o) \/ RereadRecords(o)

LEMMA StepMoves ==
  ASSUME TypeOK, Phases, [Next]_vars
  PROVE  \A o \in Procs : Moves(o)
<1> USE DEF TypeOK, Phases, WriterSteps, ScannerSteps, Moves
<1>1. ASSUME NEW p \in Procs, NEW s \in Sources, BeginIngest(p, s)
      PROVE  \A o \in Procs : Moves(o)
  BY <1>1 DEF BeginIngest
<1>2. ASSUME NEW p \in Procs, FindEntry(p)
      PROVE  \A o \in Procs : Moves(o)
  BY <1>2 DEF FindEntry
<1>3. ASSUME NEW p \in Procs, MissEntry(p)
      PROVE  \A o \in Procs : Moves(o)
  BY <1>3 DEF MissEntry
<1>4. ASSUME NEW p \in Procs, MakeDirectory(p)
      PROVE  \A o \in Procs : Moves(o)
  BY <1>4 DEF MakeDirectory
<1>5. ASSUME NEW p \in Procs, Keep(p)
      PROVE  \A o \in Procs : Moves(o)
  BY <1>5 DEF Keep
<1>6. ASSUME NEW p \in Procs, Refuse(p)
      PROVE  \A o \in Procs : Moves(o)
  BY <1>6 DEF Refuse
<1>7. ASSUME NEW p \in Procs, CheckTarget(p)
      PROVE  \A o \in Procs : Moves(o)
  BY <1>7 DEF CheckTarget
<1>8. ASSUME NEW p \in Procs, CreateTemp(p)
      PROVE  \A o \in Procs : Moves(o)
  BY <1>8 DEF CreateTemp
<1>9. ASSUME NEW p \in Procs, CheckLink(p)
      PROVE  \A o \in Procs : Moves(o)
  BY <1>9 DEF CheckLink
<1>10. ASSUME NEW p \in Procs, Link(p)
      PROVE  \A o \in Procs : Moves(o)
  BY <1>10 DEF Link
<1>11. ASSUME NEW p \in Procs, LinkExists(p)
      PROVE  \A o \in Procs : Moves(o)
  BY <1>11 DEF LinkExists
<1>12. ASSUME NEW p \in Procs, LinkRaises(p)
      PROVE  \A o \in Procs : Moves(o)
  BY <1>12 DEF LinkRaises
<1>13. ASSUME NEW p \in Procs, Cleanup(p)
      PROVE  \A o \in Procs : Moves(o)
  <2>1. AfterCleanup(p) \notin {"relist", "reread", "report"}
    BY DEF AfterCleanup
  <2> QED
    BY <1>13, <2>1 DEF Cleanup
<1>14. ASSUME NEW p \in Procs, LeaveTemp(p)
      PROVE  \A o \in Procs : Moves(o)
  BY <1>14 DEF LeaveTemp
<1>15. ASSUME NEW p \in Procs, DropTemp(p)
      PROVE  \A o \in Procs : Moves(o)
  BY <1>15 DEF DropTemp
<1>16. ASSUME NEW p \in Procs, VerifyDuplicate(p)
      PROVE  \A o \in Procs : Moves(o)
  BY <1>16 DEF VerifyDuplicate
<1>17. ASSUME NEW p \in Procs, Complete(p)
      PROVE  \A o \in Procs : Moves(o)
  BY <1>17 DEF Complete
<1>18. ASSUME NEW p \in Procs, Fail(p)
      PROVE  \A o \in Procs : Moves(o)
  BY <1>18 DEF Fail
<1>19. ASSUME NEW p \in Procs, BeginScan(p)
      PROVE  \A o \in Procs : Moves(o)
  BY <1>19 DEF BeginScan
<1>20. ASSUME NEW p \in Procs, ListDirectory(p)
      PROVE  \A o \in Procs : Moves(o)
  BY <1>20 DEF ListDirectory
<1>21. ASSUME NEW p \in Procs, ReadRecords(p)
      PROVE  \A o \in Procs : Moves(o)
  BY <1>21, ZenonT(60) DEF ReadRecords
<1>22. ASSUME NEW p \in Procs, CompareDirectory(p)
      PROVE  \A o \in Procs : Moves(o)
  BY <1>22 DEF CompareDirectory
<1>23. ASSUME NEW p \in Procs, RereadRecords(p)
      PROVE  \A o \in Procs : Moves(o)
  <2>1. ASSUME NEW o \in Procs, o # p
        PROVE  UNCHANGED <<pc[o], snap[o], whole[o], lease[o]>>
    BY <1>23, <2>1 DEF RereadRecords
  <2> QED
    BY <1>23, <2>1
<1>24. ASSUME NEW p \in Procs, Report(p)
      PROVE  \A o \in Procs : Moves(o)
  BY <1>24 DEF Report
<1>25. ASSUME NEW p \in Procs, Findings(p)
      PROVE  \A o \in Procs : Moves(o)
  BY <1>25 DEF Findings
<1>26. ASSUME NEW p \in Procs, Crash(p)
      PROVE  \A o \in Procs : Moves(o)
  BY <1>26 DEF Crash
<1>27. ASSUME NEW p \in Procs, NEW how, Contended(p, how)
      PROVE  \A o \in Procs : Moves(o)
  BY <1>27 DEF Contended
<1>28. CASE ReplaceAnchor
  BY <1>28 DEF ReplaceAnchor
<1>29. CASE Damage
  BY <1>29 DEF Damage
<1>30. CASE UNCHANGED vars
  BY <1>30 DEF vars
<1> QED
  BY <1>1, <1>2, <1>3, <1>4, <1>5, <1>6, <1>7, <1>8, <1>9, <1>10, <1>11, <1>12, <1>13,
     <1>14, <1>15, <1>16, <1>17, <1>18, <1>19, <1>20, <1>21, <1>22, <1>23, <1>24, <1>25, <1>26,
     <1>27, <1>28, <1>29, <1>30
     DEF Next, Ingest, Scan

LEMMA ContentGrows ==
  ASSUME layout <= layout', records \subseteq records', rejects \subseteq rejects',
         layout \in 0..5, layout' \in 0..5, NEW d \in 1..4
  PROVE  Content(d) \subseteq Content(d)'
<1>1. 1..layout \subseteq 1..layout'
  OBVIOUS
<1> QED
  BY <1>1 DEF Content

LEMMA StepScanned ==
  ASSUME TypeOK, Phases, Leases, Scanned, [Next]_vars, TypeOK', Phases'
  PROVE  Scanned'
<1> SUFFICES ASSUME NEW o \in Procs
             PROVE  /\ \A d \in 1..4 : snap'[o][d] \subseteq Content(d)'
                    /\ pc'[o] \in {"relist", "reread"} /\ Valid(o)'
                         => whole'[o] \/ Tainted(o)'
                    /\ pc'[o] = "report" /\ Valid(o)' => whole'[o]
                    /\ pc'[o] = "report" /\ anchor' = 0 => Exact(o)'
  BY DEF Scanned
<1>1. Grows
  BY StepGrows
<1>11. Calm
  BY StepCalm
<1>12. Moves(o)
  BY StepMoves
<1>2. \A d \in 1..4 : Content(d) \subseteq Content(d)'
  BY <1>1, ContentGrows DEF TypeOK, Grows
<1>3. lease[o] = lease'[o] /\ pc[o] # "idle" /\ Valid(o)' => Valid(o)
  <2>1. anchor \in Nat /\ anchor' \in Nat /\ anchor <= anchor'
    <3>1. anchor \in Nat /\ anchor' \in Nat
      BY DEF TypeOK
    <3> QED
      BY <3>1, <1>1 DEF Grows
  <2>2. pc[o] # "idle" => lease[o] \in Nat /\ lease[o] <= anchor
    BY DEF TypeOK, Leases
  <2> QED
    BY <2>1, <2>2
<1>4. \A d \in 1..4 : snap[o][d] \subseteq Content(d)
  BY DEF Scanned
<1>5. ASSUME NEW q \in Procs PROVE TempDir(q) \in 1..4
  BY DEF TempDir
<1>6. CASE UNCHANGED <<pc[o], snap[o], whole[o], lease[o]>>
  <2>1. Tainted(o) => Tainted(o)'
    BY <1>1, <1>2, <1>4, <1>6, ZenonT(60) DEF Tainted, Grows
  <2>2. ASSUME pc'[o] = "report", anchor' = 0 PROVE Exact(o)'
    <3>1. anchor = 0
      <4>1. anchor \in Nat
        BY DEF TypeOK
      <4> QED
        BY <2>2, <4>1, <1>1 DEF Grows
    <3>2. UNCHANGED <<layout, records, rejects, litter, temp>>
      BY <3>1, <2>2, <1>11, <1>6 DEF Calm, ScannerSteps
    <3>3. Exact(o)
      BY <3>1, <2>2, <1>6 DEF Scanned
    <3>4. \A q \in Procs : ~temp[q]
      BY <3>3, <1>5 DEF Exact, Stray
    <3> QED
      BY <3>2, <3>3, <3>4, <1>6 DEF Exact, Stray, Content
  <2> QED
    BY <2>1, <2>2, <1>2, <1>3, <1>4, <1>6 DEF Scanned
<1>7. CASE /\ pc'[o] \notin {"relist", "reread", "report"}
           /\ \A d \in 1..4 : snap'[o][d] \in {{}, snap[o][d], Content(d)}
  BY <1>2, <1>4, <1>7
<1>8. CASE ReadRecords(o)
  <2>1. /\ pc'[o] = "relist" /\ (Exact(o) => whole'[o])
        /\ UNCHANGED <<archive, litter, anchor, lease, temp, snap>>
    <3>1. /\ pc'[o] = "relist" /\ whole'[o] = Turn(o)
          /\ UNCHANGED <<archive, litter, anchor, lease, temp, snap>>
      BY <1>8 DEF ReadRecords, TypeOK
    <3>2. Exact(o) => Turn(o)
      BY <1>8 DEF ReadRecords, Turn
    <3> QED
      BY <3>1, <3>2
  <2>2. Valid(o) /\ ~Exact(o) => Tainted(o)
    <3>1. ASSUME Valid(o), NEW q \in Procs, temp[q] PROVE ~Valid(q)
      BY <1>8, <3>1 DEF ReadRecords, TypeOK, Phases, Leases, WriterSteps, ScannerSteps
    <3> QED
      BY <3>1 DEF Exact, Stray, Tainted
  <2>3. Tainted(o)' = Tainted(o)
    BY <2>1 DEF Tainted, Content
  <2> QED
    BY <1>2, <1>4, <2>1, <2>2, <2>3
<1>9. CASE CompareDirectory(o)
  <2>1. /\ pc[o] = "relist" /\ pc'[o] \in {"relist", "reread"}
        /\ UNCHANGED <<archive, litter, anchor, lease, temp, snap, whole>>
    BY <1>9 DEF CompareDirectory, TypeOK
  <2>2. Tainted(o)' = Tainted(o)
    BY <2>1 DEF Tainted, Content
  <2> QED
    BY <1>2, <1>4, <2>1, <2>2 DEF Scanned
<1>10. CASE RereadRecords(o)
  <2>1. /\ pc[o] = "reread" /\ pc'[o] = "report" /\ \A d \in 1..4 : Unchanged(o, d)
        /\ UNCHANGED <<archive, litter, anchor, lease, temp, source, rejecting, stage,
                       snap, whole>>
    BY <1>10 DEF RereadRecords, TypeOK
  <2>2. Exact(o) /\ ~Tainted(o)
    BY <2>1, <1>5 DEF Unchanged, Exact, Stray, Tainted
  <2>3. Exact(o)' = Exact(o)
    BY <2>1 DEF Exact, Stray, Content, TempDir, OfLayout
  <2> QED
    BY <1>2, <1>4, <2>1, <2>2, <2>3 DEF Scanned
<1> QED
  BY <1>12, <1>6, <1>7, <1>8, <1>9, <1>10 DEF Moves

-----------------------------------------------------------------------------
\* What an exit status says is so.
Honest ==
  \A p \in Procs :
    /\ Ends(p, "ok") => source[p] \in records \cup rejects /\ late[p] = 0
    /\ Ends(p, "failed") => ~touched[p] /\ litter' = litter

LEMMA StepHonest ==
  ASSUME TypeOK, Phases, Lateness, Reported, [Next]_vars
  PROVE  Honest
<1> USE DEF TypeOK, Phases, WriterSteps, ScannerSteps, Lateness, Reported, Honest, Ends
<1>1. ASSUME NEW p \in Procs, NEW s \in Sources, BeginIngest(p, s)
      PROVE  Honest
  BY <1>1 DEF BeginIngest
<1>2. ASSUME NEW p \in Procs, FindEntry(p)
      PROVE  Honest
  BY <1>2 DEF FindEntry
<1>3. ASSUME NEW p \in Procs, MissEntry(p)
      PROVE  Honest
  BY <1>3 DEF MissEntry
<1>4. ASSUME NEW p \in Procs, MakeDirectory(p)
      PROVE  Honest
  BY <1>4 DEF MakeDirectory
<1>5. ASSUME NEW p \in Procs, Keep(p)
      PROVE  Honest
  BY <1>5 DEF Keep
<1>6. ASSUME NEW p \in Procs, Refuse(p)
      PROVE  Honest
  BY <1>6 DEF Refuse
<1>7. ASSUME NEW p \in Procs, CheckTarget(p)
      PROVE  Honest
  BY <1>7 DEF CheckTarget
<1>8. ASSUME NEW p \in Procs, CreateTemp(p)
      PROVE  Honest
  BY <1>8 DEF CreateTemp
<1>9. ASSUME NEW p \in Procs, CheckLink(p)
      PROVE  Honest
  BY <1>9 DEF CheckLink
<1>10. ASSUME NEW p \in Procs, Link(p)
      PROVE  Honest
  BY <1>10 DEF Link
<1>11. ASSUME NEW p \in Procs, LinkExists(p)
      PROVE  Honest
  BY <1>11 DEF LinkExists
<1>12. ASSUME NEW p \in Procs, LinkRaises(p)
      PROVE  Honest
  BY <1>12 DEF LinkRaises
<1>13. ASSUME NEW p \in Procs, Cleanup(p)
      PROVE  Honest
  <2>1. \A q \in Procs : pc'[q] = "idle" => pc[q] = "idle"
    BY <1>13 DEF Cleanup, AfterCleanup
  <2> QED
    BY <2>1
<1>14. ASSUME NEW p \in Procs, LeaveTemp(p)
      PROVE  Honest
  BY <1>14 DEF LeaveTemp
<1>15. ASSUME NEW p \in Procs, DropTemp(p)
      PROVE  Honest
  BY <1>15 DEF DropTemp
<1>16. ASSUME NEW p \in Procs, VerifyDuplicate(p)
      PROVE  Honest
  BY <1>16 DEF VerifyDuplicate
<1>17. ASSUME NEW p \in Procs, Complete(p)
      PROVE  Honest
  BY <1>17 DEF Complete
<1>18. ASSUME NEW p \in Procs, Fail(p)
      PROVE  Honest
  BY <1>18 DEF Fail
<1>19. ASSUME NEW p \in Procs, BeginScan(p)
      PROVE  Honest
  BY <1>19 DEF BeginScan
<1>20. ASSUME NEW p \in Procs, ListDirectory(p)
      PROVE  Honest
  BY <1>20 DEF ListDirectory
<1>21. ASSUME NEW p \in Procs, ReadRecords(p)
      PROVE  Honest
  BY <1>21 DEF ReadRecords
<1>22. ASSUME NEW p \in Procs, CompareDirectory(p)
      PROVE  Honest
  BY <1>22 DEF CompareDirectory
<1>23. ASSUME NEW p \in Procs, RereadRecords(p)
      PROVE  Honest
  BY <1>23 DEF RereadRecords
<1>24. ASSUME NEW p \in Procs, Report(p)
      PROVE  Honest
  BY <1>24 DEF Report
<1>25. ASSUME NEW p \in Procs, Findings(p)
      PROVE  Honest
  BY <1>25 DEF Findings
<1>26. ASSUME NEW p \in Procs, Crash(p)
      PROVE  Honest
  BY <1>26 DEF Crash
<1>27. ASSUME NEW p \in Procs, NEW how, Contended(p, how)
      PROVE  Honest
  BY <1>27 DEF Contended
<1>28. CASE ReplaceAnchor
  BY <1>28 DEF ReplaceAnchor
<1>29. CASE Damage
  BY <1>29 DEF Damage
<1>30. CASE UNCHANGED vars
  BY <1>30 DEF vars
<1> QED
  BY <1>1, <1>2, <1>3, <1>4, <1>5, <1>6, <1>7, <1>8, <1>9, <1>10, <1>11, <1>12, <1>13,
     <1>14, <1>15, <1>16, <1>17, <1>18, <1>19, <1>20, <1>21, <1>22, <1>23, <1>24, <1>25, <1>26,
     <1>27, <1>28, <1>29, <1>30
     DEF Next, Ingest, Scan

\* A report is the last step of a scan that has seen what it says.
Clean ==
  \A p \in Procs :
    Ends(p, "clean") => pc[p] = "report" /\ Valid(p)

LEMMA StepClean ==
  ASSUME TypeOK, [Next]_vars
  PROVE  Clean
<1> USE DEF TypeOK, WriterSteps, ScannerSteps, Clean, Ends
<1>1. ASSUME NEW p \in Procs, NEW s \in Sources, BeginIngest(p, s)
      PROVE  Clean
  BY <1>1 DEF BeginIngest
<1>2. ASSUME NEW p \in Procs, FindEntry(p)
      PROVE  Clean
  BY <1>2 DEF FindEntry
<1>3. ASSUME NEW p \in Procs, MissEntry(p)
      PROVE  Clean
  BY <1>3 DEF MissEntry
<1>4. ASSUME NEW p \in Procs, MakeDirectory(p)
      PROVE  Clean
  BY <1>4 DEF MakeDirectory
<1>5. ASSUME NEW p \in Procs, Keep(p)
      PROVE  Clean
  BY <1>5 DEF Keep
<1>6. ASSUME NEW p \in Procs, Refuse(p)
      PROVE  Clean
  BY <1>6 DEF Refuse
<1>7. ASSUME NEW p \in Procs, CheckTarget(p)
      PROVE  Clean
  BY <1>7 DEF CheckTarget
<1>8. ASSUME NEW p \in Procs, CreateTemp(p)
      PROVE  Clean
  BY <1>8 DEF CreateTemp
<1>9. ASSUME NEW p \in Procs, CheckLink(p)
      PROVE  Clean
  BY <1>9 DEF CheckLink
<1>10. ASSUME NEW p \in Procs, Link(p)
      PROVE  Clean
  BY <1>10 DEF Link
<1>11. ASSUME NEW p \in Procs, LinkExists(p)
      PROVE  Clean
  BY <1>11 DEF LinkExists
<1>12. ASSUME NEW p \in Procs, LinkRaises(p)
      PROVE  Clean
  BY <1>12 DEF LinkRaises
<1>13. ASSUME NEW p \in Procs, Cleanup(p)
      PROVE  Clean
  <2>1. \A q \in Procs : pc'[q] = "idle" => pc[q] = "idle"
    BY <1>13 DEF Cleanup, AfterCleanup
  <2> QED
    BY <2>1
<1>14. ASSUME NEW p \in Procs, LeaveTemp(p)
      PROVE  Clean
  BY <1>14 DEF LeaveTemp
<1>15. ASSUME NEW p \in Procs, DropTemp(p)
      PROVE  Clean
  BY <1>15 DEF DropTemp
<1>16. ASSUME NEW p \in Procs, VerifyDuplicate(p)
      PROVE  Clean
  BY <1>16 DEF VerifyDuplicate
<1>17. ASSUME NEW p \in Procs, Complete(p)
      PROVE  Clean
  BY <1>17 DEF Complete
<1>18. ASSUME NEW p \in Procs, Fail(p)
      PROVE  Clean
  BY <1>18 DEF Fail
<1>19. ASSUME NEW p \in Procs, BeginScan(p)
      PROVE  Clean
  BY <1>19 DEF BeginScan
<1>20. ASSUME NEW p \in Procs, ListDirectory(p)
      PROVE  Clean
  BY <1>20 DEF ListDirectory
<1>21. ASSUME NEW p \in Procs, ReadRecords(p)
      PROVE  Clean
  BY <1>21 DEF ReadRecords
<1>22. ASSUME NEW p \in Procs, CompareDirectory(p)
      PROVE  Clean
  BY <1>22 DEF CompareDirectory
<1>23. ASSUME NEW p \in Procs, RereadRecords(p)
      PROVE  Clean
  BY <1>23 DEF RereadRecords
<1>24. ASSUME NEW p \in Procs, Report(p)
      PROVE  Clean
  BY <1>24 DEF Report
<1>25. ASSUME NEW p \in Procs, Findings(p)
      PROVE  Clean
  BY <1>25 DEF Findings
<1>26. ASSUME NEW p \in Procs, Crash(p)
      PROVE  Clean
  BY <1>26 DEF Crash
<1>27. ASSUME NEW p \in Procs, NEW how, Contended(p, how)
      PROVE  Clean
  BY <1>27 DEF Contended
<1>28. CASE ReplaceAnchor
  BY <1>28 DEF ReplaceAnchor
<1>29. CASE Damage
  BY <1>29 DEF Damage
<1>30. CASE UNCHANGED vars
  BY <1>30 DEF vars
<1> QED
  BY <1>1, <1>2, <1>3, <1>4, <1>5, <1>6, <1>7, <1>8, <1>9, <1>10, <1>11, <1>12, <1>13,
     <1>14, <1>15, <1>16, <1>17, <1>18, <1>19, <1>20, <1>21, <1>22, <1>23, <1>24, <1>25, <1>26,
     <1>27, <1>28, <1>29, <1>30
     DEF Next, Ingest, Scan

-----------------------------------------------------------------------------
Inv ==
  TypeOK /\ Phases /\ Leases /\ Lateness /\ Decided /\ OneRecordPerId /\ Reported /\ Scanned

LEMMA InitInv == Init => Inv
<1> SUFFICES ASSUME Init PROVE Inv
  OBVIOUS
<1> USE DEF Init
<1>1. TypeOK
  <2>1. litter \in BOOLEAN
    OBVIOUS
  <2>2. snap \in [Procs -> [1..4 -> SUBSET (Entries \cup Sources)]]
    OBVIOUS
  <2> QED
    BY <2>1, <2>2 DEF TypeOK, Exits, Links, WriterSteps, ScannerSteps, Entries
<1>2. Phases /\ Leases /\ Lateness
  BY DEF Phases, Leases, Lateness, WriterSteps, ScannerSteps
<1>3. Decided /\ Reported /\ Scanned
  BY DEF Decided, Reported, Scanned
<1>4. OneRecordPerId
  BY DEF OneRecordPerId, Conflicting
<1> QED
  BY <1>1, <1>2, <1>3, <1>4 DEF Inv

LEMMA StepInv == Inv /\ [Next]_vars => Inv'
<1> SUFFICES ASSUME Inv, [Next]_vars PROVE Inv'
  OBVIOUS
<1>1. TypeOK' /\ Phases'
  BY StepTypeOK, StepPhases DEF Inv
<1>2. Leases' /\ Lateness' /\ Decided'
  BY StepLeases, StepLateness, StepDecided DEF Inv
<1>3. OneRecordPerId' /\ Reported'
  BY StepUnique, StepReported DEF Inv
<1>4. Scanned'
  BY <1>1, StepScanned DEF Inv
<1> QED
  BY <1>1, <1>2, <1>3, <1>4 DEF Inv

LEMMA InvAlways == Spec => []Inv
  BY InitInv, StepInv, PTL DEF Spec

\* However many processes there are, each holds a lease exactly while it works, and
\* a temporary file only between its creation and its removal.
THEOREM TypeCorrect == Spec => []TypeOK
  BY InvAlways, PTL DEF Inv

\* Until the coordination file is replaced, no interleaving of ingests and deaths
\* files two records of one observation id.
THEOREM UniqueIds == Spec => []OneRecordPerId
  BY InvAlways, PTL DEF Inv

\* A process whose coordination file is replaced stops after one more change.
THEOREM Superseded == Spec => []SupersededStops
<1>1. Inv => SupersededStops
  BY DEF Inv, Lateness, SupersededStops
<1> QED
  BY <1>1, InvAlways, PTL

\* The two together.
THEOREM ArchiveStands == Spec => []ArchiveSound
  BY UniqueIds, Superseded, PTL DEF ArchiveSound

\* What the exit status of an ingest says of the archive is so.
THEOREM HonestExits == Spec => OutcomeHonest
<1>1. Inv /\ [Next]_vars => [Honest]_vars
  BY StepHonest DEF Inv
<1> QED
  BY <1>1, InvAlways, PTL DEF Spec, OutcomeHonest, Honest

\* A clean report describes what the archive held, whole, at one instant.
THEOREM CleanReports == Spec => CleanWasTrue
<1>1. Inv /\ [Next]_vars => [\A p \in Procs : Ends(p, "clean") => whole[p]]_vars
  BY StepClean DEF Inv, Clean, Scanned
<1> QED
  BY <1>1, InvAlways, PTL DEF Spec, CleanWasTrue

\* Until the coordination file is replaced it describes the archive as it still is.
THEOREM CurrentReports == Spec => CleanIsCurrent
<1>1. Inv /\ [Next]_vars =>
        [\A p \in Procs : anchor = 0 /\ Ends(p, "clean") => Exact(p)]_vars
  BY StepClean DEF Inv, Clean, Scanned
<1> QED
  BY <1>1, InvAlways, PTL DEF Spec, CleanIsCurrent

\* The two together.
THEOREM CleanStands == Spec => CleanSound
  BY CleanReports, CurrentReports DEF CleanSound

-----------------------------------------------------------------------------
LEMMA StepStore ==
  ASSUME TypeOK, Phases, Decided, [Next]_vars
  PROVE  [anchor = 0 => Store!Next]_<<records, rejects>>
<1> USE DEF TypeOK, Phases, WriterSteps, ScannerSteps, Decided
<1>1. ASSUME NEW p \in Procs, NEW s \in Sources, BeginIngest(p, s)
      PROVE  [anchor = 0 => Store!Next]_<<records, rejects>>
  BY <1>1 DEF BeginIngest
<1>2. ASSUME NEW p \in Procs, FindEntry(p)
      PROVE  [anchor = 0 => Store!Next]_<<records, rejects>>
  BY <1>2 DEF FindEntry
<1>3. ASSUME NEW p \in Procs, MissEntry(p)
      PROVE  [anchor = 0 => Store!Next]_<<records, rejects>>
  BY <1>3 DEF MissEntry
<1>4. ASSUME NEW p \in Procs, MakeDirectory(p)
      PROVE  [anchor = 0 => Store!Next]_<<records, rejects>>
  BY <1>4 DEF MakeDirectory
<1>5. ASSUME NEW p \in Procs, Keep(p)
      PROVE  [anchor = 0 => Store!Next]_<<records, rejects>>
  BY <1>5 DEF Keep
<1>6. ASSUME NEW p \in Procs, Refuse(p)
      PROVE  [anchor = 0 => Store!Next]_<<records, rejects>>
  BY <1>6 DEF Refuse
<1>7. ASSUME NEW p \in Procs, CheckTarget(p)
      PROVE  [anchor = 0 => Store!Next]_<<records, rejects>>
  BY <1>7 DEF CheckTarget
<1>8. ASSUME NEW p \in Procs, CreateTemp(p)
      PROVE  [anchor = 0 => Store!Next]_<<records, rejects>>
  BY <1>8 DEF CreateTemp
<1>9. ASSUME NEW p \in Procs, CheckLink(p)
      PROVE  [anchor = 0 => Store!Next]_<<records, rejects>>
  BY <1>9 DEF CheckLink
<1>10. ASSUME NEW p \in Procs, Link(p)
      PROVE  [anchor = 0 => Store!Next]_<<records, rejects>>
  <2>1. CASE OfLayout(p)
    BY <1>10, <2>1 DEF Link
  <2>2. CASE ~OfLayout(p)
    <3>1. stage[p] = 6 /\ source[p] \in Sources
      BY <1>10, <2>2 DEF Link, OfLayout
    <3>2. ASSUME anchor = 0, rejecting[p] PROVE Store!Refuse(source[p])
      BY <1>10, <2>2, <3>1, <3>2 DEF Link, Store!Refuse, Store!Rivals, Store!SameId, Rivals
    <3>3. ASSUME anchor = 0, ~rejecting[p] PROVE Store!Accept(source[p])
      BY <1>10, <2>2, <3>1, <3>3 DEF Link, Store!Accept, Store!Rivals, Store!SameId, Rivals
    <3> QED
      BY <3>1, <3>2, <3>3 DEF Store!Next
  <2> QED
    BY <2>1, <2>2
<1>11. ASSUME NEW p \in Procs, LinkExists(p)
      PROVE  [anchor = 0 => Store!Next]_<<records, rejects>>
  BY <1>11 DEF LinkExists
<1>12. ASSUME NEW p \in Procs, LinkRaises(p)
      PROVE  [anchor = 0 => Store!Next]_<<records, rejects>>
  BY <1>12 DEF LinkRaises
<1>13. ASSUME NEW p \in Procs, Cleanup(p)
      PROVE  [anchor = 0 => Store!Next]_<<records, rejects>>
  BY <1>13 DEF Cleanup
<1>14. ASSUME NEW p \in Procs, LeaveTemp(p)
      PROVE  [anchor = 0 => Store!Next]_<<records, rejects>>
  BY <1>14 DEF LeaveTemp
<1>15. ASSUME NEW p \in Procs, DropTemp(p)
      PROVE  [anchor = 0 => Store!Next]_<<records, rejects>>
  BY <1>15 DEF DropTemp
<1>16. ASSUME NEW p \in Procs, VerifyDuplicate(p)
      PROVE  [anchor = 0 => Store!Next]_<<records, rejects>>
  BY <1>16 DEF VerifyDuplicate
<1>17. ASSUME NEW p \in Procs, Complete(p)
      PROVE  [anchor = 0 => Store!Next]_<<records, rejects>>
  BY <1>17 DEF Complete
<1>18. ASSUME NEW p \in Procs, Fail(p)
      PROVE  [anchor = 0 => Store!Next]_<<records, rejects>>
  BY <1>18 DEF Fail
<1>19. ASSUME NEW p \in Procs, BeginScan(p)
      PROVE  [anchor = 0 => Store!Next]_<<records, rejects>>
  BY <1>19 DEF BeginScan
<1>20. ASSUME NEW p \in Procs, ListDirectory(p)
      PROVE  [anchor = 0 => Store!Next]_<<records, rejects>>
  BY <1>20 DEF ListDirectory
<1>21. ASSUME NEW p \in Procs, ReadRecords(p)
      PROVE  [anchor = 0 => Store!Next]_<<records, rejects>>
  BY <1>21 DEF ReadRecords
<1>22. ASSUME NEW p \in Procs, CompareDirectory(p)
      PROVE  [anchor = 0 => Store!Next]_<<records, rejects>>
  BY <1>22 DEF CompareDirectory
<1>23. ASSUME NEW p \in Procs, RereadRecords(p)
      PROVE  [anchor = 0 => Store!Next]_<<records, rejects>>
  BY <1>23 DEF RereadRecords
<1>24. ASSUME NEW p \in Procs, Report(p)
      PROVE  [anchor = 0 => Store!Next]_<<records, rejects>>
  BY <1>24 DEF Report
<1>25. ASSUME NEW p \in Procs, Findings(p)
      PROVE  [anchor = 0 => Store!Next]_<<records, rejects>>
  BY <1>25 DEF Findings
<1>26. ASSUME NEW p \in Procs, Crash(p)
      PROVE  [anchor = 0 => Store!Next]_<<records, rejects>>
  BY <1>26 DEF Crash
<1>27. ASSUME NEW p \in Procs, NEW how, Contended(p, how)
      PROVE  [anchor = 0 => Store!Next]_<<records, rejects>>
  BY <1>27 DEF Contended
<1>28. CASE ReplaceAnchor
  BY <1>28 DEF ReplaceAnchor
<1>29. CASE Damage
  BY <1>29 DEF Damage
<1>30. CASE UNCHANGED vars
  BY <1>30 DEF vars
<1> QED
  BY <1>1, <1>2, <1>3, <1>4, <1>5, <1>6, <1>7, <1>8, <1>9, <1>10, <1>11, <1>12, <1>13,
     <1>14, <1>15, <1>16, <1>17, <1>18, <1>19, <1>20, <1>21, <1>22, <1>23, <1>24, <1>25, <1>26,
     <1>27, <1>28, <1>29, <1>30
     DEF Next, Ingest, Scan

\* Until the coordination file is replaced, the archive is the append-only store.
THEOREM ImplementsStore == Spec => StoreSpec
<1>1. Init => Store!Init
  BY DEF Init, Store!Init
<1>2. Inv /\ [Next]_vars => [anchor = 0 => Store!Next]_<<records, rejects>>
  BY StepStore DEF Inv
<1> QED
  BY <1>1, <1>2, InvAlways, PTL DEF Spec, StoreSpec
=============================================================================
