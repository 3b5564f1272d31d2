-------------------------- MODULE EvidenceArchive --------------------------
(***************************************************************************)
(* offline/retirement_evidence: any number of ingest and verify processes  *)
(* over one archive, coordinated by a flock on an anchor file outside it.  *)
(* Every lease validation asks whether the anchor's path still names the   *)
(* file the process locked, so it is the test Valid(p).  A validation and  *)
(* the system call it protects are two steps: the anchor may be replaced,  *)
(* and the process killed, in between.  Hashes, JSON and the record        *)
(* verifier are taken at their word: a source states an id, its record has *)
(* a name of its own, and a record somebody edited does not verify.  The   *)
(* byte and entry limits, symlinked roots and forked children are left out *)
(***************************************************************************)
EXTENDS Naturals

CONSTANTS
  Procs,                          \* operator processes
  Sources, Malformed, IdOf, None, \* as in EvidenceStore
  Quarantined,                    \* the valid sources kept in quarantined/
  Replacements                    \* bound: how often the anchor file is replaced

ASSUME ArchiveAssumption ==
  /\ Malformed \subseteq Sources /\ Quarantined \subseteq Sources \ Malformed
  /\ Replacements \in Nat
  /\ None \notin Nat /\ None \notin Sources

VARIABLES
  layout,             \* how many of root, version file and three partitions exist
  records, rejects,   \* the sources that have a record, or a reason-only record
  damaged,            \* records somebody edited outside these tools
  litter,             \* a dead process left its temporary file in some directory
  anchor,             \* which file the coordination path names
  lease, mode,        \* the anchor a process has locked, and how
  pc,
  source,             \* what a writer ingests
  rejecting,          \* it goes to rejected/
  stage,              \* the layout entry a writer is at, the directory a scanner is at
  temp,               \* it has a temporary file
  link,               \* its target before os.link, and how os.link went
  visible,            \* its tracker is past no_visible_mutation
  exit,               \* how the last operation ended
  snap,               \* the directories as a scanner listed them
  touched, late, whole \* history: see Touch, Mutate and Turn

archive == <<layout, records, rejects>>
writer == <<source, rejecting, temp, link, visible>>
history == <<touched, late, whole>>
vars == <<archive, damaged, litter, anchor, lease, mode, pc, writer, stage, exit,
          snap, history>>

Entries == 1..5

\* The root, accepted/, quarantined/ and rejected/, in the order a scan lists them.
Content(d) ==
  CASE d = 1 -> 1..layout
    [] d = 2 -> records \ Quarantined
    [] d = 3 -> records \cap Quarantined
    [] d = 4 -> rejects

Exits == {"none", "ok", "failed", "indeterminate", "killed", "clean", "findings"}
Links == {"absent", "present", "published", "duplicate", "raised"}
WriterSteps == {"layout", "mkdir", "decide", "target", "temp", "ready", "link",
                "cleanup", "verify", "complete"}
ScannerSteps == {"list", "read", "relist", "reread", "report"}

\* Every variable keeps its type; only an idle process holds no lease, and a
\* temporary file exists only between its creation and its removal.
TypeOK ==
  /\ layout \in 0..5 /\ records \subseteq Sources \ Malformed /\ rejects \subseteq Sources
  /\ damaged \subseteq records /\ litter \in BOOLEAN
  /\ anchor \in 0..Replacements
  /\ lease \in [Procs -> 0..Replacements \cup {None}]
  /\ mode \in [Procs -> {"shared", "exclusive"}]
  /\ pc \in [Procs -> {"idle"} \cup WriterSteps \cup ScannerSteps]
  /\ source \in [Procs -> Sources \cup {None}]
  /\ rejecting \in [Procs -> BOOLEAN] /\ stage \in [Procs -> 1..6]
  /\ temp \in [Procs -> BOOLEAN] /\ link \in [Procs -> Links]
  /\ visible \in [Procs -> BOOLEAN] /\ exit \in [Procs -> Exits]
  /\ snap \in [Procs -> [1..4 -> SUBSET (Entries \cup Sources)]]
  /\ touched \in [Procs -> BOOLEAN] /\ late \in [Procs -> 0..2]
  /\ whole \in [Procs -> BOOLEAN]
  /\ \A p \in Procs :
       /\ (lease[p] = None) = (pc[p] = "idle")
       /\ temp[p] => pc[p] \in {"ready", "link", "cleanup"}

Init ==
  /\ layout = 0 /\ records = {} /\ rejects = {} /\ damaged = {} /\ litter = FALSE
  /\ anchor = 0
  /\ lease = [p \in Procs |-> None] /\ mode = [p \in Procs |-> "shared"]
  /\ pc = [p \in Procs |-> "idle"]
  /\ source = [p \in Procs |-> None] /\ rejecting = [p \in Procs |-> FALSE]
  /\ stage = [p \in Procs |-> 1] /\ temp = [p \in Procs |-> FALSE]
  /\ link = [p \in Procs |-> "absent"]
  /\ visible = [p \in Procs |-> FALSE] /\ exit = [p \in Procs |-> "none"]
  /\ snap = [p \in Procs |-> [d \in 1..4 |-> {}]]
  /\ touched = [p \in Procs |-> FALSE] /\ late = [p \in Procs |-> 0]
  /\ whole = [p \in Procs |-> FALSE]

-----------------------------------------------------------------------------
(* Leases                                                                  *)

Valid(p) == lease[p] = anchor

\* A lock on a replaced file excludes nobody.
Holders == { p \in Procs : lease[p] = anchor }

Free(how) ==
  IF how = "exclusive" THEN Holders = {} ELSE \A p \in Holders : mode[p] = "shared"

Goto(p, step) == pc' = [pc EXCEPT ![p] = step]

Acquire(p, how) ==
  /\ pc[p] = "idle" /\ Free(how)
  /\ lease' = [lease EXCEPT ![p] = anchor] /\ mode' = [mode EXCEPT ![p] = how]
  /\ exit' = [exit EXCEPT ![p] = "none"]
  /\ UNCHANGED <<archive, damaged, litter, anchor, stage, history>>

Contended(p, how) ==
  /\ pc[p] = "idle" /\ ~Free(how)
  /\ exit' = [exit EXCEPT ![p] = "failed"]
  /\ UNCHANGED <<archive, damaged, litter, anchor, lease, mode, pc, writer, stage, snap,
                 history>>

\* The lease is closed whichever way the operation ends, and its memory is gone.
Forget(p) ==
  /\ source' = [source EXCEPT ![p] = None] /\ rejecting' = [rejecting EXCEPT ![p] = FALSE]
  /\ temp' = [temp EXCEPT ![p] = FALSE] /\ link' = [link EXCEPT ![p] = "absent"]
  /\ visible' = [visible EXCEPT ![p] = FALSE] /\ stage' = [stage EXCEPT ![p] = 1]
  /\ snap' = [snap EXCEPT ![p] = [d \in 1..4 |-> {}]]
  /\ touched' = [touched EXCEPT ![p] = FALSE] /\ late' = [late EXCEPT ![p] = 0]
  /\ whole' = [whole EXCEPT ![p] = FALSE]

Release(p, how) ==
  /\ Goto(p, "idle") /\ lease' = [lease EXCEPT ![p] = None]
  /\ mode' = [mode EXCEPT ![p] = "shared"] /\ exit' = [exit EXCEPT ![p] = how]
  /\ Forget(p)

Quiet == UNCHANGED <<archive, damaged, litter, anchor>>

-----------------------------------------------------------------------------
(* Ingestion                                                               *)

\* An ordinary error after a visible change is reported as indeterminate.
Raise(p, seen) == Release(p, IF seen THEN "indeterminate" ELSE "failed")

\* History: whether p left anything behind, and how often it changed the archive
\* under a lease on a file the path no longer names.
Touch(p) == touched' = [touched EXCEPT ![p] = TRUE] /\ UNCHANGED whole
Mutate(p) ==
  late' = [late EXCEPT ![p] = IF Valid(p) \/ @ = 2 THEN @ ELSE @ + 1]

BeginIngest(p, s) ==
  /\ Acquire(p, "exclusive")
  /\ source' = [source EXCEPT ![p] = s]
  /\ Goto(p, "layout")
  /\ UNCHANGED <<rejecting, temp, link, visible, snap>>

\* The next layout entry is looked up, and made when it is missing.
FindEntry(p) ==
  /\ pc[p] = "layout" /\ Valid(p) /\ layout >= stage[p]
  /\ stage' = [stage EXCEPT ![p] = @ + 1]
  /\ Goto(p, IF stage[p] = 5 THEN "decide" ELSE "layout")
  /\ Quiet /\ UNCHANGED <<lease, mode, writer, exit, snap, history>>

MissEntry(p) ==
  /\ pc[p] = "layout" /\ Valid(p) /\ layout < stage[p]
  /\ Goto(p, IF stage[p] = 2 THEN "target" ELSE "mkdir")
  /\ Quiet /\ UNCHANGED <<lease, mode, writer, stage, exit, snap, history>>

MakeDirectory(p) ==
  /\ pc[p] = "mkdir" /\ layout < stage[p]
  /\ layout' = stage[p]
  /\ visible' = [visible EXCEPT ![p] = TRUE]
  /\ Goto(p, "layout") /\ Touch(p) /\ Mutate(p)
  /\ UNCHANGED <<records, rejects, damaged, litter, anchor, lease, mode, source,
                 rejecting, temp, link, stage, exit, snap>>

\* Mutant: only the record's own partition is searched.
RivalsOwnPartition(s) ==
  { r \in records \ {s} :
      /\ IdOf[s] # None /\ IdOf[r] = IdOf[s]
      /\ (r \in Quarantined) = (s \in Quarantined) }

Rivals(s) ==
  { r \in records \ {s} : IdOf[s] # None /\ IdOf[r] = IdOf[s] }

\* The records that share the source's id are all verified before one is trusted.
Keep(p) ==
  /\ pc[p] = "decide" /\ Valid(p) /\ source[p] \notin Malformed
  /\ Rivals(source[p]) = {}
  /\ IdOf[source[p]] # None => source[p] \notin damaged
  /\ Goto(p, "target")
  /\ Quiet /\ UNCHANGED <<lease, mode, writer, stage, exit, snap, history>>

\* Mutant: a record already on file counts as a rival of its source.
RefuseKnown(p) ==
  /\ pc[p] = "decide" /\ Valid(p)
  /\ \/ source[p] \in Malformed \cup records
     \/ Rivals(source[p]) \ damaged # {}
  /\ rejecting' = [rejecting EXCEPT ![p] = TRUE]
  /\ Goto(p, "target")
  /\ Quiet
  /\ UNCHANGED <<lease, mode, source, temp, link, visible, stage, exit, snap, history>>

Refuse(p) ==
  /\ pc[p] = "decide" /\ Valid(p)
  /\ source[p] \in Malformed \/ Rivals(source[p]) \ damaged # {}
  /\ rejecting' = [rejecting EXCEPT ![p] = TRUE]
  /\ Goto(p, "target")
  /\ Quiet
  /\ UNCHANGED <<lease, mode, source, temp, link, visible, stage, exit, snap, history>>

\* Publication: a temporary file beside the target, linked into place.
OfLayout(p) == stage[p] = 2
Taken(p) ==
  IF OfLayout(p) THEN layout >= 2
  ELSE source[p] \in (IF rejecting[p] THEN rejects ELSE records)
TempDir(p) ==
  CASE OfLayout(p)                 -> 1
    [] ~OfLayout(p) /\ rejecting[p] -> 4
    [] OTHER -> IF source[p] \in Quarantined THEN 3 ELSE 2

CheckTarget(p) ==
  /\ pc[p] = "target" /\ Valid(p)
  /\ Goto(p, "temp")
  /\ Quiet /\ UNCHANGED <<lease, mode, writer, stage, exit, snap, history>>

CreateTemp(p) ==
  /\ pc[p] = "temp"
  /\ temp' = [temp EXCEPT ![p] = TRUE]
  /\ Goto(p, "ready") /\ Mutate(p)
  /\ Quiet
  /\ UNCHANGED <<lease, mode, source, rejecting, link, visible, stage, exit, snap, touched,
                 whole>>

CheckLink(p) ==
  /\ pc[p] = "ready" /\ Valid(p)
  /\ link' = [link EXCEPT ![p] = IF Taken(p) THEN "present" ELSE "absent"]
  /\ Goto(p, "link")
  /\ Quiet
  /\ UNCHANGED <<lease, mode, source, rejecting, temp, visible, stage, exit, snap, history>>

\* Mutant: the tracker is not told of the link.
LinkUnmarked(p) ==
  /\ pc[p] = "link" /\ ~Taken(p)
  /\ IF OfLayout(p)
     THEN layout' = 2 /\ UNCHANGED <<records, rejects>>
     ELSE /\ UNCHANGED layout
          /\ IF rejecting[p]
             THEN rejects' = rejects \cup {source[p]} /\ UNCHANGED records
             ELSE records' = records \cup {source[p]} /\ UNCHANGED rejects
  /\ link' = [link EXCEPT ![p] = "published"]
  /\ Goto(p, "cleanup") /\ Touch(p) /\ Mutate(p)
  /\ UNCHANGED <<damaged, litter, anchor, lease, mode, source, rejecting, temp, visible,
                 stage, exit, snap>>

Link(p) ==
  /\ pc[p] = "link" /\ ~Taken(p)
  /\ IF OfLayout(p)
     THEN layout' = 2 /\ UNCHANGED <<records, rejects>>
     ELSE /\ UNCHANGED layout
          /\ IF rejecting[p]
             THEN rejects' = rejects \cup {source[p]} /\ UNCHANGED records
             ELSE records' = records \cup {source[p]} /\ UNCHANGED rejects
  /\ link' = [link EXCEPT ![p] = "published"]
  /\ visible' = [visible EXCEPT ![p] = TRUE]
  /\ Goto(p, "cleanup") /\ Touch(p) /\ Mutate(p)
  /\ UNCHANGED <<damaged, litter, anchor, lease, mode, source, rejecting, temp, stage,
                 exit, snap>>

\* os.link never overwrites: a target seen before is a duplicate, one that has
\* appeared since leaves the outcome open, like any other error.
LinkExists(p) ==
  /\ pc[p] = "link" /\ Taken(p) /\ link[p] = "present"
  /\ link' = [link EXCEPT ![p] = "duplicate"]
  /\ Goto(p, "cleanup")
  /\ Quiet
  /\ UNCHANGED <<lease, mode, source, rejecting, temp, visible, stage, exit, snap, history>>

LinkRaises(p) ==
  /\ pc[p] = "link"
  /\ link' = [link EXCEPT ![p] = "raised"]
  /\ visible' = [visible EXCEPT ![p] = TRUE]
  /\ Goto(p, "cleanup")
  /\ Quiet
  /\ UNCHANGED <<lease, mode, source, rejecting, temp, stage, exit, snap, history>>

AfterCleanup(p) ==
  CASE OfLayout(p) -> "layout"
    [] ~OfLayout(p) /\ link[p] = "duplicate" /\ ~rejecting[p] -> "verify"
    [] OTHER -> "complete"

Cleanup(p) ==
  /\ pc[p] = "cleanup" /\ Valid(p) /\ link[p] # "raised"
  /\ temp' = [temp EXCEPT ![p] = FALSE]
  /\ Goto(p, AfterCleanup(p))
  /\ Quiet
  /\ UNCHANGED <<lease, mode, source, rejecting, link, visible, stage, exit, snap, history>>

\* An error while it has a temporary file removes that, under a valid lease.
DropTemp(p) ==
  /\ pc[p] \in {"ready", "cleanup"} /\ Valid(p)
  /\ pc[p] = "cleanup" => link[p] = "raised"
  /\ Raise(p, visible[p])
  /\ Quiet

\* The temporary file cannot be removed, or the lease no longer allows it.
LeaveTemp(p) ==
  /\ pc[p] \in {"ready", "cleanup"}
  /\ litter' = TRUE
  /\ Raise(p, TRUE)
  /\ UNCHANGED <<archive, damaged, anchor>>

\* A record taken for a duplicate is verified like any other.
VerifyDuplicate(p) ==
  /\ pc[p] = "verify" /\ Valid(p) /\ source[p] \notin damaged
  /\ Goto(p, "complete")
  /\ Quiet /\ UNCHANGED <<lease, mode, writer, stage, exit, snap, history>>

Complete(p) ==
  /\ pc[p] = "complete" /\ Valid(p)
  /\ Release(p, "ok")
  /\ Quiet

\* A lost lease, a record that does not verify, any other error; a directory
\* counts as begun before it is made.
Fail(p) ==
  /\ pc[p] \in {"layout", "mkdir", "decide", "target", "temp", "verify", "complete"}
  /\ Raise(p, visible[p] \/ pc[p] = "mkdir")
  /\ Quiet

-----------------------------------------------------------------------------
(* Verification: a scan and its report, under a shared lease.  One that can *)
(* no longer come out clean is ended where that is seen.                    *)

\* Every directory is listed, so which one the litter is in does not matter.
Stray(d) == litter \/ \E q \in Procs : temp[q] /\ TempDir(q) = d
\* Mutant: the second listing is not compared with the first.
UnchangedUncompared(p, d) == snap[p][d] # {} => ~Stray(d)

Unchanged(p, d) == ~Stray(d) /\ Content(d) = snap[p][d]
Listed(p) == snap[p][2] \cup snap[p][3]
Conflicting(S) == \E r, s \in S : r # s /\ IdOf[r] # None /\ IdOf[r] = IdOf[s]

BeginScan(p) ==
  /\ Acquire(p, "shared")
  /\ Goto(p, "list")
  /\ UNCHANGED <<writer, snap>>

ListDirectory(p) ==
  /\ pc[p] = "list" /\ ~Stray(stage[p])
  /\ stage[p] = 1 => layout = 5
  /\ snap' = [snap EXCEPT ![p][stage[p]] = Content(stage[p])]
  /\ IF stage[p] = 4
     THEN Goto(p, "read") /\ UNCHANGED stage
     ELSE stage' = [stage EXCEPT ![p] = @ + 1] /\ UNCHANGED pc
  /\ Quiet /\ UNCHANGED <<lease, mode, writer, exit, history>>

\* History: between the listings and their comparison the listings are the archive.
Exact(p) == \A d \in 1..4 : ~Stray(d) /\ snap[p][d] = Content(d)
Turn(p) == damaged \cap Listed(p) = {} /\ Exact(p)

ReadRecords(p) ==
  /\ pc[p] = "read"
  /\ Listed(p) \cap damaged = {} /\ ~Conflicting(Listed(p))
  /\ stage' = [stage EXCEPT ![p] = 1] /\ Goto(p, "relist")
  /\ whole' = [whole EXCEPT ![p] = Turn(p)]
  /\ Quiet /\ UNCHANGED <<lease, mode, writer, exit, snap, touched, late>>

CompareDirectory(p) ==
  /\ pc[p] = "relist" /\ Unchanged(p, stage[p])
  /\ IF stage[p] = 4
     THEN Goto(p, "reread") /\ UNCHANGED stage
     ELSE stage' = [stage EXCEPT ![p] = @ + 1] /\ UNCHANGED pc
  /\ Quiet /\ UNCHANGED <<lease, mode, writer, exit, snap, history>>

RereadRecords(p) ==
  /\ pc[p] = "reread"
  /\ Listed(p) \cap damaged = {} /\ \A d \in 1..4 : Unchanged(p, d)
  /\ Goto(p, "report")
  /\ Quiet /\ UNCHANGED <<lease, mode, writer, stage, exit, snap, history>>

Report(p) ==
  /\ pc[p] = "report" /\ Valid(p)
  /\ Release(p, "clean")
  /\ Quiet

Findings(p) ==
  /\ pc[p] \in ScannerSteps
  /\ Release(p, "findings")
  /\ Quiet

-----------------------------------------------------------------------------
(* The world                                                               *)

Crash(p) ==
  /\ pc[p] # "idle"
  /\ litter' = (litter \/ temp[p])
  /\ Release(p, "killed")
  /\ UNCHANGED <<archive, damaged, anchor>>

ReplaceAnchor ==
  /\ anchor < Replacements /\ anchor' = anchor + 1
  /\ UNCHANGED <<archive, damaged, litter, lease, mode, pc, writer, stage, exit, snap,
                 history>>

Damage ==
  /\ \E r \in records \ damaged : damaged' = damaged \cup {r}
  /\ UNCHANGED <<archive, litter, anchor, lease, mode, pc, writer, stage, exit, snap,
                 history>>

Ingest(p) ==
  \/ \E s \in Sources : BeginIngest(p, s)
  \/ FindEntry(p) \/ MissEntry(p) \/ MakeDirectory(p) \/ Keep(p) \/ Refuse(p)
  \/ CheckTarget(p) \/ CreateTemp(p) \/ CheckLink(p) \/ Link(p) \/ LinkExists(p)
  \/ LinkRaises(p) \/ Cleanup(p) \/ LeaveTemp(p) \/ DropTemp(p)
  \/ VerifyDuplicate(p) \/ Complete(p) \/ Fail(p)

Scan(p) ==
  \/ BeginScan(p) \/ ListDirectory(p) \/ ReadRecords(p) \/ CompareDirectory(p)
  \/ RereadRecords(p) \/ Report(p) \/ Findings(p)

Next ==
  \/ \E p \in Procs : Ingest(p) \/ Scan(p) \/ Crash(p)
  \/ \E p \in Procs, how \in {"shared", "exclusive"} : Contended(p, how)
  \/ ReplaceAnchor \/ Damage

Spec == Init /\ [][Next]_vars

-----------------------------------------------------------------------------
(* Properties                                                              *)

\* While the anchor is the original file, no two records share an observation id,
\* whoever ingested them, in whichever order, and wherever a process was killed.
OneRecordPerId == anchor = 0 => ~Conflicting(records)

\* A writer whose anchor is replaced changes the archive at most once more.
SupersededStops == \A p \in Procs : late[p] <= 1

\* Replacing the anchor costs one late change per process, and what keeps the
\* ids apart holds until it is replaced.
ArchiveSound == OneRecordPerId /\ SupersededStops

Ends(p, how) == pc[p] # "idle" /\ pc'[p] = "idle" /\ exit'[p] = how

\* Success means the source is on file and was put there, if it was, under a valid
\* lease; an ordinary failure means nothing was left behind.
OutcomeHonest ==
  [][\A p \in Procs :
       /\ Ends(p, "ok") => source[p] \in records \cup rejects /\ late[p] = 0
       /\ Ends(p, "failed") => ~touched[p] /\ litter' = litter]_vars

\* A clean report lists what the whole archive held, intact, at one instant.
CleanWasTrue == [][\A p \in Procs : Ends(p, "clean") => whole[p]]_vars

\* While the anchor is the original file, a clean report is still true when it is made.
CleanIsCurrent ==
  [][\A p \in Procs :
       anchor = 0 /\ Ends(p, "clean") => Exact(p)]_vars

\* A clean report was true at an instant, and still is until the anchor is replaced.
CleanSound == CleanWasTrue /\ CleanIsCurrent

\* While the anchor is the original file, the archive implements the store.
Store == INSTANCE EvidenceStore
StoreSpec == Store!Init /\ [][anchor = 0 => Store!Next]_<<records, rejects>>
=============================================================================
