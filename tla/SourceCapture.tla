--------------------------- MODULE SourceCapture ---------------------------
(***************************************************************************)
(* mmi/source_capture.py: one capture of one fixed source file of the      *)
(* checkout, while the operator edits files and moves directories under    *)
(* it.  A capture opens a marker file of the checkout, the directory of    *)
(* the source and the source, each without following links and each        *)
(* compared with the stat taken before it; reads the source a chunk at a   *)
(* time; verifies every opened component again; resolves the whole path    *)
(* once more in one system call; reads again and compares.  A bound        *)
(* capture names the digest it expects, a digest capture takes what is     *)
(* there; both read bytes, and which digest the caller named is chosen     *)
(* where it is compared.  An absence capture proves that no source is      *)
(* there.                                                                  *)
(*                                                                         *)
(* A chunk is a value, a digest the chunks it is taken from.  A witness    *)
(* (device, inode, size, times) is the file and whether it, or its name,   *)
(* was changed since: no two changes get the same time.  The markers are   *)
(* one file, opened in one step; the directories above the source are one  *)
(* directory.  Left out: missing system calls, permissions, failing closes *)
(* and the fields of the record.                                           *)
(***************************************************************************)
EXTENDS Naturals, Sequences

CONSTANTS
  Dirs, Files,      \* the directories and files that may stand at the path
  Absent, Link, Special, \* a name without an entry, with a link, with another kind of file
  Chunks,           \* contents of one chunk
  MaximumBytes,     \* chunks a source may have
  MaxLength,        \* bound: chunks a file may have
  MaxEdits,         \* bound: edits in a behaviour
  Marker, None

ASSUME NameAssumption ==
  /\ Dirs \cap {Absent, Link, Special} = {}
  /\ Files \cap {Absent, Link, Special, Marker, None} = {}
ASSUME SizeAssumption == MaximumBytes \in Nat /\ MaxLength \in Nat /\ MaxEdits \in Nat

VARIABLES
  dirAt,     \* what the name of the directory leads to
  leafAt,    \* what the name of the source leads to in each directory
  data,      \* the chunks of each file
  genuine,   \* the marker file is this checkout's
  changed,   \* what was changed or renamed since the capture took its witness
  edits,     \* the edits so far
  cap,       \* the capture
  seen       \* (for the properties) the contents the path led to while it runs

tree == <<dirAt, leafAt, data, genuine, changed, edits>>
capturing == <<tree, cap, seen>>

Contents == UNION {[1..n -> Chunks] : n \in 0..MaxLength}
Modes == {"bytes", "absence"}
Codes == {"MISSING", "PARENT_DIRECTORY_MISSING", "SYMLINK_REJECTED", "NOT_REGULAR_FILE",
          "OVERSIZED", "PATH_UNSTABLE", "UNSTABLE", "OVERLONG_READ", "SHORT_READ",
          "REPOSITORY_MARKER_INVALID", "REPOSITORY_ROOT_UNTRUSTED",
          "EXPECTED_SHA256_MISMATCH", "PRESENT", "CAPTURED", "CONFIRMED_ABSENT", "RUNNING"}

\* The files that have a name.
Named == {leafAt[d] : d \in Dirs} \cap Files

\* What the whole path leads to now.
Standing ==
  IF dirAt \notin Dirs THEN Absent
  ELSE IF leafAt[dirAt] \in Files THEN data[leafAt[dirAt]] ELSE leafAt[dirAt]

\* A capture that has not opened, read or concluded anything.
Blank == [pc |-> "idle", mode |-> None, dir |-> None, leaf |-> None,
          size |-> 0, buf |-> <<>>, first |-> <<>>,
          unstable |-> {}, code |-> "RUNNING"]

CaptureInit ==
  /\ dirAt \in Dirs \cup {Absent, Link}
  /\ leafAt \in [Dirs -> Files \cup {Absent, Link, Special}]
  /\ \A d, e \in Dirs : leafAt[d] \in Files /\ leafAt[d] = leafAt[e] => d = e
  /\ data \in [Files -> Contents]
  /\ \A f \in Files \ Named : data[f] = <<>>
  /\ genuine = TRUE
  /\ changed = {}
  /\ edits = 0
  /\ cap = Blank
  /\ seen = {}

-----------------------------------------------------------------------------
(* The operator and his editor.                                            *)

Witnessed == {cap.leaf} \cup (IF cap.pc = "marker" THEN {} ELSE {Marker})

\* One more edit of the tree while the capture runs.  Whatever was edited before
\* is in CaptureInit, and what is edited after it does not concern it.
Edit(what) ==
  /\ cap.pc \notin {"idle", "done"}
  /\ edits < MaxEdits
  /\ edits' = edits + 1
  /\ changed' = changed \cup (what \cap Witnessed)
  /\ seen' = seen \cup ({Standing'} \cap Contents)
  /\ UNCHANGED cap

\* A file is written in place, all of it or a part.
Write ==
  \E f \in Named \cup ({cap.leaf} \cap Files), d \in Contents :
    /\ d # data[f]
    /\ data' = [data EXCEPT ![f] = d]
    /\ UNCHANGED <<dirAt, leafAt, genuine>>
    /\ Edit({f})

\* The name of the source is removed or linked, or another file takes it by a rename;
\* the content of a file without a name and not open is dropped.
Rename ==
  \E d \in Dirs, n \in (Files \ Named) \cup {Absent, Link}, c \in Contents :
    /\ n # leafAt[d]
    /\ n \notin Files => c = <<>>
    /\ leafAt' = [leafAt EXCEPT ![d] = n]
    /\ data' = [f \in Files |-> IF f = n THEN c ELSE IF f \in Named' \cup {cap.leaf} THEN data[f] ELSE <<>>]
    /\ UNCHANGED <<dirAt, genuine>>
    /\ Edit({n, leafAt[d]} \cap Files)

MoveDir ==
  /\ dirAt' \in (Dirs \cup {Absent, Link}) \ {dirAt}
  /\ UNCHANGED <<leafAt, data, genuine>>
  /\ Edit({})

\* Once replaced, by this checkout's or another's, the marker stays replaced.
ReplaceMarker ==
  /\ genuine /\ Marker \notin changed
  /\ genuine' \in BOOLEAN
  /\ UNCHANGED <<dirAt, leafAt, data>>
  /\ Edit({Marker})

-----------------------------------------------------------------------------
(* The steps of a capture.                                                 *)

Step(pc, c) ==
  /\ cap' = [c EXCEPT !.pc = pc]
  /\ UNCHANGED <<tree, seen>>

\* Every failure ends the capture with its code and closes what is open.
Fail(code) == Step("done", [Blank EXCEPT !.mode = cap.mode, !.code = code])

Start ==
  /\ cap.pc = "idle"
  /\ \E mode \in Modes : cap' = [Blank EXCEPT !.pc = "marker", !.mode = mode]
  /\ seen' = {Standing} \cap Contents
  /\ UNCHANGED tree

OpenMarker ==
  /\ cap.pc = "marker"
  /\ Step("stat dir", cap)

MissingParent == IF cap.mode = "absence" THEN "PARENT_DIRECTORY_MISSING" ELSE "MISSING"

StatDir ==
  /\ cap.pc = "stat dir"
  /\ \/ dirAt = Absent /\ Fail(MissingParent)
     \/ dirAt = Link /\ Fail("SYMLINK_REJECTED")
     \/ dirAt \in Dirs /\ Step("open dir", [cap EXCEPT !.dir = dirAt])

\* The directory opened must be the one the stat saw.
OpenDir ==
  /\ cap.pc = "open dir"
  /\ \/ dirAt # cap.dir /\ Fail("PATH_UNSTABLE")
     \/ dirAt = cap.dir /\ Step(IF cap.mode = "absence" THEN "read marker" ELSE "stat leaf", cap)

StatLeaf ==
  /\ cap.pc = "stat leaf"
  /\ LET entry == leafAt[cap.dir] IN
     \/ entry = Absent /\ Fail("MISSING")
     \/ entry = Link /\ Fail("SYMLINK_REJECTED")
     \/ entry = Special /\ Fail("NOT_REGULAR_FILE")
     \/ /\ entry \in Files
        /\ IF Len(data[entry]) > MaximumBytes THEN Fail("OVERSIZED")
           ELSE Step("open leaf", [cap EXCEPT !.leaf = entry, !.size = Len(data[entry])])

\* The file opened must be the one the stat saw, unchanged since.
OpenLeaf ==
  /\ cap.pc = "open leaf"
  /\ LET entry == leafAt[cap.dir] IN
     \/ entry \in {Absent, Link} /\ Fail("UNSTABLE")
     \/ entry = Special /\ Fail("NOT_REGULAR_FILE")
     \/ entry \in Files \ {cap.leaf} /\ Fail("PATH_UNSTABLE")
     \/ /\ entry = cap.leaf
        /\ IF entry \in changed THEN Fail("UNSTABLE") ELSE Step("read marker", cap)

ReadMarker ==
  /\ cap.pc = "read marker"
  /\ IF genuine THEN Step(IF cap.mode = "absence" THEN "bind" ELSE "read", cap)
     ELSE Fail("REPOSITORY_MARKER_INVALID")

\* One chunk through the descriptor, until one more than the expected size or the end.
ReadChunk ==
  /\ cap.pc \in {"read", "read again"}
  /\ Len(cap.buf) <= cap.size
  /\ Len(cap.buf) < Len(data[cap.leaf])
  /\ Step(cap.pc, [cap EXCEPT !.buf = Append(@, data[cap.leaf][Len(@) + 1])])

AtEnd == Len(cap.buf) > cap.size \/ Len(cap.buf) >= Len(data[cap.leaf])

\* A caller who named a digest may have named another one.
EndRead ==
  /\ cap.pc = "read"
  /\ AtEnd
  /\ \/ Len(cap.buf) > cap.size /\ Fail("OVERLONG_READ")
     \/ Len(cap.buf) < cap.size /\ Fail("SHORT_READ")
     \/ /\ Len(cap.buf) = cap.size
        /\ \/ Fail("EXPECTED_SHA256_MISMATCH")
           \/ Step("bind", [cap EXCEPT !.first = cap.buf, !.buf = <<>>])

\* The executing module is the marker opened under the walked root.
BindModule ==
  /\ cap.pc = "bind"
  /\ IF Marker \notin changed
     THEN Step(IF cap.mode = "absence" THEN "look" ELSE "verify marker", cap)
     ELSE Fail("REPOSITORY_ROOT_UNTRUSTED")

\* An absent source is looked for before and after the verification.
Look ==
  /\ cap.pc \in {"look", "look again"}
  /\ LET entry == leafAt[cap.dir] IN
     \/ entry = Link /\ Fail("SYMLINK_REJECTED")
     \/ entry \in Files \cup {Special} /\ Fail("PRESENT")
     \/ entry = Absent /\ IF cap.pc = "look" THEN Step("verify marker", cap)
                          ELSE Step("done", [cap EXCEPT !.code = "CONFIRMED_ABSENT"])

\* The complete verification looks at every component before it fails.
VerifyMarker ==
  /\ cap.pc = "verify marker"
  /\ Step("verify dir", [cap EXCEPT !.unstable =
       IF Marker \notin changed THEN @ ELSE @ \cup {"PATH_UNSTABLE"}])

VerifyDir ==
  /\ cap.pc = "verify dir"
  /\ Step(IF cap.mode = "absence" THEN "verified" ELSE "verify leaf",
          [cap EXCEPT !.unstable = IF dirAt = cap.dir THEN @ ELSE @ \cup {"PATH_UNSTABLE"}])

\* Mutant: only which file it is, not whether it was changed.
LeafVerdictIdentity == IF leafAt[cap.dir] # cap.leaf THEN {"PATH_UNSTABLE"} ELSE {}

LeafVerdict ==
  IF leafAt[cap.dir] # cap.leaf THEN {"PATH_UNSTABLE"}
  ELSE IF cap.leaf \in changed THEN {"UNSTABLE"} ELSE {}

VerifyLeaf ==
  /\ cap.pc = "verify leaf"
  /\ Step("verified", [cap EXCEPT !.unstable = @ \cup LeafVerdict])

Verified ==
  /\ cap.pc = "verified"
  /\ \/ "PATH_UNSTABLE" \in cap.unstable /\ Fail("PATH_UNSTABLE")
     \/ cap.unstable = {"UNSTABLE"} /\ Fail("UNSTABLE")
     \/ cap.unstable = {} /\ Step(IF cap.mode = "absence" THEN "look again" ELSE "open final", cap)

\* The whole path in one system call, which follows no link.
OpenFinal ==
  /\ cap.pc = "open final"
  /\ IF dirAt \in Dirs /\ leafAt[dirAt] = cap.leaf THEN Step("read again", cap)
     ELSE Fail("PATH_UNSTABLE")

\* Both readings must be the same, of the size the file still has.
EndFinal ==
  /\ cap.pc = "read again"
  /\ AtEnd
  /\ IF cap.buf = cap.first /\ Len(data[cap.leaf]) = Len(cap.buf)
     THEN Step("done", [cap EXCEPT !.code = "CAPTURED"])
     ELSE Fail("UNSTABLE")

Capture ==
  \/ Start \/ OpenMarker \/ StatDir \/ OpenDir \/ StatLeaf \/ OpenLeaf \/ ReadMarker
  \/ ReadChunk \/ EndRead \/ BindModule \/ Look \/ VerifyMarker \/ VerifyDir \/ VerifyLeaf
  \/ Verified \/ OpenFinal \/ EndFinal

CaptureNext == Capture \/ Write \/ Rename \/ MoveDir \/ ReplaceMarker

CaptureSpec == CaptureInit /\ [][CaptureNext]_capturing

-----------------------------------------------------------------------------
(* Properties.                                                             *)

\* Everything keeps its shape.
CaptureTypes ==
  /\ dirAt \in Dirs \cup {Absent, Link}
  /\ leafAt \in [Dirs -> Files \cup {Absent, Link, Special}]
  /\ data \in [Files -> Contents]
  /\ genuine \in BOOLEAN
  /\ changed \subseteq Files \cup {Marker}
  /\ edits \in 0..MaxEdits
  /\ seen \subseteq Contents
  /\ cap.mode \in Modes \cup {None} /\ cap.code \in Codes

\* The bytes of a successful capture were the content of the file the whole path
\* led to at one instant of that capture, whatever was written, renamed or moved
\* meanwhile: neither a mixture of two versions nor of two paths.
CapturedStoodThere ==
  cap.code = "CAPTURED" => cap.buf \in seen

\* A capture under which nothing was edited tells what stands there: it fails only
\* for what it found at the path, in the marker or in the digest it was given, and
\* never as unstable.
QuietCaptureTells ==
  cap.pc = "done" /\ edits = 0 =>
    CASE cap.code = "CAPTURED" -> cap.buf = Standing
      [] cap.code = "CONFIRMED_ABSENT" -> Standing = Absent
      [] cap.code = "PRESENT" -> Standing \in Contents \cup {Special}
      [] cap.code \in {"OVERSIZED", "EXPECTED_SHA256_MISMATCH"} -> Standing \in Contents
      [] OTHER -> cap.code \in {"MISSING", "PARENT_DIRECTORY_MISSING", "SYMLINK_REJECTED",
                               "NOT_REGULAR_FILE", "REPOSITORY_MARKER_INVALID"}

\* What the stable read (common/stable_read.py) captures is no mixture of two
\* versions or two paths, and without edits it tells what stands at the path.
CaptureSound == CaptureTypes /\ CapturedStoodThere /\ QuietCaptureTells
=============================================================================
