------------------------- MODULE PublicationReceipt -------------------------
(***************************************************************************)
(* The identity receipt of a Step 2 publication                            *)
(* (state/step2_publication_identity.py).  Its caller hands over the bytes *)
(* of the files it publishes and of those they came from; the builder      *)
(* evaluates the gate on the permission bytes, has the promoted handoff    *)
(* verified on the evaluated date, and identifies every file by a hash.    *)
(* The verifier builds the receipt again from the bytes it is given and    *)
(* compares.  A hash is the content it is of; 0, or nothing, is no hash.   *)
(* Nothing in the repository publishes through a receipt yet: the caller   *)
(* is outside.                                                             *)
(***************************************************************************)
EXTENDS Naturals, Sequences

CONSTANTS
  LastDay,
  MaxChanges  \* bound: changes of a file

ASSUME ReceiptAssumption == LastDay \in Nat \ {0, 1} /\ MaxChanges \in Nat

VARIABLES
  handed,      \* what the caller reads
  receipt,    \* the receipt, if one was built
  builtFrom,     \* history: what it was built from
  damaged,    \* history: the receipt is not what was built
  asked,      \* history: what the last verification was given
  verdict,    \* its diagnostic
  changes

publication == <<handed, receipt, builtFrom, damaged, asked, verdict, changes>>

Days == 1..LastDay
Grants == {"strict", "promoted"}
Inputs == {"template", "packet", "prompt", "raw", "settings"}
Lacking == {}

(***************************************************************************)
(* What is handed over: the contents, the permission and, if the caller    *)
(* has them, the promoted sources.                                         *)
(***************************************************************************)
Bytes == 1..2
Permissions == [grants : Grants \cup {"hold", "unreadable"}, note : Bytes]
Pointers == [handoff : Bytes, until : Days]
Sources == [pointer : Pointers, effective : Bytes, validated : {0, 1, 2}]
HandedOver == [input : [Inputs -> Bytes], permission : Permissions, sources : {Lacking} \cup {{s} : s \in Sources}]

\* The verifier of the promoted handoff: the pointer names the handoff, its
\* validation is of it, and the promotion has not expired.
PromotedStands(s, on) == s.effective = s.pointer.handoff /\ s.validated = s.effective /\ on <= s.pointer.until

GateIdentity(permission) == [mode |-> permission.grants, allowed |-> permission.grants \in Grants]

PromotedIdentity(sources) ==
  {[pointer |-> s.pointer, effective |-> s.effective, validation |-> s.validated, until |-> s.pointer.until] : s \in sources}

\* Why no receipt can be built, the first reason first.
BuildFault(mode, on, f) ==
  IF mode \notin Grants THEN "mode_invalid"
  ELSE IF on \notin Days THEN "schema_invalid"
  ELSE IF f.permission.grants # mode THEN "gate_mismatch"
  ELSE IF mode = "strict" /\ f.sources # Lacking THEN "mode_invalid"
  ELSE IF mode = "promoted" /\ f.sources = Lacking THEN "identity_missing"
  ELSE IF mode = "promoted" /\ \E s \in f.sources : ~PromotedStands(s, on) THEN "promoted_source_mismatch"
  ELSE "none"

Body(mode, on, f) ==
  [mode |-> mode, date |-> on, input |-> f.input, permission |-> f.permission,
   gate |-> GateIdentity(f.permission), promoted |-> PromotedIdentity(f.sources)]

\* The generation is derived from everything else.
Generation(body) == {body}
ReceiptOf(mode, on, f) == [body |-> Body(mode, on, f), generation |-> Generation(Body(mode, on, f)), sealed |-> TRUE]

(***************************************************************************)
(* A receipt as it is found: whole, or not in the shape of one.            *)
(***************************************************************************)
ShapeFault(r) ==
  LET b == r.body IN
  IF b.mode \notin Grants THEN "mode_invalid"
  ELSE IF b.date \notin Days \/ ~r.sealed THEN "schema_invalid"
  ELSE IF r.generation = Lacking \/ (\E i \in Inputs : b.input[i] = 0) \/ b.permission.note = 0 THEN "identity_malformed"
  ELSE IF ~b.gate.allowed \/ b.gate.mode # b.mode THEN "gate_mismatch"
  ELSE IF b.mode = "strict" /\ b.promoted # Lacking THEN "mode_invalid"
  ELSE IF b.mode = "promoted" /\ b.promoted = Lacking THEN "identity_missing"
  ELSE "none"

\* Mutant: what the model answered is not compared.
CompareAllButRaw == <<"template", "packet", "prompt", "settings">>

Compared == <<"template", "packet", "prompt", "raw", "settings">>

Differing(r, e) == {i \in DOMAIN Compared : r.body.input[Compared[i]] # e.body.input[Compared[i]]}
Foremost(places) == CHOOSE i \in places : \A j \in places : i <= j

Mismatch(r, e) ==
  IF r.body.mode # e.body.mode THEN "gate_mismatch"
  ELSE IF r.body.date # e.body.date THEN "date_mismatch"
  ELSE IF Differing(r, e) # {} THEN Compared[Foremost(Differing(r, e))]
  ELSE IF r.body.permission # e.body.permission THEN "permission"
  ELSE IF r.body.gate # e.body.gate THEN "gate_mismatch"
  ELSE IF r.body.promoted # e.body.promoted THEN "promoted_source_mismatch"
  ELSE IF r.generation # e.generation THEN "generation_mismatch"
  ELSE "consistent"

Judgement(r, mode, on, f) ==
  IF ShapeFault(r) # "none" THEN ShapeFault(r)
  ELSE IF BuildFault(mode, on, f) # "none" THEN BuildFault(mode, on, f)
  ELSE Mismatch(r, ReceiptOf(mode, on, f))

Verification(found, mode, on, f) ==
  IF found = Lacking THEN "missing" ELSE Judgement(CHOOSE r \in found : TRUE, mode, on, f)

-----------------------------------------------------------------------------
First == [input |-> [i \in Inputs |-> 1], permission |-> [grants |-> "promoted", note |-> 1],
          sources |-> {[pointer |-> [handoff |-> 1, until |-> LastDay - 1], effective |-> 1, validated |-> 1]}]

ReceiptInit ==
  /\ handed \in {First, [First EXCEPT !.permission.grants = "strict", !.sources = Lacking]}
  /\ receipt = Lacking /\ builtFrom = Lacking /\ damaged = FALSE
  /\ asked = Lacking /\ verdict = "none" /\ changes = 0

\* One of the files the caller reads changes, or it has the sources or not.
Changes(f) ==
  {[f EXCEPT !.input[i] = c] : i \in Inputs, c \in Bytes}
  \cup {[f EXCEPT !.permission = p] : p \in Permissions}
  \cup {[f EXCEPT !.sources = {[s EXCEPT !.pointer = p] : s \in f.sources}] : p \in Pointers}
  \cup {[f EXCEPT !.sources = {[s EXCEPT !.effective = c] : s \in f.sources}] : c \in Bytes}
  \cup {[f EXCEPT !.sources = {[s EXCEPT !.validated = v] : s \in f.sources}] : v \in 0..2}
  \cup {[f EXCEPT !.sources = Lacking], [f EXCEPT !.sources = First.sources]}

Change ==
  /\ changes < MaxChanges /\ changes' = changes + 1
  /\ handed' \in Changes(handed) \ {handed}
  /\ UNCHANGED <<receipt, builtFrom, damaged, asked, verdict>>

Build(mode, on) ==
  /\ receipt = Lacking
  /\ IF BuildFault(mode, on, handed) = "none"
     THEN receipt' = {ReceiptOf(mode, on, handed)} /\ builtFrom' = {[mode |-> mode, day |-> on, of |-> handed]}
     ELSE UNCHANGED <<receipt, builtFrom>>
  /\ verdict' = BuildFault(mode, on, handed) /\ asked' = Lacking
  /\ UNCHANGED <<handed, damaged, changes>>

\* Where the receipt was kept, one thing in it is made another.
WrongBodies(b) ==
  {[b EXCEPT !.input[i] = c] : i \in Inputs, c \in 0..2}
  \cup {[b EXCEPT !.mode = m] : m \in Grants \cup {"other"}}
  \cup {[b EXCEPT !.date = d] : d \in {0} \cup Days}
  \cup {[b EXCEPT !.permission.note = c] : c \in 0..2}
  \cup {[b EXCEPT !.gate = GateIdentity([grants |-> g])] : g \in Grants \cup {"hold"}}
  \cup {[b EXCEPT !.promoted = p] : p \in {Lacking, PromotedIdentity(First.sources)}}
  \cup {[b EXCEPT !.promoted = {[s EXCEPT !.until = d] : s \in b.promoted}] : d \in Days}

OtherAnswer(b) == [b EXCEPT !.input["raw"] = 3 - @]

Wrong(r) ==
  {[r EXCEPT !.body = b] : b \in WrongBodies(r.body)}
  \cup {[r EXCEPT !.generation = g] : g \in {Lacking, Generation(OtherAnswer(r.body))}}
  \cup {[r EXCEPT !.sealed = FALSE]}

Damage ==
  /\ ~damaged
  /\ \E r \in receipt : \E w \in Wrong(r) : w # r /\ receipt' = {w}
  /\ damaged' = TRUE /\ asked' = Lacking /\ verdict' = "none"
  /\ UNCHANGED <<handed, builtFrom, changes>>

Verify(mode, on) ==
  /\ verdict' = Verification(receipt, mode, on, handed)
  /\ asked' = {[mode |-> mode, day |-> on, of |-> handed]}
  /\ UNCHANGED <<handed, receipt, builtFrom, damaged, changes>>

ReceiptNext ==
  \/ Change \/ Damage
  \/ \E mode \in Grants \cup {"other"}, on \in Days \cup {0} : Build(mode, on) \/ Verify(mode, on)

ReceiptSpec == ReceiptInit /\ [][ReceiptNext]_publication

-----------------------------------------------------------------------------
ReceiptTypeOK ==
  /\ handed \in HandedOver /\ (\A r, s \in receipt : r = s) /\ damaged \in BOOLEAN /\ changes \in 0..MaxChanges
  /\ builtFrom # Lacking <=> receipt # Lacking

\* A receipt is consistent exactly with what it was built from: with every file
\* it identifies, the mode and the day, and with no other receipt's content.
ConsistentMeansOrigin == asked # Lacking => (verdict = "consistent" <=> ~damaged /\ asked = builtFrom /\ receipt # Lacking)

\* What a consistent receipt was verified against stood on its own: the
\* permission granted the mode, and a promotion had not run out that day.
ConsistentStands ==
  verdict = "consistent" => \A a \in asked :
    /\ a.of.permission.grants = a.mode
    /\ a.mode = "promoted" => \E s \in a.of.sources :
         s.effective = s.pointer.handoff /\ s.validated = s.effective /\ a.day <= s.pointer.until

\* A receipt found consistent was built from the very contents it is verified
\* against, and the permission and the promoted sources in it hold together.
ReceiptSound == ReceiptTypeOK /\ ConsistentMeansOrigin /\ ConsistentStands
=============================================================================
