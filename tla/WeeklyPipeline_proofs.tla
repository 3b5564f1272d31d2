----------------------- MODULE WeeklyPipeline_proofs -----------------------
(* Type correctness of WeeklyPipeline and its safety properties, for every   *)
(* set of research texts; before them, the safety of PublicationReceipt, for *)
(* any number of days and changes; at the end, that of DailyCheck, for every *)
(* inputs, markets and answers of a day.                                     *)
EXTENDS WeeklyPipeline, DailyCheck, PublicationReceipt, TLAPS

-----------------------------------------------------------------------------
\* The receipt of a publication.

Bodies == [mode : Grants \cup {"other"}, date : 0..LastDay, input : [Inputs -> 0..2],
           permission : [grants : Grants \cup {"hold", "unreadable"}, note : 0..2],
           gate : [mode : Grants \cup {"hold", "unreadable"}, allowed : BOOLEAN],
           promoted : SUBSET [pointer : Pointers, effective : Bytes, validation : 0..2, until : Days]]

\* What a receipt can be built from.
Buildable(m, on, f) == f \in HandedOver /\ BuildFault(m, on, f) = "none"

-----------------------------------------------------------------------------
LEMMA BuildFaultNone ==
  ASSUME NEW m, NEW on, NEW f, BuildFault(m, on, f) = "none"
  PROVE  /\ m \in Grants /\ on \in Days /\ f.permission.grants = m
         /\ m = "strict" => f.sources = Lacking
         /\ m = "promoted" => f.sources # Lacking /\ \A s \in f.sources : PromotedStands(s, on)
BY DEF BuildFault

\* What is wrong is never consistency.
LEMMA FaultsAreFaults ==
  ASSUME NEW r, NEW m, NEW on, NEW f
  PROVE  ShapeFault(r) # "consistent" /\ BuildFault(m, on, f) # "consistent"
BY DEF ShapeFault, BuildFault

LEMMA BodyIsOne ==
  ASSUME NEW m \in Grants, NEW on \in Days, NEW f \in HandedOver
  PROVE  Body(m, on, f) \in Bodies
<1>1. /\ f.input \in [Inputs -> 0..2] /\ f.permission \in [grants : Grants \cup {"hold", "unreadable"}, note : 0..2]
      /\ f.sources \subseteq Sources
  BY DEF HandedOver, Permissions, Bytes, Lacking
<1>2. PromotedIdentity(f.sources) \subseteq [pointer : Pointers, effective : Bytes, validation : 0..2, until : Days]
  BY <1>1 DEF PromotedIdentity, Sources, Pointers
<1>3. GateIdentity(f.permission) \in [mode : Grants \cup {"hold", "unreadable"}, allowed : BOOLEAN]
  BY <1>1 DEF GateIdentity
<1>4. on \in 0..LastDay
  BY ReceiptAssumption DEF Days
<1> QED
  BY <1>1, <1>2, <1>3, <1>4 DEF Body, Bodies

\* A body is made of one mode, one day and one set of files.
LEMMA BodyTells ==
  ASSUME NEW m, NEW on, NEW f \in HandedOver, NEW n, NEW at, NEW g \in HandedOver, Body(m, on, f) = Body(n, at, g)
  PROVE  m = n /\ on = at /\ f = g
<1>1. /\ m = n /\ on = at /\ f.input = g.input /\ f.permission = g.permission
      /\ PromotedIdentity(f.sources) = PromotedIdentity(g.sources)
  <2> DEFINE b == Body(m, on, f)
             d == Body(n, at, g)
  <2>1. /\ b.mode = m /\ b.date = on /\ b.input = f.input /\ b.permission = f.permission
        /\ b.promoted = PromotedIdentity(f.sources)
    BY DEF Body
  <2>2. /\ d.mode = n /\ d.date = at /\ d.input = g.input /\ d.permission = g.permission
        /\ d.promoted = PromotedIdentity(g.sources)
    BY DEF Body
  <2>3. b = d
    OBVIOUS
  <2> HIDE DEF b, d
  <2> QED
    BY <2>1, <2>2, <2>3
<1>2. f.sources = g.sources
  <2> DEFINE Told(s) == [pointer |-> s.pointer, effective |-> s.effective, validation |-> s.validated, until |-> s.pointer.until]
  <2>1. \A s, t \in Sources : Told(s) = Told(t) => s = t
    <3> SUFFICES ASSUME NEW s \in Sources, NEW t \in Sources, Told(s) = Told(t)
                 PROVE  s = t
      OBVIOUS
    <3>1. s.pointer = t.pointer /\ s.effective = t.effective /\ s.validated = t.validated
      <4>1. Told(s).pointer = Told(t).pointer /\ Told(s).effective = Told(t).effective /\ Told(s).validation = Told(t).validation
        OBVIOUS
      <4> QED
        BY <4>1
    <3> QED
      BY <3>1 DEF Sources
  <2>2. f.sources \subseteq Sources /\ g.sources \subseteq Sources
    BY DEF HandedOver, Lacking
  <2>3. PromotedIdentity(f.sources) = {Told(s) : s \in f.sources} /\ PromotedIdentity(g.sources) = {Told(s) : s \in g.sources}
    BY DEF PromotedIdentity
  <2> HIDE DEF Told
  <2>4. {Told(s) : s \in f.sources} = {Told(s) : s \in g.sources}
    BY <1>1, <2>3
  <2>5. ASSUME NEW s \in f.sources
        PROVE  s \in g.sources
    BY <2>1, <2>2, <2>4
  <2>6. ASSUME NEW s \in g.sources
        PROVE  s \in f.sources
    BY <2>1, <2>2, <2>4
  <2> QED
    BY <2>5, <2>6
<1> QED
  BY <1>1, <1>2 DEF HandedOver

LEMMA PartsOfReceipt ==
  ASSUME NEW m, NEW on, NEW f
  PROVE  LET r == ReceiptOf(m, on, f) IN r.body = Body(m, on, f) /\ r.generation = {r.body} /\ r.sealed = TRUE
BY DEF ReceiptOf, Generation

LEMMA ForemostIsOne ==
  ASSUME NEW S \in SUBSET (1..5), S # {}
  PROVE  Foremost(S) \in S
<1>1. \E i \in S : \A j \in S : i <= j
  <2>1. \A j \in S : j \in Nat /\ (j = 1 \/ j = 2 \/ j = 3 \/ j = 4 \/ j = 5)
    OBVIOUS
  <2>2. CASE 1 \in S
    BY <2>1, <2>2
  <2>3. CASE 1 \notin S /\ 2 \in S
    BY <2>1, <2>3
  <2>4. CASE 1 \notin S /\ 2 \notin S /\ 3 \in S
    BY <2>1, <2>4
  <2>5. CASE 1 \notin S /\ 2 \notin S /\ 3 \notin S /\ 4 \in S
    BY <2>1, <2>5
  <2>6. CASE 1 \notin S /\ 2 \notin S /\ 3 \notin S /\ 4 \notin S
    <3>1. PICK x \in S : TRUE
      OBVIOUS
    <3>2. \A j \in S : j = 5
      BY <2>1, <2>6
    <3>3. x = 5 /\ 5 <= 5
      BY <3>2
    <3> QED
      BY <3>2, <3>3
  <2> QED
    BY <2>2, <2>3, <2>4, <2>5, <2>6
<1> QED
  BY <1>1 DEF Foremost

\* A comparison that finds nothing found the same.
LEMMA SameWhenConsistent ==
  ASSUME NEW r, NEW e, Mismatch(r, e) = "consistent"
  PROVE  /\ r.body.mode = e.body.mode /\ r.body.date = e.body.date
         /\ \A i \in Inputs : r.body.input[i] = e.body.input[i]
         /\ r.body.permission = e.body.permission /\ r.body.gate = e.body.gate
         /\ r.body.promoted = e.body.promoted /\ r.generation = e.generation
<1>1. /\ DOMAIN Compared = 1..5
      /\ Compared[1] = "template" /\ Compared[2] = "packet" /\ Compared[3] = "prompt"
      /\ Compared[4] = "raw" /\ Compared[5] = "settings"
  BY DEF Compared
<1>2. 1..5 = {1, 2, 3, 4, 5}
  OBVIOUS
<1>3. \A i \in 1..5 : Compared[i] # "consistent"
  BY <1>1, <1>2
<1>4. Differing(r, e) # {} => Compared[Foremost(Differing(r, e))] # "consistent"
  <2>1. Differing(r, e) \in SUBSET (1..5)
    BY <1>1 DEF Differing
  <2> QED
    BY <1>3, <2>1, ForemostIsOne
<1>5. Differing(r, e) = {}
  BY <1>4 DEF Mismatch
<1>6. \A i \in Inputs : r.body.input[i] = e.body.input[i]
  BY <1>1, <1>2, <1>5 DEF Differing, Inputs
<1> QED
  BY <1>5, <1>6 DEF Mismatch

LEMMA ConsistentWhenSame ==
  ASSUME NEW r
  PROVE  Mismatch(r, r) = "consistent"
<1>1. Differing(r, r) = {}
  BY DEF Differing
<1> QED
  BY <1>1 DEF Mismatch

-----------------------------------------------------------------------------
\* A receipt verified with what it was built from is consistent.
LEMMA OwnIsConsistent ==
  ASSUME NEW m, NEW on, NEW f, Buildable(m, on, f)
  PROVE  Judgement(ReceiptOf(m, on, f), m, on, f) = "consistent"
<1>1. PICK r, b : r = ReceiptOf(m, on, f) /\ b = Body(m, on, f)
  OBVIOUS
<1>2. r.body = b /\ r.generation = {b} /\ r.sealed = TRUE
  BY <1>1, PartsOfReceipt
<1>3. /\ m \in Grants /\ on \in Days /\ f.permission.grants = m /\ f \in HandedOver
      /\ m = "strict" => f.sources = Lacking
      /\ m = "promoted" => f.sources # Lacking
  BY BuildFaultNone DEF Buildable
<1>4. b.mode = m /\ b.date = on /\ b.permission = f.permission
  BY <1>1 DEF Body
<1>5. b.input = f.input /\ b.gate = GateIdentity(f.permission) /\ b.promoted = PromotedIdentity(f.sources)
  BY <1>1 DEF Body
<1>6. (\A i \in Inputs : b.input[i] # 0) /\ b.permission.note # 0
  BY <1>3, <1>4, <1>5 DEF HandedOver, Permissions, Bytes
<1>7. b.gate.allowed = TRUE /\ b.gate.mode = b.mode
  <2>1. (m \in Grants) = TRUE
    BY <1>3
  <2>2. b.gate = [mode |-> m, allowed |-> (m \in Grants)]
    BY <1>3, <1>5 DEF GateIdentity
  <2>3. b.gate = [mode |-> m, allowed |-> TRUE]
    BY <2>1, <2>2
  <2> QED
    BY <1>4, <2>3
<1>8. (b.promoted = Lacking) = (f.sources = Lacking)
  BY <1>5, ZenonT(60) DEF PromotedIdentity, Lacking
<1>9. ShapeFault(r) = "none"
  BY <1>2, <1>3, <1>4, <1>6, <1>7, <1>8 DEF ShapeFault, Lacking
<1> QED
  BY <1>1, <1>9, ConsistentWhenSame DEF Judgement, Buildable

\* With nothing else it is.
LEMMA OthersAreNot ==
  ASSUME NEW m, NEW on, NEW f, Buildable(m, on, f), NEW n, NEW at, NEW g \in HandedOver,
         Judgement(ReceiptOf(m, on, f), n, at, g) = "consistent"
  PROVE  n = m /\ at = on /\ g = f
<1>1. PICK r, e : r = ReceiptOf(m, on, f) /\ e = ReceiptOf(n, at, g)
  OBVIOUS
<1>2. r.generation = {Body(m, on, f)} /\ e.generation = {Body(n, at, g)}
  BY <1>1, PartsOfReceipt
<1>3. Mismatch(r, e) = "consistent"
  BY <1>1, FaultsAreFaults DEF Judgement
<1>4. r.generation = e.generation
  BY <1>3, SameWhenConsistent
<1> QED
  BY <1>2, <1>4, BodyTells DEF Buildable

\* Bodies that agree in every part are one.
LEMMA BodiesAgree ==
  ASSUME NEW b \in Bodies, NEW d \in Bodies, d.mode = b.mode, d.date = b.date,
         \A i \in Inputs : d.input[i] = b.input[i], d.permission = b.permission, d.gate = b.gate,
         d.promoted = b.promoted
  PROVE  d = b
<1>1. d.input = b.input
  BY DEF Bodies
<1> QED
  BY <1>1 DEF Bodies

\* One thing made another is still a body.
LEMMA WrongBodiesAre ==
  ASSUME NEW b \in Bodies, NEW e \in WrongBodies(b)
  PROVE  e \in Bodies
<1> USE DEF Bodies
<1>0. /\ 0 \in 0..LastDay /\ Days \subseteq 0..LastDay
  BY ReceiptAssumption DEF Days
<1>1. ASSUME NEW i \in Inputs, NEW c \in 0..2, e = [b EXCEPT !.input[i] = c]
      PROVE  e \in Bodies
  <2>1. [b.input EXCEPT ![i] = c] \in [Inputs -> 0..2]
    OBVIOUS
  <2> QED
    BY <1>1, <2>1
<1>2. ASSUME NEW m \in Grants \cup {"other"}, e = [b EXCEPT !.mode = m]
      PROVE  e \in Bodies
  BY <1>2
<1>3. ASSUME NEW d \in {0} \cup Days, e = [b EXCEPT !.date = d]
      PROVE  e \in Bodies
  BY <1>0, <1>3
<1>4. ASSUME NEW c \in 0..2, e = [b EXCEPT !.permission.note = c]
      PROVE  e \in Bodies
  <2>1. [b.permission EXCEPT !.note = c] \in [grants : Grants \cup {"hold", "unreadable"}, note : 0..2]
    OBVIOUS
  <2> QED
    BY <1>4, <2>1
<1>5. ASSUME NEW g \in Grants \cup {"hold"}, e = [b EXCEPT !.gate = GateIdentity([grants |-> g])]
      PROVE  e \in Bodies
  <2>1. GateIdentity([grants |-> g]) \in [mode : Grants \cup {"hold", "unreadable"}, allowed : BOOLEAN]
    BY DEF GateIdentity
  <2> QED
    BY <1>5, <2>1
<1>6. ASSUME NEW p \in {Lacking, PromotedIdentity(First.sources)}, e = [b EXCEPT !.promoted = p]
      PROVE  e \in Bodies
  <2>1. p \in SUBSET [pointer : Pointers, effective : Bytes, validation : 0..2, until : Days]
    <3>1. First.sources \subseteq Sources
      BY ReceiptAssumption DEF First, Sources, Pointers, Bytes, Days
    <3>2. PromotedIdentity(First.sources) \subseteq [pointer : Pointers, effective : Bytes, validation : 0..2, until : Days]
      BY <3>1 DEF PromotedIdentity, Sources, Pointers
    <3> QED
      BY <3>2 DEF Lacking
  <2> QED
    BY <1>6, <2>1
<1>7. ASSUME NEW d \in Days, e = [b EXCEPT !.promoted = {[s EXCEPT !.until = d] : s \in b.promoted}]
      PROVE  e \in Bodies
  <2>1. {[s EXCEPT !.until = d] : s \in b.promoted} \in SUBSET [pointer : Pointers, effective : Bytes, validation : 0..2, until : Days]
    OBVIOUS
  <2> QED
    BY <1>7, <2>1
<1> HIDE DEF Bodies
<1>8. e \in {[b EXCEPT !.input[i] = c] : i \in Inputs, c \in 0..2} => e \in Bodies
  BY <1>1
<1>9. e \in {[b EXCEPT !.mode = m] : m \in Grants \cup {"other"}} => e \in Bodies
  BY <1>2
<1>10. e \in {[b EXCEPT !.date = d] : d \in {0} \cup Days} => e \in Bodies
  BY <1>3
<1>11. e \in {[b EXCEPT !.permission.note = c] : c \in 0..2} => e \in Bodies
  BY <1>4
<1>12. e \in {[b EXCEPT !.gate = GateIdentity([grants |-> g])] : g \in Grants \cup {"hold"}} => e \in Bodies
  BY <1>5
<1>13. e \in {[b EXCEPT !.promoted = p] : p \in {Lacking, PromotedIdentity(First.sources)}} => e \in Bodies
  BY <1>6
<1>14. e \in {[b EXCEPT !.promoted = {[s EXCEPT !.until = d] : s \in b.promoted}] : d \in Days} => e \in Bodies
  BY <1>7
<1> DEFINE gates == {[b EXCEPT !.gate = GateIdentity([grants |-> g])] : g \in Grants \cup {"hold"}}
           ends == {[b EXCEPT !.promoted = {[s EXCEPT !.until = d] : s \in b.promoted}] : d \in Days}
<1>15. WrongBodies(b) =
         {[b EXCEPT !.input[i] = c] : i \in Inputs, c \in 0..2}
         \cup {[b EXCEPT !.mode = m] : m \in Grants \cup {"other"}}
         \cup {[b EXCEPT !.date = d] : d \in {0} \cup Days}
         \cup {[b EXCEPT !.permission.note = c] : c \in 0..2}
         \cup gates
         \cup {[b EXCEPT !.promoted = p] : p \in {Lacking, PromotedIdentity(First.sources)}}
         \cup ends
  BY DEF WrongBodies
<1> HIDE DEF gates, ends
<1>16. (e \in gates => e \in Bodies) /\ (e \in ends => e \in Bodies)
  BY <1>12, <1>14, Zenon DEF gates, ends
<1> QED
  BY <1>8, <1>9, <1>10, <1>11, <1>13, <1>15, <1>16

\* A receipt in which one thing was made another is consistent with nothing.
LEMMA WrongIsNot ==
  ASSUME NEW m, NEW on, NEW f, Buildable(m, on, f), NEW w \in Wrong(ReceiptOf(m, on, f)), w # ReceiptOf(m, on, f),
         NEW n, NEW at, NEW g
  PROVE  Judgement(w, n, at, g) # "consistent"
<1> SUFFICES ASSUME Judgement(w, n, at, g) = "consistent" PROVE FALSE
  OBVIOUS
<1>1. PICK r, e, b, d : r = ReceiptOf(m, on, f) /\ e = ReceiptOf(n, at, g) /\ b = Body(m, on, f) /\ d = Body(n, at, g)
  OBVIOUS
<1>2. /\ r \in [body : {b}, generation : {{b}}, sealed : BOOLEAN] /\ r.body = b /\ r.generation = {b}
      /\ r = [body |-> b, generation |-> {b}, sealed |-> TRUE] /\ e.body = d /\ e.generation = {d}
  BY <1>1, PartsOfReceipt DEF ReceiptOf, Generation
<1>3. b \in Bodies
  BY <1>1, BodyIsOne, BuildFaultNone DEF Buildable
<1>4. Mismatch(w, e) = "consistent" /\ ShapeFault(w) = "none"
  BY <1>1, FaultsAreFaults DEF Judgement
<1>5. /\ w.body.mode = d.mode /\ w.body.date = d.date
      /\ \A i \in Inputs : w.body.input[i] = d.input[i]
      /\ w.body.permission = d.permission /\ w.body.gate = d.gate
      /\ w.body.promoted = d.promoted /\ w.generation = {d}
  BY <1>2, <1>4, SameWhenConsistent
<1>6. CASE \E x \in WrongBodies(b) : w = [r EXCEPT !.body = x]
  <2>1. PICK x \in WrongBodies(b) : w = [r EXCEPT !.body = x]
    BY <1>6
  <2>2. w.body = x /\ w.generation = {b} /\ x \in Bodies
    BY <1>2, <1>3, <2>1, WrongBodiesAre
  <2>3. d = b
    BY <1>5, <2>2
  <2>4. x = b
    BY <1>3, <1>5, <2>2, <2>3, BodiesAgree
  <2>5. [r EXCEPT !.body = b] = r
    BY <1>2
  <2> QED
    BY <1>1, <2>1, <2>4, <2>5
<1>7. CASE \E x \in {Lacking, Generation(OtherAnswer(b))} : w = [r EXCEPT !.generation = x]
  <2>1. PICK x \in {Lacking, Generation(OtherAnswer(b))} : w = [r EXCEPT !.generation = x]
    BY <1>7
  <2>2. w.generation = x /\ w.body = b
    BY <1>2, <2>1
  <2>3. d = OtherAnswer(b)
    BY <1>5, <2>1, <2>2 DEF Lacking, Generation
  <2>4. d.input["raw"] = 3 - b.input["raw"]
    BY <1>3, <2>3 DEF OtherAnswer, Bodies, Inputs
  <2>5. b.input["raw"] \in Nat
    BY <1>3 DEF Bodies, Inputs
  <2>6. b.input["raw"] = d.input["raw"]
    BY <1>5, <2>2 DEF Inputs
  <2> QED
    BY <2>4, <2>5, <2>6
<1>8. CASE w = [r EXCEPT !.sealed = FALSE]
  <2>1. w.sealed = FALSE
    BY <1>2, <1>8
  <2> QED
    BY <1>4, <2>1 DEF ShapeFault
<1>9. r.body = b
  BY <1>2
<1> QED
  BY <1>1, <1>6, <1>7, <1>8, <1>9 DEF Wrong

\* A verdict of consistency stands on its own.
LEMMA ConsistentIsBuildable ==
  ASSUME NEW found, NEW n, NEW at, NEW g \in HandedOver, Verification(found, n, at, g) = "consistent"
  PROVE  Buildable(n, at, g)
BY FaultsAreFaults DEF Verification, Judgement, Buildable

LEMMA VerifiesTheOne ==
  ASSUME NEW r, NEW n, NEW at, NEW g
  PROVE  Verification({r}, n, at, g) = Judgement(r, n, at, g)
BY DEF Verification, Lacking

-----------------------------------------------------------------------------
\* What was built, and what has become of it.
Kept ==
  \/ receipt = Lacking /\ builtFrom = Lacking /\ ~damaged
  \/ \E m \in Grants, on \in Days, f \in HandedOver :
       /\ Buildable(m, on, f) /\ builtFrom = {[mode |-> m, day |-> on, of |-> f]}
       /\ \/ ~damaged /\ receipt = {ReceiptOf(m, on, f)}
          \/ damaged /\ \E w \in Wrong(ReceiptOf(m, on, f)) : w # ReceiptOf(m, on, f) /\ receipt = {w}

\* The last verification was of the receipt as it is.
Asked ==
  \/ asked = Lacking /\ verdict # "consistent"
  \/ \E m \in Grants \cup {"other"}, on \in Days \cup {0}, f \in HandedOver :
       asked = {[mode |-> m, day |-> on, of |-> f]} /\ verdict = Verification(receipt, m, on, f)

ReceiptInv ==
  /\ handed \in HandedOver /\ damaged \in BOOLEAN /\ changes \in 0..MaxChanges
  /\ Kept /\ Asked

LEMMA FirstIsHandedOver ==
  /\ First.sources \in {{s} : s \in Sources} /\ First \in HandedOver
  /\ [First EXCEPT !.permission.grants = "strict", !.sources = Lacking] \in HandedOver
<1>1. PICK s : s = [pointer |-> [handoff |-> 1, until |-> LastDay - 1], effective |-> 1, validated |-> 1]
  OBVIOUS
<1>2. s \in Sources
  BY <1>1, ReceiptAssumption DEF Sources, Pointers, Bytes, Days
<1>3. PICK i, p : i = [x \in Inputs |-> 1] /\ p = [grants |-> "promoted", note |-> 1]
  OBVIOUS
<1>4. First = [input |-> i, permission |-> p, sources |-> {s}]
  BY <1>1, <1>3 DEF First
<1>5. i \in [Inputs -> Bytes] /\ p \in Permissions /\ [p EXCEPT !.grants = "strict"] \in Permissions
  BY <1>3 DEF Bytes, Permissions, Grants
<1>6. First \in HandedOver
  BY <1>2, <1>4, <1>5 DEF HandedOver
<1>7. [First EXCEPT !.permission.grants = "strict", !.sources = Lacking] \in HandedOver
  <2>1. PICK r : r = First
    OBVIOUS
  <2>2. r \in HandedOver /\ [r.permission EXCEPT !.grants = "strict"] \in Permissions
    BY <1>6, <2>1 DEF HandedOver, Permissions, Grants
  <2>3. [r EXCEPT !.permission.grants = "strict"] \in HandedOver
    BY <2>2 DEF HandedOver
  <2>4. [[r EXCEPT !.permission.grants = "strict"] EXCEPT !.sources = Lacking] \in HandedOver
    BY <2>3 DEF HandedOver
  <2> QED
    BY <2>1, <2>4
<1> QED
  BY <1>2, <1>4, <1>6, <1>7

LEMMA ReceiptInitInv == ReceiptInit => ReceiptInv
<1> SUFFICES ASSUME ReceiptInit PROVE ReceiptInv
  OBVIOUS
<1>1. First \in HandedOver /\ [First EXCEPT !.permission.grants = "strict", !.sources = Lacking] \in HandedOver
  BY FirstIsHandedOver
<1>2. handed \in HandedOver
  BY <1>1 DEF ReceiptInit
<1>3. damaged \in BOOLEAN
  BY DEF ReceiptInit
<1>5. changes \in 0..MaxChanges
  BY ReceiptAssumption DEF ReceiptInit
<1>4. Kept /\ Asked
  BY DEF ReceiptInit, Kept, Asked
<1> QED
  BY <1>2, <1>3, <1>4, <1>5 DEF ReceiptInv

LEMMA FilesChange ==
  ASSUME NEW f \in HandedOver, NEW g \in Changes(f)
  PROVE  g \in HandedOver
<1> USE DEF HandedOver
<1>0. f.sources \subseteq Sources
  BY DEF Lacking
<1>1. ASSUME NEW i \in Inputs, NEW c \in Bytes, g = [f EXCEPT !.input[i] = c]
      PROVE  g \in HandedOver
  <2>1. [f.input EXCEPT ![i] = c] \in [Inputs -> Bytes]
    OBVIOUS
  <2> QED
    BY <1>1, <2>1
<1>2. ASSUME NEW p \in Permissions, g = [f EXCEPT !.permission = p]
      PROVE  g \in HandedOver
  BY <1>2
<1>3. ASSUME NEW x \in {Lacking} \cup {{s} : s \in Sources}, g = [f EXCEPT !.sources = x]
      PROVE  g \in HandedOver
  BY <1>3
<1>4. ASSUME NEW p \in Pointers
      PROVE  {[s EXCEPT !.pointer = p] : s \in f.sources} \in {Lacking} \cup {{s} : s \in Sources}
  BY DEF Sources, Lacking
<1>5. ASSUME NEW c \in Bytes
      PROVE  {[s EXCEPT !.effective = c] : s \in f.sources} \in {Lacking} \cup {{s} : s \in Sources}
  BY DEF Sources, Lacking
<1>6. ASSUME NEW v \in 0..2
      PROVE  {[s EXCEPT !.validated = v] : s \in f.sources} \in {Lacking} \cup {{s} : s \in Sources}
  BY DEF Sources, Lacking
<1>7. First.sources \in {{s} : s \in Sources}
  BY FirstIsHandedOver
<1> HIDE DEF HandedOver
<1> DEFINE inputs == {[f EXCEPT !.input[i] = c] : i \in Inputs, c \in Bytes}
           permissions == {[f EXCEPT !.permission = p] : p \in Permissions}
           pointers == {[f EXCEPT !.sources = {[s EXCEPT !.pointer = p] : s \in f.sources}] : p \in Pointers}
           effectives == {[f EXCEPT !.sources = {[s EXCEPT !.effective = c] : s \in f.sources}] : c \in Bytes}
           validations == {[f EXCEPT !.sources = {[s EXCEPT !.validated = v] : s \in f.sources}] : v \in 0..2}
<1>8. g \in inputs => g \in HandedOver
  BY <1>1
<1>9. g \in permissions => g \in HandedOver
  BY <1>2
<1>10. g \in pointers => g \in HandedOver
  BY <1>3, <1>4
<1>11. g \in effectives => g \in HandedOver
  BY <1>3, <1>5
<1>12. g \in validations => g \in HandedOver
  BY <1>3, <1>6
<1>13. g \in {[f EXCEPT !.sources = Lacking], [f EXCEPT !.sources = First.sources]} => g \in HandedOver
  BY <1>3, <1>7
<1>14. Changes(f) = inputs \cup permissions \cup pointers \cup effectives \cup validations
                    \cup {[f EXCEPT !.sources = Lacking], [f EXCEPT !.sources = First.sources]}
  BY DEF Changes
<1> HIDE DEF inputs, permissions, pointers, effectives, validations
<1> QED
  BY <1>8, <1>9, <1>10, <1>11, <1>12, <1>13, <1>14

LEMMA ReceiptStep ==
  ASSUME ReceiptInv, [ReceiptNext]_publication
  PROVE  ReceiptInv'
<1> USE DEF ReceiptInv
<1>1. CASE UNCHANGED publication
  BY <1>1 DEF publication, Kept, Asked
<1>2. CASE Change
  <2>1. handed' \in HandedOver /\ changes' \in 0..MaxChanges
    BY <1>2, FilesChange, ReceiptAssumption DEF Change
  <2>2. UNCHANGED <<receipt, builtFrom, damaged, asked, verdict>>
    BY <1>2 DEF Change
  <2>3. Kept' /\ Asked'
    BY <2>2 DEF Kept, Asked
  <2> QED
    BY <2>1, <2>2, <2>3
<1>3. CASE Damage
  <2>1. receipt # Lacking
    BY <1>3 DEF Damage, Lacking
  <2>2. PICK m \in Grants, on \in Days, f \in HandedOver :
          /\ Buildable(m, on, f) /\ builtFrom = {[mode |-> m, day |-> on, of |-> f]}
          /\ receipt = {ReceiptOf(m, on, f)}
    BY <1>3, <2>1 DEF Damage, Kept
  <2>3. PICK w \in Wrong(ReceiptOf(m, on, f)) : w # ReceiptOf(m, on, f) /\ receipt' = {w}
    BY <1>3, <2>2 DEF Damage
  <2>4. Kept'
    BY <1>3, <2>2, <2>3 DEF Damage, Kept
  <2>5. Asked'
    BY <1>3 DEF Damage, Asked
  <2> QED
    BY <1>3, <2>4, <2>5 DEF Damage
<1>4. ASSUME NEW m \in Grants \cup {"other"}, NEW on \in Days \cup {0}, Build(m, on)
      PROVE  ReceiptInv'
  <2>1. Asked'
    <3>1. BuildFault(m, on, handed) # "consistent"
      BY DEF BuildFault
    <3> QED
      BY <1>4, <3>1 DEF Build, Asked
  <2>2. Kept'
    <3>1. CASE BuildFault(m, on, handed) = "none"
      <4>1. m \in Grants /\ on \in Days /\ Buildable(m, on, handed)
        BY <3>1, BuildFaultNone DEF Buildable
      <4>2. receipt' = {ReceiptOf(m, on, handed)} /\ builtFrom' = {[mode |-> m, day |-> on, of |-> handed]}
        BY <1>4, <3>1 DEF Build
      <4>3. ~damaged'
        BY <1>4 DEF Build, Kept, Lacking
      <4> QED
        BY <4>1, <4>2, <4>3 DEF Kept
    <3>2. CASE BuildFault(m, on, handed) # "none"
      BY <1>4, <3>2 DEF Build, Kept
    <3> QED
      BY <3>1, <3>2
  <2> QED
    BY <1>4, <2>1, <2>2 DEF Build
<1>5. ASSUME NEW m \in Grants \cup {"other"}, NEW on \in Days \cup {0}, Verify(m, on)
      PROVE  ReceiptInv'
  BY <1>5 DEF Verify, Kept, Asked
<1> QED
  BY <1>1, <1>2, <1>3, <1>4, <1>5 DEF ReceiptNext

LEMMA ReceiptInvSound == ReceiptInv => ReceiptSound
<1> SUFFICES ASSUME ReceiptInv PROVE ReceiptSound
  OBVIOUS
<1> USE DEF ReceiptInv
<1>1. ReceiptTypeOK
  BY DEF Kept, ReceiptTypeOK, Lacking
<1>2. ASSUME asked # Lacking
      PROVE  verdict = "consistent" <=> ~damaged /\ asked = builtFrom /\ receipt # Lacking
  <2>1. PICK n \in Grants \cup {"other"}, at \in Days \cup {0}, g \in HandedOver :
          asked = {[mode |-> n, day |-> at, of |-> g]} /\ verdict = Verification(receipt, n, at, g)
    BY <1>2 DEF Asked
  <2>2. CASE receipt = Lacking
    BY <2>1, <2>2 DEF Verification
  <2>3. CASE receipt # Lacking
    <3>1. PICK m \in Grants, on \in Days, f \in HandedOver :
            /\ Buildable(m, on, f) /\ builtFrom = {[mode |-> m, day |-> on, of |-> f]}
            /\ \/ ~damaged /\ receipt = {ReceiptOf(m, on, f)}
               \/ damaged /\ \E w \in Wrong(ReceiptOf(m, on, f)) : w # ReceiptOf(m, on, f) /\ receipt = {w}
      BY <2>3 DEF Kept
    <3>2. asked = builtFrom <=> n = m /\ at = on /\ g = f
      <4> DEFINE A == [mode |-> n, day |-> at, of |-> g]
                 B == [mode |-> m, day |-> on, of |-> f]
      <4>1. A.mode = n /\ A.day = at /\ A.of = g /\ B.mode = m /\ B.day = on /\ B.of = f
        OBVIOUS
      <4>2. asked = {A} /\ builtFrom = {B}
        BY <2>1, <3>1
      <4>3. ASSUME n = m, at = on, g = f
            PROVE  A = B
        BY <4>3
      <4> HIDE DEF A, B
      <4>4. asked = builtFrom => A = B
        BY <4>2
      <4> QED
        BY <4>1, <4>2, <4>3, <4>4
    <3>3. CASE damaged
      <4>1. PICK w \in Wrong(ReceiptOf(m, on, f)) : w # ReceiptOf(m, on, f) /\ receipt = {w}
        BY <3>1, <3>3
      <4> QED
        BY <2>1, <3>1, <3>3, <4>1, VerifiesTheOne, WrongIsNot
    <3>4. CASE ~damaged
      <4>1. verdict = Judgement(ReceiptOf(m, on, f), n, at, g)
        BY <2>1, <3>1, <3>4, VerifiesTheOne
      <4> QED
        BY <2>3, <3>1, <3>2, <3>4, <4>1, OwnIsConsistent, OthersAreNot
    <3> QED
      BY <3>3, <3>4
  <2> QED
    BY <2>2, <2>3
<1>3. ConsistentStands
  <2> SUFFICES ASSUME verdict = "consistent", NEW a \in asked
               PROVE  /\ a.of.permission.grants = a.mode
                      /\ a.mode = "promoted" => \E s \in a.of.sources :
                           s.effective = s.pointer.handoff /\ s.validated = s.effective /\ a.day <= s.pointer.until
    BY DEF ConsistentStands
  <2>1. PICK n \in Grants \cup {"other"}, at \in Days \cup {0}, g \in HandedOver :
          asked = {[mode |-> n, day |-> at, of |-> g]} /\ verdict = Verification(receipt, n, at, g)
    BY DEF Asked
  <2>2. a.mode = n /\ a.day = at /\ a.of = g
    BY <2>1
  <2>3. Buildable(n, at, g)
    BY <2>1, ConsistentIsBuildable
  <2>4. /\ g.permission.grants = n
        /\ n = "promoted" => g.sources # Lacking /\ \A s \in g.sources : PromotedStands(s, at)
    BY <2>3, BuildFaultNone DEF Buildable
  <2> QED
    BY <2>2, <2>4 DEF PromotedStands, Lacking
<1> QED
  BY <1>1, <1>2, <1>3 DEF ReceiptSound, ConsistentMeansOrigin

\* However the files change and whichever one thing is made another in the receipt
\* while it is kept, it is found consistent exactly with what it was built from, the
\* mode, the day and every file it identifies, and that held together on its own
\* (step2_publication_identity).
THEOREM ReceiptSafe == ReceiptSpec => []ReceiptSound
<1>1. ReceiptInv /\ [ReceiptNext]_publication => ReceiptInv'
  BY ReceiptStep
<1> QED
  BY ReceiptInitInv, <1>1, ReceiptInvSound, PTL DEF ReceiptSpec

-----------------------------------------------------------------------------
\* The four steps.

USE DEF States, Modes, Blocks, Pcs, Watched4, Goto, Done, ResetStep1, ResetStep2,
        ResetStep3, ResetStep4, step1Vars, step2Vars, step3Vars, step4Vars, history

\* The type invariant in two halves: what is a flag and what is a label.
Flags ==
  /\ pointer \in BOOLEAN /\ prompt2 \in BOOLEAN /\ clean2 \in BOOLEAN
  /\ marker2 \in BOOLEAN /\ prompt3 \in BOOLEAN /\ prompt4 \in BOOLEAN
  /\ everStrict \in BOOLEAN /\ unjudged \in BOOLEAN /\ noOutput \in BOOLEAN

Labels ==
  /\ decision \in States
  /\ decisionOf \in Versions \cup {None} /\ research \in Versions \cup {None}
  /\ candidate \in Versions \cup {None}
  /\ packet2 \in Modes /\ packet3 \in {"none", "pass", "fail"} /\ basis3 \in Modes
  /\ orders \in {"none", "torn", "whole"} /\ parse4 \in {"none", "ok", "failed"}
  /\ blocks \subseteq Blocks
  /\ pc \in Pcs /\ mode \in Modes

LEMMA TypeHalves == TypeOK <=> Flags /\ Labels
  BY DEF TypeOK, Flags, Labels

LEMMA StepFlags == Flags /\ [Next]_vars => Flags'
<1> SUFFICES ASSUME Flags, [Next]_vars
             PROVE  Flags'
  OBVIOUS
<1> USE DEF Flags
<1>1. CASE ParseStep1
  BY <1>1 DEF ParseStep1
<1>2. CASE ExtractResearch
  BY <1>2 DEF ExtractResearch
<1>3. CASE Normalize
  BY <1>3 DEF Normalize
<1>4. CASE Evaluate
  BY <1>4 DEF Evaluate, Persist, Swallowed, Verdicts
<1>5. CASE WriteNoOutput
  BY <1>5 DEF WriteNoOutput, Persist, Swallowed
<1>6. CASE InvalidateForH1
  BY <1>6 DEF InvalidateForH1
<1>7. CASE RebuildForH1
  BY <1>7 DEF RebuildForH1, Persist, Swallowed, Verdicts
<1>8. CASE RefuseStep2
  BY <1>8 DEF RefuseStep2, Refuse, Step2Mode
<1>9. CASE RenderStep2
  BY <1>9 DEF RenderStep2, Step2Mode
<1>10. CASE WriteMarker2
  BY <1>10 DEF WriteMarker2
<1>11. CASE ParseStep2
  BY <1>11 DEF ParseStep2, Step2Mode
<1>12. CASE WritePacket2
  BY <1>12 DEF WritePacket2
<1>13. CASE RefuseStep3
  BY <1>13 DEF RefuseStep3, Refuse
<1>14. CASE RenderStep3
  BY <1>14 DEF RenderStep3, Step3Mode
<1>15. CASE ParseStep3
  BY <1>15 DEF ParseStep3, Step3Mode
<1>16. CASE WritePacket3
  BY <1>16 DEF WritePacket3
<1>17. CASE WriteDownstreamBlock
  BY <1>17 DEF WriteDownstreamBlock
<1>18. CASE RefuseStep4
  BY <1>18 DEF RefuseStep4, Refuse
<1>19. CASE RenderStep4
  BY <1>19 DEF RenderStep4, UpstreamGuard4, FinalSafetyGate
<1>20. CASE ParseStep4
  BY <1>20 DEF ParseStep4, UpstreamGuard4, FinalSafetyGate
<1>21. CASE PublishRest
  BY <1>21 DEF PublishRest
<1>22. CASE Archive
  BY <1>22 DEF Archive, ResetRun
<1>23. CASE BeginClear
  BY <1>23 DEF BeginClear
<1>24. CASE ClearOne
  BY <1>24 DEF ClearOne, ClearFile1
<1>25. CASE EndClear
  BY <1>25 DEF EndClear, ResetRun
<1>26. CASE Crash
  BY <1>26 DEF Crash
<1>27. CASE UNCHANGED vars
  BY <1>27 DEF vars
<1> QED
  BY <1>1, <1>2, <1>3, <1>4, <1>5, <1>6, <1>7, <1>8, <1>9, <1>10, <1>11,
     <1>12, <1>13, <1>14, <1>15, <1>16, <1>17, <1>18, <1>19, <1>20, <1>21,
     <1>22, <1>23, <1>24, <1>25, <1>26, <1>27
     DEF Next, Step1, Step2, Step3, Step4, Reset

\* A refusal adds a block of the known names and may fail the parse.
LEMMA RefuseLabels ==
  ASSUME Labels, NEW b \in Blocks, Refuse(b), parse4' \in {parse4, "failed"}
  PROVE  Labels'
<1>1. blocks' \subseteq Blocks
  BY DEF Labels, Refuse
<1> QED
  BY <1>1 DEF Labels, Refuse

LEMMA StepLabels == Labels /\ [Next]_vars => Labels'
<1> SUFFICES ASSUME Labels, [Next]_vars
             PROVE  Labels'
  OBVIOUS
<1> USE DEF Labels
<1>1. CASE ParseStep1
  BY <1>1 DEF ParseStep1
<1>2. CASE ExtractResearch
  BY <1>2 DEF ExtractResearch
<1>3. CASE Normalize
  BY <1>3 DEF Normalize
<1>4. CASE Evaluate
  BY <1>4 DEF Evaluate, Persist, Swallowed, Verdicts
<1>5. CASE WriteNoOutput
  BY <1>5 DEF WriteNoOutput, Persist, Swallowed
<1>6. CASE InvalidateForH1
  BY <1>6 DEF InvalidateForH1
<1>7. CASE RebuildForH1
  BY <1>7 DEF RebuildForH1, Persist, Swallowed, Verdicts
<1>8. CASE RefuseStep2
  BY <1>8, RefuseLabels DEF RefuseStep2
<1>9. CASE RenderStep2
  BY <1>9 DEF RenderStep2, Step2Mode
<1>10. CASE WriteMarker2
  BY <1>10 DEF WriteMarker2
<1>11. CASE ParseStep2
  BY <1>11 DEF ParseStep2, Step2Mode
<1>12. CASE WritePacket2
  BY <1>12 DEF WritePacket2
<1>13. CASE RefuseStep3
  BY <1>13, RefuseLabels DEF RefuseStep3
<1>14. CASE RenderStep3
  BY <1>14 DEF RenderStep3, Step3Mode
<1>15. CASE ParseStep3
  BY <1>15 DEF ParseStep3, Step3Mode
<1>16. CASE WritePacket3
  BY <1>16 DEF WritePacket3
<1>17. CASE WriteDownstreamBlock
  BY <1>17 DEF WriteDownstreamBlock
<1>18. CASE RefuseStep4
  BY <1>18, RefuseLabels DEF RefuseStep4
<1>19. CASE RenderStep4
  BY <1>19 DEF RenderStep4, UpstreamGuard4, FinalSafetyGate
<1>20. CASE ParseStep4
  BY <1>20 DEF ParseStep4, UpstreamGuard4, FinalSafetyGate
<1>21. CASE PublishRest
  BY <1>21 DEF PublishRest
<1>22. CASE Archive
  BY <1>22 DEF Archive, ResetRun
<1>23. CASE BeginClear
  BY <1>23 DEF BeginClear
<1>24. CASE ClearOne
  <2>1. blocks' \subseteq blocks
    BY <1>24 DEF ClearOne, ClearFile1
  <2>2. decision' \in {decision, "absent"} /\ decisionOf' \in {decisionOf, None}
    BY <1>24 DEF ClearOne, ClearFile1
  <2>3. /\ research' \in {research, None} /\ candidate' \in {candidate, None}
        /\ packet2' \in {packet2, "none"}
    BY <1>24 DEF ClearOne, ClearFile1
  <2>4. packet3' \in {packet3, "none"} /\ basis3' \in {basis3, "none"}
    BY <1>24 DEF ClearOne, ClearFile1
  <2>5. orders' \in {orders, "none"} /\ parse4' \in {parse4, "none"}
    BY <1>24 DEF ClearOne, ClearFile1
  <2>6. UNCHANGED <<pc, mode>>
    BY <1>24 DEF ClearOne, ClearFile1
  <2> QED
    BY <2>1, <2>2, <2>3, <2>4, <2>5, <2>6
<1>25. CASE EndClear
  BY <1>25 DEF EndClear, ResetRun
<1>26. CASE Crash
  BY <1>26 DEF Crash
<1>27. CASE UNCHANGED vars
  BY <1>27 DEF vars
<1> QED
  BY <1>1, <1>2, <1>3, <1>4, <1>5, <1>6, <1>7, <1>8, <1>9, <1>10, <1>11,
     <1>12, <1>13, <1>14, <1>15, <1>16, <1>17, <1>18, <1>19, <1>20, <1>21,
     <1>22, <1>23, <1>24, <1>25, <1>26, <1>27
     DEF Next, Step1, Step2, Step3, Step4, Reset

LEMMA StepTypeOK == TypeOK /\ [Next]_vars => TypeOK'
<1>1. (Flags /\ Labels)' => TypeOK'
  BY DEF TypeOK, Flags, Labels
<1> QED
  BY <1>1, TypeHalves, StepFlags, StepLabels

\* Every file the commands exchange always holds a value its readers handle.
THEOREM TypeCorrect == Spec => []TypeOK
<1>1. Init => TypeOK
  BY DEF Init, TypeOK
<1> QED
  BY <1>1, StepTypeOK, PTL DEF Spec

-----------------------------------------------------------------------------
\* Before the first STRICT_FRESH verdict no command is past a gate that leads
\* to an audited packet or an order file.
StrictInv ==
  ~everStrict => /\ decision # "STRICT_FRESH"
                 /\ pc \notin {"packet3", "publish"}
                 /\ packet3 = "none" /\ ~prompt4 /\ orders = "none"

LEMMA StepStrictInv == StrictInv /\ [Next]_vars => StrictInv'
<1> SUFFICES ASSUME StrictInv, [Next]_vars
             PROVE  StrictInv'
  OBVIOUS
<1> USE DEF StrictInv
<1>1. CASE ParseStep1
  BY <1>1 DEF ParseStep1
<1>2. CASE ExtractResearch
  BY <1>2 DEF ExtractResearch
<1>3. CASE Normalize
  BY <1>3 DEF Normalize
<1>4. CASE Evaluate
  <2>1. CASE \E v \in Verdicts(FALSE) : Persist(v)
    BY <1>4, <2>1 DEF Evaluate, Persist
  <2>2. CASE Swallowed
    BY <1>4, <2>2 DEF Evaluate, Swallowed
  <2> QED
    BY <1>4, <2>1, <2>2 DEF Evaluate
<1>5. CASE WriteNoOutput
  BY <1>5 DEF WriteNoOutput, Persist, Swallowed
<1>6. CASE InvalidateForH1
  BY <1>6 DEF InvalidateForH1
<1>7. CASE RebuildForH1
  BY <1>7 DEF RebuildForH1, Persist, Swallowed, Verdicts
<1>8. CASE RefuseStep2
  BY <1>8 DEF RefuseStep2, Refuse, Step2Mode
<1>9. CASE RenderStep2
  BY <1>9 DEF RenderStep2, Step2Mode
<1>10. CASE WriteMarker2
  BY <1>10 DEF WriteMarker2
<1>11. CASE ParseStep2
  BY <1>11 DEF ParseStep2, Step2Mode
<1>12. CASE WritePacket2
  BY <1>12 DEF WritePacket2
<1>13. CASE RefuseStep3
  BY <1>13 DEF RefuseStep3, Refuse
<1>14. CASE RenderStep3
  BY <1>14 DEF RenderStep3, Step3Mode
<1>15. CASE ParseStep3
  BY <1>15 DEF ParseStep3, Step3Mode
<1>16. CASE WritePacket3
  BY <1>16 DEF WritePacket3
<1>17. CASE WriteDownstreamBlock
  BY <1>17 DEF WriteDownstreamBlock
<1>18. CASE RefuseStep4
  BY <1>18 DEF RefuseStep4, Refuse
<1>19. CASE RenderStep4
  BY <1>19 DEF RenderStep4, UpstreamGuard4, FinalSafetyGate
<1>20. CASE ParseStep4
  BY <1>20 DEF ParseStep4, UpstreamGuard4, FinalSafetyGate
<1>21. CASE PublishRest
  BY <1>21 DEF PublishRest
<1>22. CASE Archive
  BY <1>22 DEF Archive, ResetRun
<1>23. CASE BeginClear
  BY <1>23 DEF BeginClear
<1>24. CASE ClearOne
  BY <1>24 DEF ClearOne, ClearFile1
<1>25. CASE EndClear
  BY <1>25 DEF EndClear, ResetRun
<1>26. CASE Crash
  BY <1>26 DEF Crash
<1>27. CASE UNCHANGED vars
  BY <1>27 DEF vars
<1> QED
  BY <1>1, <1>2, <1>3, <1>4, <1>5, <1>6, <1>7, <1>8, <1>9, <1>10, <1>11,
     <1>12, <1>13, <1>14, <1>15, <1>16, <1>17, <1>18, <1>19, <1>20, <1>21,
     <1>22, <1>23, <1>24, <1>25, <1>26, <1>27
     DEF Next, Step1, Step2, Step3, Step4, Reset

\* No chain of commands, refusals, crashes and partial resets reaches an
\* audited packet, a Step 4 prompt or an order file without STRICT_FRESH.
THEOREM OrdersNeedStrict == Spec => []NoOrdersWithoutStrict
<1>1. Init => StrictInv
  BY DEF Init, StrictInv
<1>2. StrictInv => NoOrdersWithoutStrict
  BY DEF StrictInv, NoOrdersWithoutStrict
<1> QED
  BY <1>1, <1>2, StepStrictInv, PTL DEF Spec

-----------------------------------------------------------------------------
\* Candidate and research on disk are of one parse, or a parse died unjudged.
VerdictInv ==
  /\ VerdictJudgesResearch
  /\ ~unjudged /\ pc # "normalize" /\ None \notin {candidate, research}
       => candidate = research

LEMMA StepVerdictInv == VerdictInv /\ [Next]_vars => VerdictInv'
<1> SUFFICES ASSUME VerdictInv, [Next]_vars
             PROVE  VerdictInv'
  OBVIOUS
<1> USE DEF VerdictInv, VerdictJudgesResearch
<1>1. CASE ParseStep1
  BY <1>1 DEF ParseStep1
<1>2. CASE ExtractResearch
  BY <1>2 DEF ExtractResearch
<1>3. CASE Normalize
  BY <1>3 DEF Normalize
<1>4. CASE Evaluate
  BY <1>4 DEF Evaluate, Persist, Swallowed, Verdicts
<1>5. CASE WriteNoOutput
  BY <1>5 DEF WriteNoOutput, Persist, Swallowed
<1>6. CASE InvalidateForH1
  BY <1>6 DEF InvalidateForH1
<1>7. CASE RebuildForH1
  BY <1>7 DEF RebuildForH1, Persist, Swallowed, Verdicts
<1>8. CASE RefuseStep2
  BY <1>8 DEF RefuseStep2, Refuse, Step2Mode
<1>9. CASE RenderStep2
  BY <1>9 DEF RenderStep2, Step2Mode
<1>10. CASE WriteMarker2
  BY <1>10 DEF WriteMarker2
<1>11. CASE ParseStep2
  BY <1>11 DEF ParseStep2, Step2Mode
<1>12. CASE WritePacket2
  BY <1>12 DEF WritePacket2
<1>13. CASE RefuseStep3
  BY <1>13 DEF RefuseStep3, Refuse
<1>14. CASE RenderStep3
  BY <1>14 DEF RenderStep3, Step3Mode
<1>15. CASE ParseStep3
  BY <1>15 DEF ParseStep3, Step3Mode
<1>16. CASE WritePacket3
  BY <1>16 DEF WritePacket3
<1>17. CASE WriteDownstreamBlock
  BY <1>17 DEF WriteDownstreamBlock
<1>18. CASE RefuseStep4
  BY <1>18 DEF RefuseStep4, Refuse
<1>19. CASE RenderStep4
  BY <1>19 DEF RenderStep4, UpstreamGuard4, FinalSafetyGate
<1>20. CASE ParseStep4
  BY <1>20 DEF ParseStep4, UpstreamGuard4, FinalSafetyGate
<1>21. CASE PublishRest
  BY <1>21 DEF PublishRest
<1>22. CASE Archive
  BY <1>22 DEF Archive, ResetRun
<1>23. CASE BeginClear
  BY <1>23 DEF BeginClear
<1>24. CASE ClearOne
  BY <1>24 DEF ClearOne, ClearFile1
<1>25. CASE EndClear
  BY <1>25 DEF EndClear, ResetRun
<1>26. CASE Crash
  BY <1>26 DEF Crash
<1>27. CASE UNCHANGED vars
  BY <1>27 DEF vars
<1> QED
  BY <1>1, <1>2, <1>3, <1>4, <1>5, <1>6, <1>7, <1>8, <1>9, <1>10, <1>11,
     <1>12, <1>13, <1>14, <1>15, <1>16, <1>17, <1>18, <1>19, <1>20, <1>21,
     <1>22, <1>23, <1>24, <1>25, <1>26, <1>27
     DEF Next, Step1, Step2, Step3, Step4, Reset

\* Whatever crashes or runs in between, a verdict admitting a later step is a
\* verdict on the research that step will read, or a parse died unjudged.
THEOREM VerdictSafe == Spec => []VerdictJudgesResearch
<1>1. Init => VerdictInv
  BY DEF Init, VerdictInv, VerdictJudgesResearch
<1>2. VerdictInv => VerdictJudgesResearch
  BY DEF VerdictInv
<1> QED
  BY <1>1, <1>2, StepVerdictInv, PTL DEF Spec

-----------------------------------------------------------------------------
\* A parse that exited well was the last to touch the order files.
ExitInv == parse4 = "ok" => orders # "torn"

LEMMA StepExitInv == TypeOK /\ ExitInv /\ [Next]_vars => ExitInv'
<1> SUFFICES ASSUME TypeOK, ExitInv, [Next]_vars
             PROVE  ExitInv'
  OBVIOUS
<1> USE DEF ExitInv
<1>1. CASE ParseStep1
  BY <1>1 DEF ParseStep1
<1>2. CASE ExtractResearch
  BY <1>2 DEF ExtractResearch
<1>3. CASE Normalize
  BY <1>3 DEF Normalize
<1>4. CASE Evaluate
  BY <1>4 DEF Evaluate, Persist, Swallowed, Verdicts
<1>5. CASE WriteNoOutput
  BY <1>5 DEF WriteNoOutput, Persist, Swallowed
<1>6. CASE InvalidateForH1
  BY <1>6 DEF InvalidateForH1
<1>7. CASE RebuildForH1
  BY <1>7 DEF RebuildForH1, Persist, Swallowed, Verdicts
<1>8. CASE RefuseStep2
  BY <1>8 DEF RefuseStep2, Refuse, Step2Mode
<1>9. CASE RenderStep2
  BY <1>9 DEF RenderStep2, Step2Mode
<1>10. CASE WriteMarker2
  BY <1>10 DEF WriteMarker2
<1>11. CASE ParseStep2
  BY <1>11 DEF ParseStep2, Step2Mode
<1>12. CASE WritePacket2
  BY <1>12 DEF WritePacket2
<1>13. CASE RefuseStep3
  BY <1>13 DEF RefuseStep3, Refuse
<1>14. CASE RenderStep3
  BY <1>14 DEF RenderStep3, Step3Mode
<1>15. CASE ParseStep3
  BY <1>15 DEF ParseStep3, Step3Mode
<1>16. CASE WritePacket3
  BY <1>16 DEF WritePacket3
<1>17. CASE WriteDownstreamBlock
  BY <1>17 DEF WriteDownstreamBlock
<1>18. CASE RefuseStep4
  BY <1>18 DEF RefuseStep4, Refuse
<1>19. CASE RenderStep4
  BY <1>19 DEF RenderStep4, UpstreamGuard4, FinalSafetyGate
<1>20. CASE ParseStep4
  BY <1>20 DEF ParseStep4, UpstreamGuard4, FinalSafetyGate
<1>21. CASE PublishRest
  BY <1>21 DEF PublishRest
<1>22. CASE Archive
  BY <1>22 DEF Archive, ResetRun
<1>23. CASE BeginClear
  BY <1>23 DEF BeginClear
<1>24. CASE ClearOne
  BY <1>24 DEF ClearOne, ClearFile1
<1>25. CASE EndClear
  BY <1>25 DEF EndClear, ResetRun
<1>26. CASE Crash
  BY <1>26 DEF Crash
<1>27. CASE UNCHANGED vars
  BY <1>27 DEF vars
<1> QED
  BY <1>1, <1>2, <1>3, <1>4, <1>5, <1>6, <1>7, <1>8, <1>9, <1>10, <1>11,
     <1>12, <1>13, <1>14, <1>15, <1>16, <1>17, <1>18, <1>19, <1>20, <1>21,
     <1>22, <1>23, <1>24, <1>25, <1>26, <1>27
     DEF Next, Step1, Step2, Step3, Step4, Reset

\* With a verdict on disk the acceptance checklist passes no half-replaced set
\* of order files and none whose research is no longer STRICT_FRESH.
THEOREM ChecklistSafe == Spec => []ChecklistSound
<1>1. Init => ExitInv
  BY DEF Init, ExitInv
<1>2. TypeOK /\ ExitInv => ChecklistSound
  BY DEF TypeOK, ExitInv, ChecklistSound, ChecklistPasses, RunBlocked
<1> QED
  BY <1>1, <1>2, TypeCorrect, StepExitInv, PTL DEF Spec

-----------------------------------------------------------------------------
\* Between the first and the last canonical file nothing that admitted the
\* publication has changed.
PublishInv ==
  pc = "publish" =>
    /\ decision = "STRICT_FRESH" /\ packet3 = "pass" /\ clean2
    /\ blocks \cap (Watched4 \cup {"step4"}) = {}

LEMMA StepPublishInv == PublishInv /\ [Next]_vars => PublishInv'
<1> SUFFICES ASSUME PublishInv, [Next]_vars
             PROVE  PublishInv'
  OBVIOUS
<1> USE DEF PublishInv
<1>1. CASE ParseStep1
  BY <1>1 DEF ParseStep1
<1>2. CASE ExtractResearch
  BY <1>2 DEF ExtractResearch
<1>3. CASE Normalize
  BY <1>3 DEF Normalize
<1>4. CASE Evaluate
  BY <1>4 DEF Evaluate, Persist, Swallowed, Verdicts
<1>5. CASE WriteNoOutput
  BY <1>5 DEF WriteNoOutput, Persist, Swallowed
<1>6. CASE InvalidateForH1
  BY <1>6 DEF InvalidateForH1
<1>7. CASE RebuildForH1
  BY <1>7 DEF RebuildForH1, Persist, Swallowed, Verdicts
<1>8. CASE RefuseStep2
  BY <1>8 DEF RefuseStep2, Refuse, Step2Mode
<1>9. CASE RenderStep2
  BY <1>9 DEF RenderStep2, Step2Mode
<1>10. CASE WriteMarker2
  BY <1>10 DEF WriteMarker2
<1>11. CASE ParseStep2
  BY <1>11 DEF ParseStep2, Step2Mode
<1>12. CASE WritePacket2
  BY <1>12 DEF WritePacket2
<1>13. CASE RefuseStep3
  BY <1>13 DEF RefuseStep3, Refuse
<1>14. CASE RenderStep3
  BY <1>14 DEF RenderStep3, Step3Mode
<1>15. CASE ParseStep3
  BY <1>15 DEF ParseStep3, Step3Mode
<1>16. CASE WritePacket3
  BY <1>16 DEF WritePacket3
<1>17. CASE WriteDownstreamBlock
  BY <1>17 DEF WriteDownstreamBlock
<1>18. CASE RefuseStep4
  BY <1>18 DEF RefuseStep4, Refuse
<1>19. CASE RenderStep4
  BY <1>19 DEF RenderStep4, UpstreamGuard4, FinalSafetyGate
<1>20. CASE ParseStep4
  BY <1>20 DEF ParseStep4, UpstreamGuard4, FinalSafetyGate
<1>21. CASE PublishRest
  BY <1>21 DEF PublishRest
<1>22. CASE Archive
  BY <1>22 DEF Archive, ResetRun
<1>23. CASE BeginClear
  BY <1>23 DEF BeginClear
<1>24. CASE ClearOne
  BY <1>24 DEF ClearOne, ClearFile1
<1>25. CASE EndClear
  BY <1>25 DEF EndClear, ResetRun
<1>26. CASE Crash
  BY <1>26 DEF Crash
<1>27. CASE UNCHANGED vars
  BY <1>27 DEF vars
<1> QED
  BY <1>1, <1>2, <1>3, <1>4, <1>5, <1>6, <1>7, <1>8, <1>9, <1>10, <1>11,
     <1>12, <1>13, <1>14, <1>15, <1>16, <1>17, <1>18, <1>19, <1>20, <1>21,
     <1>22, <1>23, <1>24, <1>25, <1>26, <1>27
     DEF Next, Step1, Step2, Step3, Step4, Reset

LEMMA StepPublishAdmitted ==
  ASSUME PublishInv, [Next]_vars, orders' # orders, orders' # "none"
  PROVE  /\ decision = "STRICT_FRESH" /\ packet3 = "pass" /\ clean2
         /\ blocks \cap (Watched4 \cup {"step4"}) = {}
<1> USE DEF PublishInv
<1>1. CASE ParseStep1
  BY <1>1 DEF ParseStep1
<1>2. CASE ExtractResearch
  BY <1>2 DEF ExtractResearch
<1>3. CASE Normalize
  BY <1>3 DEF Normalize
<1>4. CASE Evaluate
  BY <1>4 DEF Evaluate, Persist, Swallowed, Verdicts
<1>5. CASE WriteNoOutput
  BY <1>5 DEF WriteNoOutput, Persist, Swallowed
<1>6. CASE InvalidateForH1
  BY <1>6 DEF InvalidateForH1
<1>7. CASE RebuildForH1
  BY <1>7 DEF RebuildForH1, Persist, Swallowed, Verdicts
<1>8. CASE RefuseStep2
  BY <1>8 DEF RefuseStep2, Refuse, Step2Mode
<1>9. CASE RenderStep2
  BY <1>9 DEF RenderStep2, Step2Mode
<1>10. CASE WriteMarker2
  BY <1>10 DEF WriteMarker2
<1>11. CASE ParseStep2
  BY <1>11 DEF ParseStep2, Step2Mode
<1>12. CASE WritePacket2
  BY <1>12 DEF WritePacket2
<1>13. CASE RefuseStep3
  BY <1>13 DEF RefuseStep3, Refuse
<1>14. CASE RenderStep3
  BY <1>14 DEF RenderStep3, Step3Mode
<1>15. CASE ParseStep3
  BY <1>15 DEF ParseStep3, Step3Mode
<1>16. CASE WritePacket3
  BY <1>16 DEF WritePacket3
<1>17. CASE WriteDownstreamBlock
  BY <1>17 DEF WriteDownstreamBlock
<1>18. CASE RefuseStep4
  BY <1>18 DEF RefuseStep4, Refuse
<1>19. CASE RenderStep4
  BY <1>19 DEF RenderStep4, UpstreamGuard4, FinalSafetyGate
<1>20. CASE ParseStep4
  BY <1>20 DEF ParseStep4, UpstreamGuard4, FinalSafetyGate
<1>21. CASE PublishRest
  BY <1>21 DEF PublishRest
<1>22. CASE Archive
  BY <1>22 DEF Archive, ResetRun
<1>23. CASE BeginClear
  BY <1>23 DEF BeginClear
<1>24. CASE ClearOne
  BY <1>24 DEF ClearOne, ClearFile1
<1>25. CASE EndClear
  BY <1>25 DEF EndClear, ResetRun
<1>26. CASE Crash
  BY <1>26 DEF Crash
<1>27. CASE UNCHANGED vars
  BY <1>27 DEF vars
<1> QED
  BY <1>1, <1>2, <1>3, <1>4, <1>5, <1>6, <1>7, <1>8, <1>9, <1>10, <1>11,
     <1>12, <1>13, <1>14, <1>15, <1>16, <1>17, <1>18, <1>19, <1>20, <1>21,
     <1>22, <1>23, <1>24, <1>25, <1>26, <1>27
     DEF Next, Step1, Step2, Step3, Step4, Reset

\* Canonical order files are only ever replaced while the research is
\* STRICT_FRESH, its audit passed and no watched block stands.
THEOREM PublishSafe == Spec => PublishAdmitted
<1>1. Init => PublishInv
  BY DEF Init, PublishInv
<1>2. PublishInv /\ [Next]_vars
        => [ orders' # orders /\ orders' # "none"
             => /\ decision = "STRICT_FRESH" /\ packet3 = "pass" /\ clean2
                /\ blocks \cap (Watched4 \cup {"step4"}) = {} ]_vars
  BY StepPublishAdmitted
<1> QED
  BY <1>1, <1>2, StepPublishInv, PTL DEF Spec, PublishAdmitted

-----------------------------------------------------------------------------
(* The daily check.  A published action must be of the week its parse read,  *)
(* so the invariant says, of every step of a command, what its readings are: *)
(* files that stood since it began, as numbers where they are compared.      *)

Priced(s) == \A t \in DOMAIN s : s[t].close \in Numbers /\ s[t].atr \in Numbers

\* What stood together: inputs of the day, and a snapshot whose prices are
\* numbers or missing.
Proper(m) ==
  /\ \A f \in InputFiles : m[f] \in Could(f)
  /\ m["snapshot"] \in {Missing, Torn} \/ Priced(m["snapshot"])

DayTyped ==
  /\ files = [f \in InputFiles \cup Made |-> files[f]]
  /\ cmd = [job |-> cmd.job, step |-> cmd.step, got |-> cmd.got]
  /\ cmd = Idle \/ (cmd.job \in DOMAIN Steps /\ cmd.step \in 1..Len(Steps[cmd.job]))
  /\ Proper(files)
  /\ \A m \in moments : Proper(m)
  /\ cmd.job = "parse" => Standing(files) \in moments

Stood(f) == {m[f] : m \in moments}
Heard(f) == f \in DOMAIN cmd.got /\ cmd.got[f] \in Stood(f) \ {Missing}
Legible(s) == IF s = Torn THEN Missing ELSE s

\* The notes due were computed from files that stood during the parse.
DueHeard ==
  /\ "due" \in DOMAIN cmd.got
  /\ \E p \in Stood("portfolio") \ {Missing, Blank}, s \in Stood("snapshot"),
        k \in Stood("packet") \ {Missing}, y \in Stood("settings") \ {Missing, Blank} :
       cmd.got["due"] = Due(p, Legible(s), k, y)

ParseHeard ==
  cmd.job = "parse" =>
    /\ cmd.step \in 2..4 => Heard("portfolio") /\ cmd.got["portfolio"] # Blank
    /\ cmd.step \in 3..4 => /\ "snapshot" \in DOMAIN cmd.got
                            /\ \E s \in Stood("snapshot") : cmd.got["snapshot"] = Legible(s)
    /\ cmd.step = 4 \/ cmd.step >= 7 => Heard("packet")
    /\ cmd.step >= 5 => DueHeard
    /\ cmd.step >= 6 => "answer" \in DOMAIN cmd.got
    /\ cmd.step >= 8 => Heard("template4")
    /\ cmd.step >= 9 => Heard("export")
    /\ cmd.step >= 10 => Heard("settings")
    /\ cmd.step >= 11 => Checked
    /\ cmd.step >= 12 => files.text = cmd.got["answer"]

Given(f) == f \in DOMAIN cmd.got /\ cmd.got[f] \in Could(f) \ {Missing}

GenerateHeard ==
  cmd.job = "generate" =>
    /\ cmd.step >= 2 => Given("packet")
    /\ cmd.step >= 3 => Given("template4")
    /\ cmd.step >= 4 => Given("export")
    /\ cmd.step >= 6 => Priced(files.raw)
    /\ cmd.step >= 7 => "raw" \in DOMAIN cmd.got /\ cmd.got["raw"] = files.raw
    /\ cmd.step = 9 => files.snapshot = SnapshotOf(files.raw)

Agreed ==
  /\ "parse" \notin cut /\ ~(cmd.job = "parse" /\ cmd.step >= 11) => files.text = files.actions
  /\ "generate" \notin cut /\ files.error = Missing /\ files.raw # Missing
       /\ ~(cmd.job = "generate" /\ cmd.step \in 5 .. 8) => files.snapshot = SnapshotOf(files.raw)

DayInv == DayTyped /\ ParseHeard /\ GenerateHeard /\ Agreed /\ ActionsOfTheWeek /\ EdgeIsNoted

-----------------------------------------------------------------------------
\* A close outside the narrower corridor is within the band of its tolerance.
LEMMA StrayedNear ==
  ASSUME NEW row, NEW price, NEW policy, NEW role,
         row.baseline \in Numbers, price.close \in Numbers, price.atr \in Numbers,
         Figures(policy.cap), Figures(policy.atrMultiple), Figures(policy.anchorBand),
         Strayed(row, price, policy, role)
  PROVE  NearAnchor(row, price, policy, role)
<1> DEFINE tolerance == Tolerance(price, policy, role)
           band == Figure(policy.anchorBand, role)
           multiple == Figure(policy.atrMultiple, role)
           other == IF Missing \in {multiple, price.atr} THEN Missing ELSE multiple * price.atr
<1>1. /\ Figure(policy.cap, role) \in Numbers
      /\ multiple \in Numbers
      /\ band \in Numbers
  BY DEF Figures, Figure, Numbers
<1>2. other \in Numbers
  BY <1>1 DEF Numbers
<1>3. tolerance = Wider(Figure(policy.cap, role), other)
  BY DEF Tolerance
<1>4. tolerance \in Numbers
  BY <1>1, <1>2, <1>3 DEF Wider
<1>5. /\ Missing \notin {price.close, row.baseline, tolerance, band}
      /\ \/ 100 * price.close >= (100 + (tolerance - band)) * row.baseline
         \/ 100 * price.close <= (100 - (tolerance - band)) * row.baseline
  BY DEF Strayed
<1>6. price.close \in Int /\ row.baseline \in Int /\ tolerance \in Int /\ band \in Int
  BY <1>1, <1>4, <1>5 DEF Numbers
<1> HIDE DEF tolerance, band
<1>7. ASSUME NEW c \in Int, NEW b \in Int, NEW d \in Int,
             100 * c >= (100 + d) * b \/ 100 * c <= (100 - d) * b
      PROVE  d * b <= 100 * Drift(c, b)
  <2>1. PICK e \in Int : d * b = e
    OBVIOUS
  <2>2. (100 + d) * b = 100 * b + e /\ (100 - d) * b = 100 * b - e
    BY <2>1
  <2>3. e <= 100 * Drift(c, b)
    BY <2>2, <1>7 DEF Drift
  <2> QED
    BY <2>1, <2>3
<1>8. (tolerance - band) * row.baseline <= 100 * Drift(price.close, row.baseline)
  <2>1. PICK d \in Int : d = tolerance - band
    BY <1>6
  <2>2. d * row.baseline <= 100 * Drift(price.close, row.baseline)
    BY <1>5, <1>6, <1>7, <2>1
  <2> QED
    BY <2>1, <2>2
<1> QED
  BY <1>5, <1>8 DEF NearAnchor, tolerance, band

\* A ticker near its edge has its note among the due.
LEMMA NoteIsDue ==
  ASSUME NEW p, NEW s, NEW k, NEW y, NEW t,
         s # Missing, t \in DOMAIN p, t \in DOMAIN s,
         NearAnchor(p[t], s[t], y, RoleOf(t, p[t], k, y))
  PROVE  <<t, "near_anchor_drift_edge">> \in Due(p, s, k, y)
  BY DEF Due

\* An accepted ticker is one of the week.
LEMMA AllowedNamed ==
  ASSUME NEW k, NEW u, NEW o, NEW t \in Allowlist(k, u, o)
  PROVE  t \in k.ready \/ (k.ready = {} /\ (t \in Named(u) \/ t \in Named(o)))
<1>1. CASE k.ready # {}
  BY <1>1 DEF Allowlist
<1>2. CASE k.ready = {} /\ Named(u) # {}
  BY <1>2 DEF Allowlist
<1>3. CASE k.ready = {} /\ Named(u) = {}
  BY <1>3 DEF Allowlist
<1> QED
  BY <1>1, <1>2, <1>3

LEMMA WeekPriced ==
  ASSUME NEW k \in Could("packet") \ {Missing},
         NEW u \in Could("template4") \ {Missing}, NEW o \in Could("export") \ {Missing},
         NEW market \in Markets
  PROVE  Priced([t \in Allowlist(k, u, o) |-> market[t]])
<1>1. Allowlist(k, u, o) \subseteq DOMAIN market
  BY AllowedNamed, DailyAssumption
<1> QED
  BY <1>1, DailyAssumption DEF Priced

LEMMA SnapshotPriced ==
  ASSUME NEW raw, Priced(raw)
  PROVE  Priced(SnapshotOf(raw))
  BY DEF Priced, SnapshotOf

-----------------------------------------------------------------------------
\* Where a command stands.

LEMMA Lengths ==
  /\ DOMAIN Steps = {"generate", "render", "parse"}
  /\ Len(Steps["generate"]) = 9 /\ Len(Steps["render"]) = 10 /\ Len(Steps["parse"]) = 13
  BY DEF Steps, GenerateSteps, RenderSteps, ParseSteps

LEMMA ParseAt ==
  ASSUME DayTyped, cmd.job = "parse", NEW verb, NEW f, At(verb, f)
  PROVE  \/ cmd.step = 1 /\ verb = "read" /\ f = "portfolio"
         \/ cmd.step = 2 /\ verb = "read" /\ f = "snapshot"
         \/ cmd.step = 3 /\ verb = "gate" /\ f = "packet"
         \/ cmd.step = 4 /\ verb = "read" /\ f = "settings"
         \/ cmd.step = 5 /\ verb = "read" /\ f = "answer"
         \/ cmd.step = 6 /\ verb = "read" /\ f = "packet"
         \/ cmd.step = 7 /\ verb = "read" /\ f = "template4"
         \/ cmd.step = 8 /\ verb = "read" /\ f = "export"
         \/ cmd.step = 9 /\ verb = "again" /\ f = "settings"
         \/ cmd.step = 10 /\ verb = "cut" /\ f = "text"
         \/ cmd.step = 11 /\ verb = "fill" /\ f = "text"
         \/ cmd.step = 12 /\ verb = "cut" /\ f = "actions"
         \/ cmd.step = 13 /\ verb = "fill" /\ f = "actions"
<1>1. cmd.step \in 1..13
  BY Lengths DEF DayTyped, Idle
<1>2. ParseSteps[cmd.step] = <<verb, f>>
  BY DEF At, Steps
<1> QED
  BY <1>1, <1>2 DEF ParseSteps

LEMMA GenerateAt ==
  ASSUME DayTyped, cmd.job = "generate", NEW verb, NEW f, At(verb, f)
  PROVE  \/ cmd.step = 1 /\ verb = "gate" /\ f = "packet"
         \/ cmd.step = 2 /\ verb = "read" /\ f = "template4"
         \/ cmd.step = 3 /\ verb = "read" /\ f = "export"
         \/ cmd.step = 4 /\ verb = "cut" /\ f = "raw"
         \/ cmd.step = 5 /\ verb = "fill" /\ f = "raw"
         \/ cmd.step = 6 /\ verb = "read" /\ f = "raw"
         \/ cmd.step = 7 /\ verb = "cut" /\ f = "snapshot"
         \/ cmd.step = 8 /\ verb = "fill" /\ f = "snapshot"
         \/ cmd.step = 9 /\ verb = "clear" /\ f = "error"
<1>1. cmd.step \in 1..9
  BY Lengths DEF DayTyped, Idle
<1>2. GenerateSteps[cmd.step] = <<verb, f>>
  BY DEF At, Steps
<1> QED
  BY <1>1, <1>2 DEF GenerateSteps

LEMMA RenderAt ==
  ASSUME DayTyped, cmd.job = "render", NEW verb, NEW f, At(verb, f)
  PROVE  \/ verb \in {"gate", "read"}
         \/ verb \in {"cut", "fill"} /\ f = "prompt"
         \/ verb \in {"look", "blank"} /\ f = "answer"
<1>1. cmd.step \in 1..10
  BY Lengths DEF DayTyped, Idle
<1>2. RenderSteps[cmd.step] = <<verb, f>>
  BY DEF At, Steps
<1> QED
  BY <1>1, <1>2 DEF RenderSteps

LEMMA Jobs ==
  ASSUME DayTyped
  PROVE  cmd = Idle \/ cmd.job \in {"generate", "render", "parse"}
  BY Lengths DEF DayTyped

LEMMA JobPlaced ==
  ASSUME NEW j \in {"generate", "render", "parse"}
  PROVE  /\ Job(j) = [job |-> j, step |-> 1, got |-> Nothing]
         /\ j \in DOMAIN Steps /\ 1 \in 1..Len(Steps[j])
<1>1. 1 \in 1..9 /\ 1 \in 1..10 /\ 1 \in 1..13
  OBVIOUS
<1>2. CASE j = "generate"
  BY <1>1, <1>2, Lengths DEF Job
<1>3. CASE j = "render"
  BY <1>1, <1>3, Lengths DEF Job
<1>4. CASE j = "parse"
  BY <1>1, <1>4, Lengths DEF Job
<1> QED
  BY <1>2, <1>3, <1>4

\* A step taken leads to the next one of the same command, or out of it.
LEMMA Moves ==
  ASSUME DayTyped, cmd.job # "idle", NEW g, Onward(g)
  PROVE  /\ cmd' = [job |-> cmd'.job, step |-> cmd'.step, got |-> cmd'.got]
         /\ cmd' = Idle \/ (cmd'.job \in DOMAIN Steps /\ cmd'.step \in 1..Len(Steps[cmd'.job]))
         /\ cmd'.job \in {"parse", "generate"} =>
              cmd'.job = cmd.job /\ cmd'.step = cmd.step + 1 /\ cmd'.got = g
         /\ cmd.step # Len(Steps[cmd.job]) => cmd' = [job |-> cmd.job, step |-> cmd.step + 1, got |-> g]
<1>1. cmd.job \in DOMAIN Steps /\ cmd.step \in 1..Len(Steps[cmd.job])
  BY DEF DayTyped, Idle
<1>2. CASE cmd.step = Len(Steps[cmd.job])
  <2>1. cmd' = Idle \/ (cmd' = Job("render") /\ cmd.job = "generate")
    BY <1>2 DEF Onward, After
  <2> QED
    BY <1>2, <2>1, JobPlaced DEF Idle, Job
<1>3. CASE cmd.step # Len(Steps[cmd.job])
  <2>1. cmd' = [job |-> cmd.job, step |-> cmd.step + 1, got |-> g]
    BY <1>3 DEF Onward, DayTyped
  <2>2. cmd.step + 1 \in 1..Len(Steps[cmd.job])
    BY <1>1, <1>3, Lengths
  <2> QED
    BY <2>1, <2>2, <1>1, <1>3
<1> QED
  BY <1>2, <1>3

-----------------------------------------------------------------------------
\* What stands stays within the day.

LEMMA StandingProper ==
  ASSUME DayTyped
  PROVE  Proper(Standing(files))
  BY DEF DayTyped, Proper, Standing, InputFiles

LEMMA DayTypedStep ==
  ASSUME DayTyped, GenerateHeard, [DayNext]_day
  PROVE  DayTyped'
<1>1. CASE UNCHANGED day
  BY <1>1 DEF day, DayTyped, Proper, Standing
<1>2. CASE WriteAnswer
  BY <1>2 DEF WriteAnswer, DayTyped, Proper, Standing, InputFiles, Made
<1>3. ASSUME NEW f \in InputFiles, ReplaceInput(f) PROVE DayTyped'
  <2>1. PICK v \in Editable[f] : files' = [files EXCEPT ![f] = v]
    BY <1>3 DEF ReplaceInput
  <2>2. files' = [x \in InputFiles \cup Made |-> files'[x]] /\ Proper(files')
    BY <2>1, <1>3 DEF DayTyped, Proper, InputFiles, Made, Could
  <2>3. Proper(Standing(files'))
    BY <2>2 DEF Proper, Standing, InputFiles
  <2>4. \A m \in moments' : Proper(m)
    BY <1>3, <2>3 DEF ReplaceInput, DayTyped
  <2>5. cmd' = cmd /\ (cmd.job = "parse" => Standing(files') \in moments')
    BY <1>3 DEF ReplaceInput, DayTyped
  <2> QED
    BY <2>2, <2>4, <2>5 DEF DayTyped
<1>4. ASSUME NEW j \in {"generate", "render", "parse"}, Begin(j) PROVE DayTyped'
  <2>1. cmd' = [job |-> j, step |-> 1, got |-> Nothing] /\ files' = files
    BY <1>4 DEF Begin, Job
  <2>2. \A m \in moments' : Proper(m)
    BY <1>4, StandingProper DEF Begin
  <2>3. j = "parse" => Standing(files') \in moments'
    BY <1>4, <2>1 DEF Begin
  <2> QED
    BY <2>1, <2>2, <2>3, JobPlaced DEF DayTyped, Proper
<1>5. ASSUME NEW g, cmd.job # "idle", Onward(g), UNCHANGED moments,
             files' = [x \in InputFiles \cup Made |-> files'[x]],
             \A f \in InputFiles : files'[f] = files[f],
             \/ files'["snapshot"] = files["snapshot"]
             \/ /\ cmd.job = "generate"
                /\ files'["snapshot"] \in {Missing, Torn} \/ Priced(files'["snapshot"])
      PROVE  DayTyped'
  <2>1. Proper(files')
    BY <1>5 DEF DayTyped, Proper
  <2>2. cmd'.job = "parse" => cmd.job = "parse"
    BY <1>5, Moves
  <2>3. cmd.job = "parse" => Standing(files') = Standing(files)
    BY <1>5 DEF Standing
  <2> QED
    BY <2>1, <2>2, <2>3, <1>5, Moves DEF DayTyped
<1>6. ASSUME cmd' = Idle \/ cmd' = Job("render"), moments' \in {moments, {}},
             files' = [x \in InputFiles \cup Made |-> files'[x]],
             \A f \in InputFiles \cup {"snapshot"} : files'[f] = files[f]
      PROVE  DayTyped'
  <2>1. /\ cmd' = [job |-> cmd'.job, step |-> cmd'.step, got |-> cmd'.got]
        /\ cmd' = Idle \/ (cmd'.job \in DOMAIN Steps /\ cmd'.step \in 1..Len(Steps[cmd'.job]))
        /\ cmd'.job # "parse"
    BY <1>6, JobPlaced DEF Idle
  <2>2. Proper(files')
    BY <1>6 DEF DayTyped, Proper
  <2> QED
    BY <1>6, <2>1, <2>2 DEF DayTyped
<1>7. ASSUME NEW verb, NEW f, ReadFile(verb, f) PROVE DayTyped'
  BY <1>7, <1>5 DEF ReadFile, At, DayTyped
<1>8. ASSUME NEW verb, NEW f, RefuseFile(verb, f) PROVE DayTyped'
  BY <1>8, <1>6 DEF RefuseFile, DayTyped
<1>9. ASSUME NEW f \in Made, Cut(f) PROVE DayTyped'
  <2>1. cmd.job # "idle" /\ files' = [files EXCEPT ![f] = Torn]
    BY <1>9 DEF Cut, At
  <2>2. f = "snapshot" => cmd.job = "generate"
    BY <1>9, <2>1, Jobs, ParseAt, RenderAt DEF Cut, Idle
  <2> QED
    BY <1>9, <1>5, <2>1, <2>2 DEF Cut, DayTyped, Proper, InputFiles, Made
<1>10. ASSUME NEW f \in Made, Fill(f) PROVE DayTyped'
  <2>1. PICK content \in Contents(f) : files' = [files EXCEPT ![f] = content]
    BY <1>10 DEF Fill
  <2>2. At("fill", f) /\ cmd.job # "idle" /\ Onward(cmd.got)
    BY <1>10 DEF Fill, At
  <2>3. CASE f = "snapshot"
    <3>1. cmd.job = "generate" /\ cmd.step = 8
      BY <2>2, <2>3, Jobs, ParseAt, RenderAt, GenerateAt DEF Idle
    <3>2. content = SnapshotOf(cmd.got["raw"]) /\ Priced(cmd.got["raw"])
      BY <2>1, <2>3, <3>1 DEF Contents, GenerateHeard
    <3>3. Priced(files'["snapshot"])
      BY <2>1, <2>3, <3>2, SnapshotPriced DEF DayTyped, Made
    <3> QED
      BY <1>10, <1>5, <2>1, <2>2, <2>3, <3>1, <3>3 DEF Fill, DayTyped, InputFiles, Made
  <2>4. CASE f = "actions"
    <3>1. cmd.job = "parse" /\ cmd.step = 13
      BY <2>2, <2>4, Jobs, ParseAt, RenderAt, GenerateAt DEF Idle
    <3>2. cmd' = Idle
      BY <2>2, <3>1, Lengths DEF Onward, After
    <3> QED
      BY <1>10, <1>6, <2>1, <2>4, <3>2 DEF Fill, DayTyped, InputFiles, Made
  <2>5. CASE f \notin {"snapshot", "actions"}
    BY <1>10, <1>5, <2>1, <2>2, <2>5 DEF Fill, DayTyped, InputFiles, Made
  <2> QED
    BY <2>3, <2>4, <2>5
<1>11. CASE RefuseAnswer
  BY <1>11, <1>6 DEF RefuseAnswer, DayTyped
<1>12. CASE ClearError
  BY <1>12, <1>5 DEF ClearError, At, DayTyped, InputFiles, Made
<1>13. CASE FailToGenerate
  BY <1>13, <1>6 DEF FailToGenerate, DayTyped, InputFiles, Made
<1>14. CASE LookForAnswer
  BY <1>14, <1>5, <1>6 DEF LookForAnswer, At, DayTyped
<1>15. CASE BlankAnswer
  BY <1>15, <1>5 DEF BlankAnswer, At, DayTyped, InputFiles, Made
<1>16. CASE Kill
  BY <1>16, <1>6 DEF Kill, DayTyped
<1> QED
  BY <1>1, <1>2, <1>3, <1>4, <1>7, <1>8, <1>9, <1>10, <1>11, <1>12, <1>13, <1>14, <1>15, <1>16
     DEF DayNext, Outside, Command

-----------------------------------------------------------------------------
\* What a parse has read stood since it began.

LEMMA HeardKept ==
  ASSUME ParseHeard, cmd' = cmd, files'["text"] = files["text"],
         cmd.job = "parse" => moments \subseteq moments'
  PROVE  ParseHeard'
<1> SUFFICES ASSUME cmd.job = "parse" PROVE ParseHeard'
  BY DEF ParseHeard
<1>1. \A f : Stood(f) \subseteq Stood(f)'
  BY DEF Stood
<1>2. \A f : Heard(f) => Heard(f)'
  BY <1>1 DEF Heard
<1>3. DueHeard => DueHeard'
  BY <1>1 DEF DueHeard
<1>4. Checked' = Checked
  BY DEF Checked
<1> QED
  BY <1>1, <1>2, <1>3, <1>4 DEF ParseHeard

LEMMA ReadHeard ==
  ASSUME DayTyped, ParseHeard, NEW verb \in {"gate", "read", "again"}, NEW f, ReadFile(verb, f),
         cmd.job = "parse"
  PROVE  ParseHeard'
<1> DEFINE got == Took(f, Seen(f))
<1>1. /\ At(verb, f) /\ Accepts(verb, f) /\ Onward(Digest(got))
      /\ UNCHANGED <<files, moments>>
  BY DEF ReadFile
<1>2. /\ cmd.step \in 1..9
      /\ f \in InputFiles \cup {"snapshot", "answer"}
      /\ cmd.step = 4 <=> At("read", "settings")
      /\ cmd.step \notin {2, 5} => f \in InputFiles
  BY <1>1, ParseAt DEF At, InputFiles, Steps, ParseSteps
<1>3. cmd' = [job |-> "parse", step |-> cmd.step + 1, got |-> Digest(got)]
  BY <1>1, <1>2, Moves, Lengths
<1>4. /\ f \in DOMAIN got /\ got[f] = Seen(f)
      /\ \A x \in DOMAIN cmd.got : x \in DOMAIN got /\ (x # f => got[x] = cmd.got[x])
  BY DEF Took
<1>5. \A x : Stood(x)' = Stood(x)
  BY <1>1 DEF Stood
<1>6. f \in InputFiles => Seen(f) \in Stood(f) \ {Missing}
  BY <1>1 DEF Seen, Accepts, Stood, DayTyped, Standing, InputFiles
<1>7. cmd.step # 4 => Digest(got) = got
  BY <1>2 DEF Digest
<1> HIDE DEF got
<1>8. cmd.step # 4 =>
        /\ \A x : Heard(x) /\ x # f => Heard(x)'
        /\ f \in InputFiles => Heard(f)'
        /\ DueHeard /\ f # "due" => DueHeard'
        /\ "answer" \in DOMAIN cmd.got => "answer" \in DOMAIN cmd'.got
  BY <1>3, <1>4, <1>5, <1>6, <1>7 DEF Heard, DueHeard
<1>9. CASE cmd.step = 1
  <2>1. f = "portfolio" /\ verb = "read"
    BY <1>1, <1>9, ParseAt
  <2>2. cmd'.got["portfolio"] # Blank
    BY <1>1, <1>3, <1>4, <1>7, <1>9, <2>1 DEF Accepts, Seen
  <2> QED
    BY <1>3, <1>8, <1>9, <2>1, <2>2 DEF ParseHeard, InputFiles
<1>10. CASE cmd.step = 2
  <2>1. f = "snapshot"
    BY <1>1, <1>10, ParseAt
  <2>2. files["snapshot"] \in Stood("snapshot")
    BY DEF Stood, DayTyped, Standing
  <2>3. Seen(f) = Legible(files["snapshot"])
    BY <2>1 DEF Seen, Legible
  <2>4. "snapshot" \in DOMAIN cmd'.got /\ \E s \in Stood("snapshot")' : cmd'.got["snapshot"] = Legible(s)
    BY <1>3, <1>4, <1>5, <1>7, <1>10, <2>1, <2>2, <2>3
  <2>5. cmd'.got["portfolio"] # Blank
    BY <1>3, <1>4, <1>7, <1>10, <2>1 DEF ParseHeard, Heard
  <2> QED
    BY <1>3, <1>8, <1>10, <2>1, <2>4, <2>5 DEF ParseHeard
<1>11. CASE cmd.step = 3
  <2>1. f = "packet"
    BY <1>1, <1>11, ParseAt
  <2>2. "snapshot" \in DOMAIN cmd'.got /\ \E s \in Stood("snapshot")' : cmd'.got["snapshot"] = Legible(s)
    BY <1>3, <1>4, <1>5, <1>7, <1>11, <2>1 DEF ParseHeard
  <2>3. cmd'.got["portfolio"] # Blank
    BY <1>3, <1>4, <1>7, <1>11, <2>1 DEF ParseHeard, Heard
  <2> QED
    BY <1>3, <1>8, <1>11, <2>1, <2>2, <2>3 DEF ParseHeard, InputFiles
<1>12. CASE cmd.step = 4
  <2>1. f = "settings" /\ verb = "read" /\ At("read", "settings")
    BY <1>1, <1>12, ParseAt
  <2>2. Digest(got) = [due |-> Due(got["portfolio"], got["snapshot"], got["packet"], got["settings"])]
    BY <2>1 DEF Digest
  <2>3. /\ got["portfolio"] \in Stood("portfolio") \ {Missing, Blank}
        /\ got["packet"] \in Stood("packet") \ {Missing}
        /\ \E s \in Stood("snapshot") : got["snapshot"] = Legible(s)
    BY <1>4, <1>12, <2>1 DEF ParseHeard, Heard
  <2>4. got["settings"] \in Stood("settings") \ {Missing, Blank}
    BY <1>1, <1>4, <1>6, <2>1 DEF InputFiles, Accepts, Seen
  <2>5. "due" \in DOMAIN cmd'.got /\
        cmd'.got["due"] = Due(got["portfolio"], got["snapshot"], got["packet"], got["settings"])
    BY <1>3, <2>2
  <2>6. DueHeard'
    BY <1>5, <2>3, <2>4, <2>5 DEF DueHeard
  <2> QED
    BY <1>3, <1>12, <2>6 DEF ParseHeard
<1>13. CASE cmd.step = 5
  <2>1. f = "answer"
    BY <1>1, <1>13, ParseAt
  <2>2. "answer" \in DOMAIN cmd'.got
    BY <1>3, <1>4, <1>7, <1>13, <2>1
  <2> QED
    BY <1>3, <1>8, <1>13, <2>1, <2>2 DEF ParseHeard
<1>14. CASE cmd.step \in 6..9
  <2>1. /\ cmd.step = 6 => f = "packet"
        /\ cmd.step = 7 => f = "template4"
        /\ cmd.step = 8 => f = "export"
        /\ cmd.step = 9 => f = "settings"
    BY <1>1, ParseAt
  <2> QED
    BY <1>3, <1>8, <1>14, <2>1 DEF ParseHeard, InputFiles
<1> QED
  BY <1>2, <1>9, <1>10, <1>11, <1>12, <1>13, <1>14

LEMMA ParseHeardStep ==
  ASSUME DayTyped, ParseHeard, [DayNext]_day
  PROVE  ParseHeard'
<1>0. cmd'.job # "parse" => ParseHeard'
  BY DEF ParseHeard
<1>1. CASE UNCHANGED day
  BY <1>1, HeardKept DEF day
<1>2. CASE WriteAnswer
  BY <1>2, HeardKept DEF WriteAnswer, DayTyped, InputFiles, Made
<1>3. ASSUME NEW f \in InputFiles, ReplaceInput(f) PROVE ParseHeard'
  BY <1>3, HeardKept DEF ReplaceInput, DayTyped, InputFiles, Made
<1>4. ASSUME NEW j \in {"generate", "render", "parse"}, Begin(j) PROVE ParseHeard'
  BY <1>4 DEF Begin, Job, ParseHeard
<1>5. ASSUME NEW verb, NEW f, ReadFile(verb, f) PROVE ParseHeard'
  BY <1>0, <1>5, ReadHeard, Moves DEF ReadFile, At
<1>6. ASSUME NEW verb, NEW f, RefuseFile(verb, f) PROVE ParseHeard'
  BY <1>0, <1>6 DEF RefuseFile, Idle
<1>7. ASSUME NEW f \in Made, Cut(f) PROVE ParseHeard'
  <2> SUFFICES ASSUME cmd'.job = "parse" PROVE ParseHeard'
    BY <1>0
  <2>1. /\ At("cut", f) /\ Onward(cmd.got) /\ (f = "text" => Checked)
        /\ files' = [files EXCEPT ![f] = Torn] /\ moments' = moments
    BY <1>7 DEF Cut
  <2>2. cmd.job = "parse" /\ cmd'.step = cmd.step + 1 /\ cmd'.got = cmd.got
    BY <2>1, Moves DEF At
  <2>3. \/ cmd.step = 10 /\ f = "text"
        \/ cmd.step = 12 /\ f = "actions"
    BY <2>1, <2>2, ParseAt
  <2>4. Checked
    BY <2>1, <2>2, <2>3 DEF ParseHeard
  <2>5. Checked' /\ (\A x : Stood(x)' = Stood(x))
    BY <2>1, <2>2, <2>4 DEF Checked, Stood
  <2>6. /\ \A x : Heard(x) => Heard(x)'
        /\ DueHeard => DueHeard'
    BY <2>2, <2>5 DEF Heard, DueHeard
  <2>7. f = "actions" => files'["text"] = files["text"]
    BY <2>1 DEF DayTyped, Made
  <2> QED
    BY <2>2, <2>3, <2>5, <2>6, <2>7 DEF ParseHeard
<1>8. ASSUME NEW f \in Made, Fill(f) PROVE ParseHeard'
  <2> SUFFICES ASSUME cmd'.job = "parse" PROVE ParseHeard'
    BY <1>0
  <2>1. PICK content \in Contents(f) : files' = [files EXCEPT ![f] = content]
    BY <1>8 DEF Fill
  <2>2. At("fill", f) /\ Onward(cmd.got)
    BY <1>8 DEF Fill
  <2>3. cmd.job = "parse" /\ cmd'.step = cmd.step + 1 /\ cmd'.got = cmd.got
    BY <2>2, Moves DEF At
  <2>4. cmd.step = 11 /\ f = "text"
    <3>1. cmd.step # 13
      BY <2>2, <2>3, Lengths DEF Onward, After, Idle
    <3> QED
      BY <2>2, <2>3, <3>1, ParseAt
  <2>5. moments' = moments /\ files'["text"] = cmd.got["answer"]
    BY <1>8, <2>1, <2>4 DEF Fill, Contents, DayTyped, Made
  <2>6. Checked' /\ (\A x : Stood(x)' = Stood(x))
    BY <2>3, <2>4, <2>5 DEF Checked, Stood, ParseHeard
  <2>7. /\ \A x : Heard(x) => Heard(x)'
        /\ DueHeard => DueHeard'
    BY <2>3, <2>6 DEF Heard, DueHeard
  <2> QED
    BY <2>3, <2>4, <2>5, <2>6, <2>7 DEF ParseHeard
<1>9. CASE RefuseAnswer
  BY <1>0, <1>9 DEF RefuseAnswer, Idle
<1>10. CASE ClearError
  BY <1>0, <1>10, Moves, ParseAt DEF ClearError, At
<1>11. CASE FailToGenerate
  BY <1>0, <1>11 DEF FailToGenerate, Job
<1>12. CASE LookForAnswer
  <2>1. cmd.job # "parse" /\ cmd.job # "idle"
    BY <1>12, ParseAt DEF LookForAnswer, At
  <2> QED
    BY <1>0, <1>12, <2>1, Moves DEF LookForAnswer, Idle
<1>13. CASE BlankAnswer
  <2>1. cmd.job # "parse" /\ cmd.job # "idle"
    BY <1>13, ParseAt DEF BlankAnswer, At
  <2> QED
    BY <1>0, <1>13, <2>1, Moves DEF BlankAnswer
<1>14. CASE Kill
  BY <1>0, <1>14 DEF Kill, Idle
<1> QED
  BY <1>1, <1>2, <1>3, <1>4, <1>5, <1>6, <1>7, <1>8, <1>9, <1>10, <1>11, <1>12, <1>13, <1>14
     DEF DayNext, Outside, Command

-----------------------------------------------------------------------------
\* A generation makes its snapshot of the prices it fetched.

LEMMA GenerateHeardStep ==
  ASSUME DayTyped, GenerateHeard, [DayNext]_day
  PROVE  GenerateHeard'
<1>0. cmd'.job # "generate" => GenerateHeard'
  BY DEF GenerateHeard
<1>1. ASSUME cmd' = cmd, files'["raw"] = files["raw"], files'["snapshot"] = files["snapshot"]
      PROVE  GenerateHeard'
  BY <1>1 DEF GenerateHeard, Given
<1>2. CASE UNCHANGED day
  BY <1>1, <1>2 DEF day
<1>3. CASE WriteAnswer
  BY <1>1, <1>3 DEF WriteAnswer, DayTyped, InputFiles, Made
<1>4. ASSUME NEW f \in InputFiles, ReplaceInput(f) PROVE GenerateHeard'
  BY <1>1, <1>4 DEF ReplaceInput, DayTyped, InputFiles, Made
<1>5. ASSUME NEW j \in {"generate", "render", "parse"}, Begin(j) PROVE GenerateHeard'
  BY <1>5 DEF Begin, Job, GenerateHeard
<1>6. ASSUME NEW verb, NEW f, ReadFile(verb, f) PROVE GenerateHeard'
  <2> SUFFICES ASSUME cmd'.job = "generate" PROVE GenerateHeard'
    BY <1>0
  <2> DEFINE got == Took(f, Seen(f))
  <2>1. At(verb, f) /\ Accepts(verb, f) /\ Onward(Digest(got)) /\ files' = files
    BY <1>6 DEF ReadFile
  <2>2. cmd.job = "generate" /\ cmd'.step = cmd.step + 1 /\ cmd'.got = Digest(got)
    BY <2>1, Moves DEF At
  <2>3. Digest(got) = got
    BY <2>2 DEF Digest
  <2>4. /\ f \in DOMAIN got /\ got[f] = Seen(f)
        /\ \A x \in DOMAIN cmd.got : x \in DOMAIN got /\ (x # f => got[x] = cmd.got[x])
    BY DEF Took
  <2>5. f \in InputFiles => Seen(f) \in Could(f) \ {Missing}
    BY <2>1 DEF Seen, Accepts, DayTyped, Proper, InputFiles
  <2>6. f = "raw" => Seen(f) = files["raw"]
    BY DEF Seen
  <2> HIDE DEF got
  <2>7. /\ \A x : Given(x) /\ x # f => Given(x)'
        /\ f \in InputFiles => Given(f)'
    BY <2>2, <2>3, <2>4, <2>5 DEF Given
  <2>8. \/ cmd.step = 1 /\ f = "packet"
        \/ cmd.step = 2 /\ f = "template4"
        \/ cmd.step = 3 /\ f = "export"
        \/ cmd.step = 6 /\ f = "raw"
    BY <1>6, <2>1, <2>2, GenerateAt DEF ReadFile
  <2>9. cmd.step = 6 => "raw" \in DOMAIN cmd'.got /\ cmd'.got["raw"] = files'["raw"]
    BY <2>1, <2>2, <2>3, <2>4, <2>6, <2>8
  <2> QED
    BY <2>1, <2>2, <2>7, <2>8, <2>9 DEF GenerateHeard, InputFiles
<1>7. ASSUME NEW verb, NEW f, RefuseFile(verb, f) PROVE GenerateHeard'
  BY <1>0, <1>7 DEF RefuseFile, Idle
<1>8. ASSUME NEW f \in Made, Cut(f) PROVE GenerateHeard'
  <2> SUFFICES ASSUME cmd'.job = "generate" PROVE GenerateHeard'
    BY <1>0
  <2>1. At("cut", f) /\ Onward(cmd.got) /\ files' = [files EXCEPT ![f] = Torn]
    BY <1>8 DEF Cut
  <2>2. cmd.job = "generate" /\ cmd'.step = cmd.step + 1 /\ cmd'.got = cmd.got
    BY <2>1, Moves DEF At
  <2>3. \/ cmd.step = 4 /\ f = "raw"
        \/ cmd.step = 7 /\ f = "snapshot"
    BY <2>1, <2>2, GenerateAt
  <2>4. f = "snapshot" => files'["raw"] = files["raw"]
    BY <2>1 DEF DayTyped, Made
  <2>5. \A x : Given(x) => Given(x)'
    BY <2>2 DEF Given
  <2> QED
    BY <2>2, <2>3, <2>4, <2>5 DEF GenerateHeard
<1>9. ASSUME NEW f \in Made, Fill(f) PROVE GenerateHeard'
  <2> SUFFICES ASSUME cmd'.job = "generate" PROVE GenerateHeard'
    BY <1>0
  <2>1. PICK content \in Contents(f) : files' = [files EXCEPT ![f] = content]
    BY <1>9 DEF Fill
  <2>2. At("fill", f) /\ Onward(cmd.got)
    BY <1>9 DEF Fill
  <2>3. cmd.job = "generate" /\ cmd'.step = cmd.step + 1 /\ cmd'.got = cmd.got
    BY <2>2, Moves DEF At
  <2>4. \/ cmd.step = 5 /\ f = "raw"
        \/ cmd.step = 8 /\ f = "snapshot"
    BY <2>2, <2>3, GenerateAt
  <2>5. files'[f] = content
    BY <2>1 DEF DayTyped
  <2>6. \A x : Given(x) => Given(x)'
    BY <2>3 DEF Given
  <2>7. CASE f = "raw"
    <3>1. Given("packet") /\ Given("template4") /\ Given("export")
      BY <2>3, <2>4, <2>7 DEF GenerateHeard
    <3>2. PICK market \in Markets : content = RawOf(market)
      BY <2>1, <2>7 DEF Contents
    <3>3. Priced(content)
      BY <3>1, <3>2, WeekPriced DEF Given, RawOf, Week
    <3> QED
      BY <2>3, <2>4, <2>5, <2>6, <2>7, <3>1, <3>3 DEF GenerateHeard
  <2>8. CASE f = "snapshot"
    <3>1. content = SnapshotOf(cmd.got["raw"]) /\ files'["raw"] = files["raw"]
      BY <2>1, <2>8 DEF Contents, DayTyped, Made
    <3> QED
      BY <2>3, <2>4, <2>5, <2>6, <2>8, <3>1 DEF GenerateHeard
  <2> QED
    BY <2>4, <2>7, <2>8
<1>10. CASE RefuseAnswer
  BY <1>0, <1>10 DEF RefuseAnswer, Idle
<1>11. CASE ClearError
  <2>1. At("clear", "error") /\ Onward(cmd.got)
    BY <1>11 DEF ClearError
  <2>2. cmd.job = "generate" => cmd' = Job("render")
    BY <2>1, GenerateAt, Lengths DEF Onward, After
  <2>3. cmd.job # "generate" => cmd'.job # "generate"
    BY <2>1, Moves DEF At
  <2> QED
    BY <1>0, <2>2, <2>3 DEF Job
<1>12. CASE FailToGenerate
  BY <1>0, <1>12 DEF FailToGenerate, Job
<1>13. CASE LookForAnswer
  <2>1. cmd.job # "generate" /\ cmd.job # "idle"
    BY <1>13, GenerateAt DEF LookForAnswer, At
  <2> QED
    BY <1>0, <1>13, <2>1, Moves DEF LookForAnswer, Idle
<1>14. CASE BlankAnswer
  <2>1. cmd.job # "generate" /\ cmd.job # "idle"
    BY <1>14, GenerateAt DEF BlankAnswer, At
  <2> QED
    BY <1>0, <1>14, <2>1, Moves DEF BlankAnswer
<1>15. CASE Kill
  BY <1>0, <1>15 DEF Kill, Idle
<1> QED
  BY <1>2, <1>3, <1>4, <1>5, <1>6, <1>7, <1>8, <1>9, <1>10, <1>11, <1>12, <1>13, <1>14, <1>15
     DEF DayNext, Outside, Command

-----------------------------------------------------------------------------
\* Text and actions, snapshot and prices, agree outside their writing.

LEMMA AgreedStep ==
  ASSUME DayTyped, ParseHeard, GenerateHeard, Agreed, [DayNext]_day
  PROVE  Agreed'
<1>1. ASSUME \A f \in {"text", "actions", "error", "raw", "snapshot"} : files'[f] = files[f],
             cut \subseteq cut',
             \/ cmd'.job = cmd.job /\ cmd'.step = cmd.step
             \/ /\ cmd.job = "parse" /\ cmd.step >= 11 => "parse" \in cut'
                /\ cmd.job = "generate" /\ cmd.step \in 5..8 =>
                     "generate" \in cut' \/ (cmd'.step = 7 /\ cmd'.job = "generate")
      PROVE  Agreed'
  BY <1>1 DEF Agreed
<1>2. CASE UNCHANGED day
  BY <1>1, <1>2 DEF day
<1>3. CASE WriteAnswer
  BY <1>1, <1>3 DEF WriteAnswer, DayTyped, InputFiles, Made
<1>4. ASSUME NEW f \in InputFiles, ReplaceInput(f) PROVE Agreed'
  BY <1>1, <1>4 DEF ReplaceInput, DayTyped, InputFiles, Made
<1>5. ASSUME NEW j \in {"generate", "render", "parse"}, Begin(j) PROVE Agreed'
  BY <1>1, <1>5 DEF Begin, Idle
<1>6. ASSUME NEW verb, NEW f, ReadFile(verb, f) PROVE Agreed'
  <2> DEFINE got == Digest(Took(f, Seen(f)))
  <2>1. verb \in {"gate", "read", "again"} /\ At(verb, f) /\ Onward(got)
        /\ files' = files /\ cut' = cut
    BY <1>6 DEF ReadFile
  <2>2. cmd.job # "idle" /\ cmd.job \in {"generate", "render", "parse"}
    BY <2>1, Jobs DEF At, Idle
  <2>3. cmd.job = "parse" => ~(cmd.step >= 11)
    BY <2>1, ParseAt
  <2>4. ASSUME cmd.job = "generate", cmd.step \in 5..8
        PROVE  cmd'.step = 7 /\ cmd'.job = "generate"
    <3>1. cmd.step = 6
      BY <2>1, <2>4, GenerateAt
    <3>2. cmd' = [job |-> cmd.job, step |-> cmd.step + 1, got |-> got]
      BY <2>1, <2>2, <2>4, <3>1, Moves, Lengths
    <3> QED
      BY <2>4, <3>1, <3>2
  <2> HIDE DEF got
  <2>5. \A x \in {"text", "actions", "error", "raw", "snapshot"} : files'[x] = files[x]
    BY <2>1
  <2> QED
    BY <1>1, <2>1, <2>3, <2>4, <2>5
<1>7. ASSUME NEW verb \in {"gate", "read", "again"}, NEW f, RefuseFile(verb, f) PROVE Agreed'
  BY <1>1, <1>7, ParseAt DEF RefuseFile
<1>8. ASSUME NEW f \in Made, Cut(f) PROVE Agreed'
  <2>1. /\ At("cut", f) /\ Onward(cmd.got) /\ cmd.job # "idle"
        /\ files' = [files EXCEPT ![f] = Torn] /\ cut' = cut
    BY <1>8 DEF Cut, At
  <2>2. \A x \in InputFiles \cup Made : x # f => files'[x] = files[x]
    BY <2>1 DEF DayTyped
  <2>3. CASE cmd.job = "parse"
    <3>1. cmd.step \in {10, 12} /\ f \in {"text", "actions"}
      BY <2>1, <2>3, ParseAt
    <3>2. cmd'.job = "parse" /\ cmd'.step >= 11
      BY <2>1, <2>3, <3>1, Moves, Lengths
    <3> QED
      BY <2>1, <2>2, <2>3, <3>1, <3>2 DEF Agreed, Made
  <2>4. CASE cmd.job = "generate"
    <3>1. cmd.step \in {4, 7} /\ f \in {"raw", "snapshot"}
      BY <2>1, <2>4, GenerateAt
    <3>2. cmd'.job = "generate" /\ cmd'.step \in 5..8
      BY <2>1, <2>4, <3>1, Moves, Lengths
    <3> QED
      BY <2>1, <2>2, <2>4, <3>1, <3>2 DEF Agreed, Made
  <2>5. CASE cmd.job = "render"
    <3>1. f = "prompt"
      BY <2>1, <2>5, RenderAt
    <3> QED
      BY <1>1, <2>1, <2>2, <2>5, <3>1 DEF Made
  <2> QED
    BY <2>1, <2>3, <2>4, <2>5, Jobs DEF Idle
<1>9. ASSUME NEW f \in Made, Fill(f) PROVE Agreed'
  <2>1. PICK content \in Contents(f) : files' = [files EXCEPT ![f] = content]
    BY <1>9 DEF Fill
  <2>2. At("fill", f) /\ Onward(cmd.got) /\ cmd.job # "idle"
    BY <1>9 DEF Fill, At
  <2>3. files'[f] = content /\ \A x \in InputFiles \cup Made : x # f => files'[x] = files[x]
    BY <2>1 DEF DayTyped
  <2>4. CASE cmd.job = "parse" /\ f = "text"
    <3>1. cmd.step = 11
      BY <2>2, <2>4, ParseAt
    <3>2. cmd'.job = "parse" /\ cmd'.step = 12 /\ cut' = cut
      BY <1>9, <2>2, <2>4, <3>1, Moves, Lengths DEF Fill
    <3> QED
      BY <2>3, <2>4, <3>1, <3>2 DEF Agreed, Made
  <2>5. CASE cmd.job = "parse" /\ f = "actions"
    <3>1. cmd.step = 13
      BY <2>2, <2>5, ParseAt
    <3>2. cmd' = Idle /\ cut' = cut \ {"parse"}
      BY <1>9, <2>2, <2>5, <3>1, Lengths DEF Fill, Onward, After
    <3>3. files'["text"] = files'["actions"]
      BY <2>1, <2>3, <2>5, <3>1 DEF ParseHeard, Contents, Made
    <3> QED
      BY <2>3, <2>5, <3>2, <3>3 DEF Agreed, Made, Idle
  <2>6. CASE cmd.job = "generate" /\ f = "raw"
    <3>1. cmd.step = 5
      BY <2>2, <2>6, GenerateAt
    <3>2. cmd'.job = "generate" /\ cmd'.step = 6 /\ cut' = cut
      BY <1>9, <2>2, <2>6, <3>1, Moves, Lengths DEF Fill
    <3> QED
      BY <2>3, <2>6, <3>1, <3>2 DEF Agreed, Made
  <2>7. CASE cmd.job = "generate" /\ f = "snapshot"
    <3>1. cmd.step = 8
      BY <2>2, <2>7, GenerateAt
    <3>2. cmd'.job = "generate" /\ cmd'.step = 9 /\ cut' = cut
      BY <1>9, <2>2, <2>7, <3>1, Moves, Lengths DEF Fill
    <3>3. files'["snapshot"] = SnapshotOf(files'["raw"])
      BY <2>1, <2>3, <2>7, <3>1 DEF GenerateHeard, Contents, Made
    <3> QED
      BY <2>3, <2>7, <3>1, <3>2, <3>3 DEF Agreed, Made
  <2>8. CASE cmd.job = "render"
    <3>1. f = "prompt" /\ cut' = cut
      BY <1>9, <2>2, <2>8, RenderAt DEF Fill
    <3> QED
      BY <1>1, <2>3, <2>8, <3>1 DEF Made
  <2> QED
    BY <2>2, <2>4, <2>5, <2>6, <2>7, <2>8, Jobs, ParseAt, GenerateAt DEF Idle
<1>10. CASE RefuseAnswer
  <2>1. cmd.job = "parse" => cmd.step = 10
    BY <1>10, ParseAt DEF RefuseAnswer
  <2>2. cmd.job # "generate"
    BY <1>10, GenerateAt DEF RefuseAnswer
  <2> QED
    BY <1>1, <1>10, <2>1, <2>2 DEF RefuseAnswer
<1>11. CASE ClearError
  <2>1. At("clear", "error") /\ Onward(cmd.got) /\ files' = [files EXCEPT !.error = Missing]
        /\ cut' = cut \ {"generate"}
    BY <1>11 DEF ClearError
  <2>2. cmd.job = "generate" /\ cmd.step = 9
    BY <2>1, Jobs, ParseAt, RenderAt, GenerateAt DEF At, Idle
  <2>3. cmd' = Job("render")
    BY <2>1, <2>2, Lengths DEF Onward, After
  <2>4. files["snapshot"] = SnapshotOf(files["raw"])
    BY <2>2 DEF GenerateHeard
  <2>5. \A x \in {"text", "actions", "raw", "snapshot"} : files'[x] = files[x]
    BY <2>1 DEF DayTyped, Made
  <2> QED
    BY <2>1, <2>2, <2>3, <2>4, <2>5 DEF Agreed, Job
<1>12. CASE FailToGenerate
  <2>1. files'["error"] = "why" /\ \A x \in {"text", "actions"} : files'[x] = files[x]
    BY <1>12 DEF FailToGenerate, DayTyped, Made
  <2> QED
    BY <1>12, <2>1, DailyAssumption DEF FailToGenerate, Agreed, Job
<1>13. CASE LookForAnswer
  <2>1. cmd.job = "render"
    BY <1>13, Jobs, ParseAt, GenerateAt DEF LookForAnswer, At, Idle
  <2> QED
    BY <1>1, <1>13, <2>1 DEF LookForAnswer
<1>14. CASE BlankAnswer
  <2>1. cmd.job = "render"
    BY <1>14, Jobs, ParseAt, GenerateAt DEF BlankAnswer, At, Idle
  <2>2. \A x \in {"text", "actions", "error", "raw", "snapshot"} : files'[x] = files[x]
    BY <1>14 DEF BlankAnswer, DayTyped, Made
  <2> QED
    BY <1>1, <1>14, <2>1, <2>2 DEF BlankAnswer
<1>15. CASE Kill
  BY <1>1, <1>15 DEF Kill
<1> QED
  BY <1>2, <1>3, <1>4, <1>5, <1>6, <1>7, <1>8, <1>9, <1>10, <1>11, <1>12, <1>13, <1>14, <1>15
     DEF DayNext, Outside, Command

-----------------------------------------------------------------------------
\* What a parse publishes is of the week and carries its notes.

LEMMA PublishedSound ==
  ASSUME DayTyped, ParseHeard, cmd.job = "parse", cmd.step = 13, origin' = moments,
         files'["actions"] = cmd.got["answer"]
  PROVE  ActionsOfTheWeek' /\ EdgeIsNoted'
<1> DEFINE answer == cmd.got["answer"]
           due == cmd.got["due"]
           policy == cmd.got["settings"]
<1>1. \A f : Past(f)' = Stood(f)
  BY DEF Past, Stood
<1>2. /\ Heard("packet") /\ Heard("template4") /\ Heard("export") /\ Heard("settings") /\ DueHeard
      /\ Valid(answer, due, cmd.got["packet"], cmd.got["template4"], cmd.got["export"], policy)
  BY DEF ParseHeard, Checked
<1> HIDE DEF answer, due, policy
<1>3. ASSUME NEW t \in answer.acts
      PROVE  \/ \E p \in Stood("packet") \ {Missing} : t \in p.ready
             \/ /\ \E p \in Stood("packet") \ {Missing} : p.ready = {}
                /\ \E o \in (Stood("template4") \cup Stood("export")) \ {Missing} : t \in Named(o)
  <2>1. t \in Allowlist(cmd.got["packet"], cmd.got["template4"], cmd.got["export"])
    BY <1>2, <1>3 DEF Valid
  <2> QED
    BY <1>2, <2>1, AllowedNamed DEF Heard
<1>4. ASSUME NEW t \in answer.acts,
             \A s \in Stood("snapshot"), p \in Stood("portfolio"),
                k \in Stood("packet"), y \in Stood("settings") :
               /\ s \notin {Missing, Torn} /\ t \in DOMAIN s
               /\ p \notin {Missing, Blank} /\ t \in DOMAIN p
               /\ k # Missing
               /\ y \notin {Missing, Blank} /\ y.monitor
               /\ Strayed(p[t], s[t], y, RoleOf(t, p[t], k, y))
      PROVE  <<t, "near_anchor_drift_edge">> \in answer.notes
  <2>1. PICK p \in Stood("portfolio") \ {Missing, Blank}, s \in Stood("snapshot"),
             k \in Stood("packet") \ {Missing}, y \in Stood("settings") \ {Missing, Blank} :
          due = Due(p, Legible(s), k, y)
    BY <1>2 DEF DueHeard, due
  <2>2. /\ s \notin {Missing, Torn} /\ t \in DOMAIN s /\ t \in DOMAIN p
        /\ Strayed(p[t], s[t], y, RoleOf(t, p[t], k, y))
    BY <1>4, <2>1
  <2>3. /\ p \in Could("portfolio") /\ y \in Could("settings") /\ Priced(s)
    BY <2>1, <2>2 DEF Stood, DayTyped, Proper, InputFiles
  <2>4. /\ p[t].baseline \in Numbers /\ s[t].close \in Numbers /\ s[t].atr \in Numbers
        /\ Figures(y.cap) /\ Figures(y.atrMultiple) /\ Figures(y.anchorBand)
    BY <2>1, <2>2, <2>3, DailyAssumption DEF Priced
  <2>5. NearAnchor(p[t], s[t], y, RoleOf(t, p[t], k, y))
    BY <2>2, <2>4, StrayedNear
  <2>6. <<t, "near_anchor_drift_edge">> \in due
    BY <2>1, <2>2, <2>5, NoteIsDue DEF Legible
  <2>7. Monitored(policy)
    BY <1>2, <1>4, <2>1 DEF Heard, policy, Monitored
  <2> QED
    BY <1>2, <2>6, <2>7 DEF Valid, Notes
<1>5. files'["actions"] = answer
  BY DEF answer
<1>6. ActionsOfTheWeek'
  BY <1>1, <1>3, <1>5 DEF ActionsOfTheWeek
<1>7. EdgeIsNoted'
  BY <1>1, <1>4, <1>5 DEF EdgeIsNoted
<1> QED
  BY <1>6, <1>7

LEMMA PublishedStep ==
  ASSUME DayTyped, ParseHeard, ActionsOfTheWeek, EdgeIsNoted, [DayNext]_day
  PROVE  ActionsOfTheWeek' /\ EdgeIsNoted'
<1>1. ASSUME files'["actions"] = files["actions"], origin' = origin
      PROVE  ActionsOfTheWeek' /\ EdgeIsNoted'
  BY <1>1 DEF ActionsOfTheWeek, EdgeIsNoted, Published, Past
<1>2. ASSUME NEW f \in InputFiles \cup Made, NEW v, f # "actions", files' = [files EXCEPT ![f] = v]
      PROVE  files'["actions"] = files["actions"]
  BY <1>2 DEF DayTyped, Made
<1>3. CASE UNCHANGED day
  BY <1>1, <1>3 DEF day
<1>4. CASE Outside
  BY <1>1, <1>2, <1>4 DEF Outside, WriteAnswer, ReplaceInput, InputFiles, Made
<1>5. ASSUME NEW j \in {"generate", "render", "parse"}, Begin(j) PROVE ActionsOfTheWeek' /\ EdgeIsNoted'
  BY <1>1, <1>5 DEF Begin
<1>6. ASSUME NEW verb, NEW f, ReadFile(verb, f) \/ RefuseFile(verb, f)
      PROVE  ActionsOfTheWeek' /\ EdgeIsNoted'
  BY <1>1, <1>6 DEF ReadFile, RefuseFile
<1>7. ASSUME NEW f \in Made, Cut(f) PROVE ActionsOfTheWeek' /\ EdgeIsNoted'
  <2>1. CASE f = "actions"
    <3>1. ~Published'
      BY <1>7, <2>1 DEF Cut, DayTyped, Made, Published
    <3> QED
      BY <3>1 DEF ActionsOfTheWeek, EdgeIsNoted
  <2>2. CASE f # "actions"
    BY <1>1, <1>2, <1>7, <2>2 DEF Cut
  <2> QED
    BY <2>1, <2>2
<1>8. ASSUME NEW f \in Made, Fill(f) PROVE ActionsOfTheWeek' /\ EdgeIsNoted'
  <2>1. PICK content \in Contents(f) : files' = [files EXCEPT ![f] = content]
    BY <1>8 DEF Fill
  <2>2. CASE f = "actions"
    <3>1. cmd.job = "parse" /\ cmd.step = 13
      BY <1>8, <2>2, Jobs, ParseAt, RenderAt, GenerateAt DEF Fill, At, Idle
    <3>2. files'["actions"] = cmd.got["answer"] /\ origin' = moments
      BY <1>8, <2>1, <2>2 DEF Fill, Contents, DayTyped, Made
    <3> QED
      BY <3>1, <3>2, PublishedSound
  <2>3. CASE f # "actions"
    BY <1>1, <1>2, <1>8, <2>1, <2>3 DEF Fill
  <2> QED
    BY <2>2, <2>3
<1>9. CASE RefuseAnswer \/ LookForAnswer \/ Kill
  BY <1>1, <1>9 DEF RefuseAnswer, LookForAnswer, Kill
<1>10. CASE ClearError \/ FailToGenerate \/ BlankAnswer
  BY <1>1, <1>2, <1>10 DEF ClearError, FailToGenerate, BlankAnswer, Made
<1> QED
  BY <1>3, <1>4, <1>5, <1>6, <1>7, <1>8, <1>9, <1>10 DEF DayNext, Command

\* A published daily action is about a ticker of a week that stood while it
\* was parsed and carries the note its price asks for; text and actions, and
\* snapshot and prices, agree unless a command was killed
\* (workflow/daily_execution_check.py), whatever the inputs of the day.
THEOREM DailySafe == DaySpec => []DailySound
<1>1. DayInit => DayInv
  <2> SUFFICES ASSUME DayInit PROVE DayInv
    OBVIOUS
  <2>1. \A f \in InputFiles : files[f] = Start[f]
    BY DEF DayInit
  <2>2. \A f \in Made : files[f] = Missing
    BY DEF DayInit, InputFiles, Made
  <2>3. DayTyped
    BY <2>1, <2>2, Lengths DEF DayInit, DayTyped, Proper, Could, Idle, Nothing, Made
  <2>4. ParseHeard /\ GenerateHeard
    BY DEF DayInit, Idle, ParseHeard, GenerateHeard
  <2>5. Agreed /\ ~Published
    BY <2>2 DEF Agreed, Published, Made
  <2> QED
    BY <2>3, <2>4, <2>5 DEF DayInv, ActionsOfTheWeek, EdgeIsNoted
<1>2. DayInv /\ [DayNext]_day => DayInv'
  BY DayTypedStep, ParseHeardStep, GenerateHeardStep, AgreedStep, PublishedStep DEF DayInv
<1>3. DayInv => DailySound
  BY DEF DayInv, DailySound, WholeUnlessKilled, Agreed, Idle
<1> QED
  BY <1>1, <1>2, <1>3, PTL DEF DaySpec
=============================================================================
