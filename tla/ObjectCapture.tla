--------------------------- MODULE ObjectCapture ---------------------------
(***************************************************************************)
(* The copy two validators take of an object before they judge it:         *)
(* validate_step2_market_source_policy_approvals (approvals) and           *)
(* validate_step2_decision_packet_semantics (packet).  The object is a     *)
(* graph of lists and dicts that somebody else may still be changing; the  *)
(* copy is taken container by container from an explicit stack, each       *)
(* container being copied twice when it is entered and twice when it is    *)
(* left, and any difference refuses the object.                            *)
(*                                                                         *)
(* A container is the sequence of its children, in key or index order: a   *)
(* container, a Leaf the validator takes as it is (null and strings; in a  *)
(* packet also booleans, integers and finite floats) or an Odd value of    *)
(* any other type.  A key that is not a string is refused at the copy and  *)
(* is left out.  A copy and a measure of one container are each one step   *)
(* of the interpreter; an edit may fall between any two of them and may    *)
(* bring back a content the container had before.                          *)
(***************************************************************************)
EXTENDS Naturals, SequencesExt, FiniteSetsExt

CONSTANTS
    Containers,      \* the lists and dicts
    Root,            \* the one handed to the validator
    Leaf, Odd,       \* a plain value; a value of a type not taken
    Contents,        \* the children sequences a container may have
    MaxDepth,        \* MAX_JSON_NESTING_DEPTH
    MaxNodes,        \* MAX_JSON_NODE_COUNT
    MaxEdits         \* bound: how often the object changes under the copy

RootAssumption == Root \in Containers
LimitAssumption == MaxDepth \in Nat /\ MaxNodes \in Nat /\ MaxEdits \in Nat

VARIABLES
    validator,       \* which of the two takes the copy
    heaps,           \* the object over time, the last being how it is now
    stack,           \* what is still to visit and to leave
    half,            \* the first of two copies of the top's container
    taken,           \* path |-> the container found there and its children
    completed,       \* container |-> the children it was left with
    count,           \* node_count
    outcome          \* "running", "captured" or the reason it was refused

vars == <<validator, heaps, stack, half, taken, completed, count, outcome>>

Values == Containers \cup {Leaf, Odd}

Now == Last(heaps)
Top == Last(stack)

\* active_container_ids: the containers entered and not yet left
Active == {stack[i].of : i \in {j \in DOMAIN stack : stack[j].op = "leave"}}

Init == /\ validator \in {"approvals", "packet"}
        /\ heaps \in {<<h>> : h \in [Containers -> Contents]}
        /\ stack = <<[op |-> "visit", of |-> Root, path |-> <<>>]>>
        /\ half = <<>>
        /\ taken = <<>>
        /\ completed = <<>>
        /\ count = 0
        /\ outcome = "running"

-----------------------------------------------------------------------------
(* The copy *)

Refuse(why) == /\ outcome' = why
               /\ UNCHANGED <<stack, half, taken, completed>>

\* The stack after its top was dealt with, and what that makes of the copy.
Onward(rest) == /\ stack' = rest
                /\ half' = <<>>
                /\ outcome' = IF rest = <<>> THEN "captured" ELSE "running"

\* A value is looked at: counted, and measured against the limits; a plain
\* value is kept, a container within the limits is to be entered.
Visit ==
    /\ outcome = "running" /\ Top.op = "visit"
    /\ count' = count + 1
    /\ \/ Len(Top.path) > MaxDepth /\ Refuse("depth")
       \/ Len(Top.path) <= MaxDepth /\ count' > MaxNodes /\ Refuse("nodes")
       \/ /\ Len(Top.path) <= MaxDepth /\ count' <= MaxNodes
          /\ \/ Top.of = Leaf /\ Onward(Front(stack)) /\ UNCHANGED <<taken, completed>>
             \/ Top.of = Odd /\ Refuse("unsupported")
             \/ Top.of \in Active /\ Refuse("cycle")
             \/ /\ Top.of \in Containers \ Active
                /\ IF count' + Len(Now[Top.of]) > MaxNodes
                   THEN Refuse("nodes")
                   ELSE /\ stack' = Append(Front(stack), [Top EXCEPT !.op = "enter"])
                        /\ UNCHANGED <<half, taken, completed, outcome>>
    /\ UNCHANGED <<validator, heaps>>

\* The first copy of a container that is entered or left.
CopyFirst ==
    /\ outcome = "running" /\ half = <<>> /\ Top.op \in {"enter", "leave"}
    /\ half' = <<Now[Top.of]>>
    /\ UNCHANGED <<validator, heaps, stack, taken, completed, count, outcome>>

\* Mutant: a container met again is taken as it is by then
AsLeftBeforeNever(c, kids) == TRUE

\* approvals also remembers what a container it has left looked like.
AsLeftBefore(c, kids) == c \in DOMAIN completed => completed[c] = kids

\* The copy of a container that is entered: the second copy, and the children
\* put on the stack so that the first comes off first.
Enter ==
    /\ outcome = "running" /\ half # <<>> /\ Top.op = "enter"
    /\ LET kids == Now[Top.of]
           visit(i) == [op |-> "visit", of |-> kids[i], path |-> Append(Top.path, i)]
       IN IF <<kids>> = half /\ AsLeftBefore(Top.of, kids)
          THEN /\ Onward(Front(stack) \o <<[Top EXCEPT !.op = "leave"]>>
                         \o Reverse([i \in DOMAIN kids |-> visit(i)]))
               /\ taken' = (Top.path :> [of |-> Top.of, kids |-> kids]) @@ taken
               /\ UNCHANGED completed
          ELSE Refuse("mutation")
    /\ UNCHANGED <<validator, heaps, count>>

SameAsEntered(entry, kids) == entry = kids

\* All below a container was taken: it is copied twice more and must still
\* be what it was when it was entered.  Only approvals remembers it.
Leave ==
    /\ outcome = "running" /\ half # <<>> /\ Top.op = "leave"
    /\ LET kids == Now[Top.of]
       IN IF /\ <<kids>> = half
             /\ SameAsEntered(taken[Top.path].kids, kids)
             /\ AsLeftBefore(Top.of, kids)
          THEN /\ Onward(Front(stack))
               /\ completed' = IF validator = "approvals"
                                THEN (Top.of :> kids) @@ completed ELSE completed
               /\ UNCHANGED taken
          ELSE Refuse("mutation")
    /\ UNCHANGED <<validator, heaps, count>>

-----------------------------------------------------------------------------
(* Whoever holds the object changes one of its containers. *)

Edit == /\ outcome = "running"
        /\ Len(heaps) <= MaxEdits
        /\ \E c \in Containers, kids \in Contents :
               /\ Now[c] # kids
               /\ heaps' = Append(heaps, [Now EXCEPT ![c] = kids])
        /\ UNCHANGED <<validator, stack, half, taken, completed, count, outcome>>

Next == Visit \/ CopyFirst \/ Enter \/ Leave \/ Edit

Spec == Init /\ [][Next]_vars

-----------------------------------------------------------------------------
(* Properties *)

Captured == outcome = "captured"

\* What lies on one path of the copy stood there together: there was a moment
\* at which every container from the root down to it had just these children.
\* (Two branches may be of different moments; nothing in the code says more.)
PathStood(path) ==
    \E t \in DOMAIN heaps : \A n \in 0 .. Len(path) :
        LET at == taken[SubSeq(path, 1, n)] IN heaps[t][at.of] = at.kids

\* No container got back a content it had lost: a comparison tells.
NothingReturned ==
    \A c \in Containers : \A i, k \in DOMAIN heaps : \A j \in i .. k :
        heaps[i][c] = heaps[k][c] => heaps[j][c] = heaps[i][c]

\* A copy that is accepted is made of paths that stood together, unless a
\* content was lost and brought back between two copies; and in an approval
\* the same container was found the same wherever it is reached, whatever
\* happened (the second copies, the comparison on leaving, the completed
\* signatures).
CapturedStoodTogether ==
    Captured =>
        /\ NothingReturned => \A path \in DOMAIN taken : PathStood(path)
        /\ validator = "approvals" =>
               \A p, q \in DOMAIN taken :
                   taken[p].of = taken[q].of => taken[p].kids = taken[q].kids

\* The values an object unfolds into, down to the first that are too deep.
RECURSIVE Unfold(_, _, _)
Unfold(heap, path, value) ==
    {[path |-> path, of |-> value]} \cup
        (IF value \in Containers /\ Len(path) <= MaxDepth
         THEN UNION {Unfold(heap, Append(path, i), heap[value][i]) :
                         i \in DOMAIN heap[value]}
         ELSE {})

\* An object nobody touches is captured just when its unfolding is within the
\* limits and of known types, so never with a cycle in it; the copy is then
\* that unfolding, and it is never refused as changing.
QuietCaptureTells ==
    Len(heaps) = 1 /\ outcome # "running" =>
        LET whole == Unfold(Now, <<>>, Root)
            good == /\ Cardinality(whole) <= MaxNodes
                    /\ \A v \in whole : Len(v.path) <= MaxDepth /\ v.of # Odd
        IN /\ Captured <=> good
           /\ Captured => taken = [p \in {v.path : v \in {w \in whole : w.of \in Containers}} |->
                  LET v == CHOOSE w \in whole : w.path = p
                  IN [of |-> v.of, kids |-> Now[v.of]]]
           /\ outcome # "mutation"

ObjectCaptured == CapturedStoodTogether /\ QuietCaptureTells
=============================================================================
