--------------------------- MODULE EvidenceStore ---------------------------
(***************************************************************************)
(* What the retirement-evidence archive promises while every tool locks    *)
(* the same coordination file: an append-only set of observations in which *)
(* no two share an observation id, and reason-only records of the sources  *)
(* that could not join it.                                                 *)
(***************************************************************************)
CONSTANTS
  Sources,    \* the observation files an operator can hand in
  Malformed,  \* those that are no valid observation
  IdOf,       \* the observation id a source states, None for none
  None

VARIABLES records, rejects

SameId(r, s) == IdOf[s] # None /\ IdOf[r] = IdOf[s]
Rivals(s) == { r \in records \ {s} : SameId(r, s) }

Init == records = {} /\ rejects = {}

Accept(s) ==
  /\ s \notin Malformed /\ Rivals(s) = {}
  /\ records' = records \cup {s} /\ UNCHANGED rejects

Refuse(s) ==
  /\ s \in Malformed \/ Rivals(s) # {}
  /\ rejects' = rejects \cup {s} /\ UNCHANGED records

Next == \E s \in Sources : Accept(s) \/ Refuse(s)

Spec == Init /\ [][Next]_<<records, rejects>>
=============================================================================
