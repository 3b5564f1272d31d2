----------------------------- MODULE MCEvidence -----------------------------
(***************************************************************************)
(* The archive under two processes: first and second state the same id and *)
(* go to different partitions, nameless states none, broken is no          *)
(* observation.                                                            *)
(***************************************************************************)
EXTENDS EvidenceArchive, TLC

CONSTANTS p1, p2, first, second, nameless, broken, id

ArchiveIds == (first :> id) @@ (second :> id) @@ (nameless :> None) @@ (broken :> None)
Symmetry == Permutations({p1, p2})

\* One record is edited outside the tools: one of the two that share an id, or
\* the one without.
OneDamaged == damaged' \in {{}, {first}, {nameless}}

SpecEvidence == Init /\ [][Next /\ OneDamaged]_vars
=============================================================================
