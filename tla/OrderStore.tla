----------------------------- MODULE OrderStore -----------------------------
(***************************************************************************)
(* What Step 4 promises a reader of its canonical order files: each file   *)
(* is replaced as a whole, and only ever by the text validated last, so a  *)
(* set that mixes versions is on its way to that text or was left on it.   *)
(***************************************************************************)
CONSTANTS
  Files,   \* the canonical order files
  Texts,   \* the contents an operator's answer can have
  None     \* no file, or no text validated yet

VARIABLES canonical, latest

vars == <<canonical, latest>>

Init == canonical = [f \in Files |-> None] /\ latest = None

Validate == latest' \in Texts /\ UNCHANGED canonical

Replace(f) == latest # None /\ canonical' = [canonical EXCEPT ![f] = latest] /\ UNCHANGED latest

Remove(f) == canonical' = [canonical EXCEPT ![f] = None] /\ UNCHANGED latest

RemoveAll == canonical' = [f \in Files |-> None] /\ UNCHANGED latest

Next == Validate \/ RemoveAll \/ \E f \in Files : Replace(f) \/ Remove(f)

Spec == Init /\ [][Next]_vars
=============================================================================
