--------------------------- MODULE AbstractWalker ---------------------------
(***************************************************************************)
(* What spec.md (6, 4.4, 7) promises of the traversal the extractor is     *)
(* driven by: after start-up the run either fails or knows the set of      *)
(* source files to process, hands each of them to the core once, one file  *)
(* after the other, and finishes when none is left.                        *)
(***************************************************************************)
EXTENDS Sequences, SequencesExt

CONSTANT Files      \* every file there could be

VARIABLES
  status,    \* "start", "running", "finished" or "failed"
  sources,   \* the files the traversal has to supply
  scanned    \* the files supplied so far, in order

vars == <<status, sources, scanned>>

Init ==
  /\ status = "start"
  /\ sources = {}
  /\ scanned = <<>>

\* Start-up: configuration read, the set of sources fixed.
Start ==
  /\ status = "start"
  /\ status' = "running"
  /\ sources' \in SUBSET Files
  /\ UNCHANGED scanned

\* Start-up failed (spec 7: the one fatal case).
Fail ==
  /\ status = "start"
  /\ status' = "failed"
  /\ UNCHANGED <<sources, scanned>>

\* One source file processed, never one already processed.
Scan ==
  /\ status = "running"
  /\ \E f \in sources \ Range(scanned) : scanned' = Append(scanned, f)
  /\ UNCHANGED <<status, sources>>

\* Every source processed: the run ends.
Finish ==
  /\ status = "running"
  /\ Range(scanned) = sources
  /\ status' = "finished"
  /\ UNCHANGED <<sources, scanned>>

Next == Start \/ Fail \/ Scan \/ Finish

\* A sequential run never stops while work is left.
Spec == Init /\ [][Next]_vars /\ WF_vars(Next)
=============================================================================
