---------------------------- MODULE InOrderCommit ----------------------------
(***************************************************************************)
(* What a core promises, whatever it speculates: the instructions of the   *)
(* right path are committed once each, in program order, at most Width in  *)
(* a step, until none is left; nothing else is ever committed.             *)
(***************************************************************************)
EXTENDS Naturals, Sequences

CONSTANT Width

VARIABLES
    rightPath,      \* the instructions to commit, in program order
    retired         \* the instructions committed so far

Init == retired = << >>

Commit ==
    /\ rightPath' = rightPath
    /\ \E k \in 1 .. Width :
         /\ Len(retired) + k <= Len(rightPath)
         /\ retired' = SubSeq(rightPath, 1, Len(retired) + k)

vars == <<rightPath, retired>>

(* What it does, and that it goes on to the end. *)
SafeSpec == Init /\ [][Commit]_vars

Spec == SafeSpec /\ WF_vars(Commit)
=============================================================================
