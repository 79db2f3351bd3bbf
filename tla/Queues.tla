------------------------------- MODULE Queues -------------------------------
(***************************************************************************)
(* The queues of the pipeline models: finite sequences that lose entries   *)
(* at the front, at the back, or wherever a search finds them; and the     *)
(* lists of registers of the renaming models.                              *)
(***************************************************************************)
EXTENDS Naturals, Sequences, FiniteSets

Elements(q) == {q[n] : n \in 1 .. Len(q)}

(* No element occurs twice. *)
Distinct(q) == \A m, n \in 1 .. Len(q) : q[m] = q[n] => m = n

(* Where x is in q. *)
IndexOf(q, x) == CHOOSE n \in 1 .. Len(q) : q[n] = x

Take(q, k) == SubSeq(q, 1, k)
Drop(q, k) == SubSeq(q, k + 1, Len(q))

(* What a search for the members of S finds, in the order of the queue. *)
Filter(q, S) ==
    LET found[n \in 0 .. Len(q)] ==
          IF n = 0 THEN << >>
          ELSE IF q[n] \in S THEN Append(found[n - 1], q[n])
          ELSE found[n - 1]
    IN found[Len(q)]

(* The queues of a sequence of queues, one behind the other. *)
Flatten(parts) ==
    LET upTo[n \in 0 .. Len(parts)] ==
          IF n = 0 THEN << >> ELSE upTo[n - 1] \o parts[n]
    IN upTo[Len(parts)]

(* The elements of a finite set of naturals in ascending order: the i-th   *)
(* is the one with i elements up to it.                                    *)
Rank(S, p) == Cardinality({q \in S : q <= p})
Ascending(S) ==
    [i \in 1 .. Cardinality(S) |-> CHOOSE p \in S : Rank(S, p) = i]
=============================================================================
