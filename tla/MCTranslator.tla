---------------------------- MODULE MCTranslator ----------------------------
(***************************************************************************)
(* Programs for the translator: flow graphs of up to seven blocks, with    *)
(* all choices of what an instruction reads and writes.                    *)
(***************************************************************************)
EXTENDS Translator

Ins(t, d, to) == [type |-> t, rd |-> d[1], wr |-> d[2], dst |-> to]

(* What an instruction reads and writes. *)
Data == {<<{}, {1}>>, <<{1}, {1}>>, <<{1}, {2}>>, <<{1, 2}, {}>>}
Def1 == <<{}, {1}>>
Def2 == <<{}, {2}>>
Use1 == <<{1}, {}>>
Use2 == <<{2}, {}>>

Loop(w, x, y, z) ==
    <<Ins("o", w, 0), Ins("o", x, 0), Ins("b", y, 2), Ins("o", z, 0)>>
Diamond(w, x, y, z) ==
    <<Ins("b", w, 4), Ins("o", x, 0), Ins("j", <<{}, {}>>, 5), Ins("ld", y, 0),
      Ins("o", z, 0)>>
Nested(w, x, y, z) ==
    <<Ins("o", w, 0), Ins("o", x, 0), Ins("o", y, 0), Ins("b", <<{}, {}>>, 3),
      Ins("b", Use1, 2), Ins("r", z, 0)>>
(* A join inside one arm of a branch: the outer join needs a phi-function  *)
(* only because the inner one has got one.                                 *)
Skip(x, y, z) ==
    <<Ins("o", Def1, 0), Ins("b", Use1, 6), Ins("b", Use2, 5), Ins("o", x, 0),
      Ins("o", y, 0), Ins("o", z, 0)>>
(* A loop that no entry reaches runs into the last block. *)
Unreached(x, y) ==
    <<Ins("o", Def1, 0), Ins("j", <<{}, {}>>, 5), Ins("o", x, 0),
      Ins("b", Use1, 3), Ins("o", y, 0)>>
(* Two entries, the second behind a return. *)
TwoEntries(x, y) ==
    <<Ins("o", Def1, 0), Ins("b", Use1, 5), Ins("r", x, 0), Ins("o", Def1, 0),
      Ins("c", y, 0), Ins("s", Use1, 0)>>
(* Two functions that jump into one tail: build_dominators stops early and *)
(* leaves its last block with the set of one way into it.                  *)
SharedTail(x, y) ==
    <<Ins("o", Def1, 0), Ins("b", Use1, 8), Ins("o", x, 0), Ins("r", Use1, 0),
      Ins("o", y, 0), Ins("j", <<{}, {}>>, 4), Ins("j", <<{}, {}>>, 5),
      Ins("o", Def2, 0), Ins("j", <<{}, {}>>, 5), Ins("j", <<{}, {}>>, 7)>>
(* A loop that two functions enter, left stale with the block behind it.   *)
SharedLoop(x, y) ==
    <<Ins("o", Def1, 0), Ins("j", <<{}, {}>>, 7), Ins("o", x, 0), Ins("b", Use1, 9),
      Ins("o", y, 0), Ins("j", <<{}, {}>>, 3), Ins("j", <<{}, {}>>, 5),
      Ins("b", Use1, 5), Ins("r", Use1, 0), Ins("j", <<{}, {}>>, 8)>>
(* One block, cut at its fourth instruction. *)
Memory(t1, t2, t3, x, y) ==
    <<Ins("o", Def1, 0), Ins(t1, <<{1}, {2}>>, 0), Ins(t2, x, 0), Ins(t3, y, 0),
      Ins("o", <<{2}, {2}>>, 0), Ins("r", Use2, 0)>>

MCPrograms ==
    {Loop(w, x, y, z) : w, x, y, z \in Data}
    \cup {Diamond(w, x, y, z) : w, x, y, z \in Data}
    \cup {Nested(w, x, y, Use2) : w, x, y \in Data}
    \cup {Skip(x, y, z) : x, y, z \in Data}
    \cup {Unreached(x, y) : x, y \in Data}
    \cup {TwoEntries(x, y) : x, y \in Data}
    \cup {SharedTail(x, y) : x, y \in Data}
    \cup {SharedLoop(x, y) : x, y \in Data}
    \cup {Memory(t1, t2, t3, x, y) :
             t1, t2, t3 \in {"ld", "st", "o"}, x, y \in Data}
=============================================================================
