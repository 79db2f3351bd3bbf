------------------------------ MODULE MCBBCore ------------------------------
(* Small programs of blocks for the CG-OoO core.  A program is given as a   *)
(* sequence of blocks, a block as a sequence of instructions.               *)
EXTENDS BBCore

Alu(rd, wr) == [op |-> "ALU", addr |-> 0, rd |-> rd, wr |-> wr, wrongPath |-> FALSE]
Load(a, wr) == [op |-> "LOAD", addr |-> a, rd |-> {}, wr |-> wr, wrongPath |-> FALSE]
Store(a, rd) == [op |-> "STORE", addr |-> a, rd |-> rd, wr |-> {}, wrongPath |-> FALSE]
Wrong(b) == [n \in 1 .. Len(b) |-> [b[n] EXCEPT !.wrongPath = TRUE]]

InBlock(i, b) == [op |-> i.op, addr |-> i.addr, rd |-> i.rd, wr |-> i.wr,
                  wrongPath |-> i.wrongPath, bb |-> b]
Flat(bs) == FlattenSeq([b \in 1 .. Len(bs) |->
                          [n \in 1 .. Len(bs[b]) |-> InBlock(bs[b][n], b)]])

(* The mispredicted branch: the frontend flags it as well (HandleBranch     *)
(* runs before pin__getBrIns).                                              *)
Mispredicted(rd) == [Alu(rd, {}) EXCEPT !.wrongPath = TRUE]
Branch(rd) == << Mispredicted(rd) >>

(* The mispredicted branch is alone in its block, and no block is mixed.    *)
(* A wrong path of one and of two blocks; a load that overtakes a store of  *)
(* an older block, and of its own; a right-path block with a violating      *)
(* load right behind a wrong-path run; a wrong-path block with both kinds   *)
(* of culprit; a wrong-path store that finds a load of a younger block.     *)
UnmixedPrograms ==
    { Flat(<< << Alu({}, {1}), Alu({1}, {1}) >>, Branch({1}), << Alu({1}, {}) >> >>),
      Flat(<< << Alu({}, {1}) >>, Branch({1}), Wrong(<< Store(1, {}) >>),
              << Store(1, {1}) >>, << Load(1, {}) >> >>),
      Flat(<< << Load(2, {}), Store(1, {}) >>, << Load(1, {1}), Alu({1}, {}) >> >>),
      Flat(<< << Load(2, {1}), Store(1, {1}), Load(1, {2}) >>, << Alu({2}, {}) >> >>),
      Flat(<< << Load(2, {}), Store(1, {}) >>, Branch({}), << Load(1, {}) >> >>),
      Flat(<< << Load(2, {}) >>, Branch({}), Wrong(<< Store(1, {}), Load(1, {}) >>),
              << Alu({}, {}) >> >>),
      Flat(<< Branch({}), Wrong(<< Load(2, {}), Store(1, {}) >>), << Load(1, {}) >> >>) }

(* The mispredicted branch ends a block of the right path, as it mostly     *)
(* does: followed by a wrong-path block; twice in a row; in a block whose   *)
(* store is overtaken by a load behind it, or by its own.  And a block      *)
(* whose first operation was made up on the wrong path (rescheduleInsList), *)
(* with a load that overtakes an older store.                               *)
MixedPrograms ==
    { Flat(<< << Alu({}, {1}), Mispredicted({1}) >>, Wrong(<< Alu({1}, {}) >>),
              << Alu({1}, {}) >> >>),
      Flat(<< << Alu({}, {1}), Mispredicted({1}) >>, << Alu({1}, {}), Mispredicted({}) >>,
              << Alu({1}, {}) >> >>),
      Flat(<< << Load(2, {}), Store(1, {}), Mispredicted({}) >>, << Load(1, {}) >> >>),
      Flat(<< << Load(2, {1}), Store(1, {1}), Load(1, {}), Mispredicted({}) >> >>),
      Flat(<< << Load(2, {}), Store(1, {}) >>, << Mispredicted({}), Load(1, {}) >> >>) }

BlockPrograms == UnmixedPrograms \cup MixedPrograms
=============================================================================
