------------------------------ MODULE MCO3Core ------------------------------
(* Small programs for the out-of-order core.  Registers and addresses are  *)
(* named by small numbers.                                                 *)
EXTENDS O3Core

Alu(rd, wr) == [op |-> "ALU", addr |-> 0, rd |-> rd, wr |-> wr, wrongPath |-> FALSE]
Load(a, wr) == [op |-> "LOAD", addr |-> a, rd |-> {}, wr |-> wr, wrongPath |-> FALSE]
Store(a, rd) == [op |-> "STORE", addr |-> a, rd |-> rd, wr |-> {}, wrongPath |-> FALSE]
Wrong(i) == [i EXCEPT !.wrongPath = TRUE]

(* Branch mispredictions: a memory access, a wrong path of one or two      *)
(* instructions, before or behind a right-path one or alone, and an        *)
(* instruction that defines a register, over an operation on a register, a *)
(* load into it, a store to the address of the load, and wrong-path ones   *)
(* of two sorts.                                                           *)
Kinds == {Alu({1}, {1}), Load(1, {1}), Store(1, {})}
BranchPrograms ==
    {p \in [1 .. 4 -> Kinds \cup {Wrong(Alu({1}, {1})), Wrong(Store(1, {}))}] :
       /\ p[1] \in {Load(1, {1}), Store(1, {})}
       /\ p[2].wrongPath \/ p[3].wrongPath
       /\ p[4] \in {Alu({1}, {1}), Load(1, {1})}}

(* A few longer ones: a wrong-path run that defines a register the right   *)
(* path reads, two separate runs, and a run of every sort of instruction.  *)
LongBranchPrograms ==
    { << Alu({}, {1}), Wrong(Alu({}, {1})), Alu({1}, {}), Alu({}, {1}), Alu({1}, {}) >>,
      << Store(1, {}), Alu({}, {1}), Wrong(Alu({1}, {})), Load(1, {1}), Wrong(Load(1, {})),
         Alu({1}, {}) >>,
      << Load(1, {1}), Wrong(Store(1, {})), Wrong(Alu({1}, {1})), Wrong(Load(1, {1})),
         Store(1, {1}), Load(1, {1}) >> }

AllBranchPrograms == BranchPrograms \cup LongBranchPrograms

(* Memory mis-speculation: a load overtakes a slow store to its address;   *)
(* one of two stores to the address is seen; the violating load is older,  *)
(* or younger, than a wrong-path instruction, or on the wrong path itself; *)
(* two loads violate.                                                      *)
MemoryPrograms ==
    { << Store(1, {}), Load(2, {1}), Load(1, {1}), Alu({1}, {}) >>,
      << Load(2, {}), Store(1, {}), Store(1, {}), Load(1, {1}), Alu({1}, {}) >>,
      << Load(2, {}), Store(1, {}), Load(1, {1}), Wrong(Alu({1}, {})), Alu({}, {}) >>,
      << Load(2, {1}), Store(1, {}), Wrong(Alu({1}, {})), Alu({}, {}), Load(1, {}) >>,
      << Load(2, {1}), Store(1, {}), Wrong(Alu({1}, {})), Wrong(Load(1, {})), Alu({}, {}) >>,
      << Load(2, {1}), Store(1, {1}), Load(1, {1}), Store(2, {}), Load(2, {1}), Alu({1}, {}) >> }

(* The branch programs run under perfect memory disambiguation, the memory *)
(* programs under naive speculation.                                       *)
CorePrograms == AllBranchPrograms \cup MemoryPrograms
CoreMemModel ==
    [p \in CorePrograms |-> IF p \in MemoryPrograms THEN "NAIVE_SPECUL" ELSE "PERFECT"]

(* A violating load right behind a wrong-path run. *)
MixedPrograms ==
    { << Load(2, {1}), Store(1, {}), Wrong(Alu({1}, {})), Load(1, {}) >> }
MixedMemModel == [p \in MixedPrograms |-> "NAIVE_SPECUL"]
=============================================================================
