----------------------------- MODULE MCBBWindow -----------------------------
(* Small programs for BBWindow. *)
EXTENDS BBWindow

Ins(bb, op, rd, wr, needs) ==
    [bb |-> bb, op |-> op, rd |-> rd, wr |-> wr, needs |-> needs]

(* A register written, read and written again; a store and a load that     *)
(* wait for different things; a second and a third block, so that windows  *)
(* are reused with writes pending.                                         *)
ChainProgram ==
    << Ins(1, "ALU", << >>, {"a"}, {}),
       Ins(1, "ALU", <<"a">>, {"b"}, {}),
       Ins(1, "STORE", <<"b", "a">>, {}, {}),
       Ins(2, "ALU", << >>, {"a"}, {1}),
       Ins(2, "LOAD", <<"a">>, {"a"}, {}),
       Ins(3, "ALU", << >>, {"a"}, {}),
       Ins(3, "STORE", <<"a">>, {}, {5}),
       Ins(4, "ALU", << >>, {"b"}, {4}),
       Ins(4, "ALU", <<"b">>, {"a", "b"}, {}) >>

(* The head of the second block waits for a global operand while the ones  *)
(* behind it are ready.                                                    *)
OverlapProgram ==
    << Ins(1, "ALU", << >>, {}, {}),
       Ins(2, "ALU", <<"a">>, {"b"}, {1}),
       Ins(2, "ALU", << >>, {"a"}, {}),
       Ins(2, "ALU", <<"b">>, {}, {}) >>

(* A store that waits for its data, and a load behind it. *)
MemoryProgram ==
    << Ins(1, "ALU", << >>, {}, {}),
       Ins(2, "STORE", << >>, {}, {1}),
       Ins(2, "LOAD", << >>, {"a"}, {}) >>

(* Two writers of one register with nothing between them, an instruction   *)
(* that waits for them, and one behind it that does not; then a window     *)
(* full of ready instructions.                                             *)
ReadyProgram ==
    << Ins(1, "ALU", << >>, {"a"}, {}),
       Ins(1, "ALU", << >>, {"a"}, {}),
       Ins(1, "ALU", <<"a">>, {}, {}),
       Ins(1, "ALU", << >>, {}, {}),
       Ins(2, "ALU", << >>, {}, {}),
       Ins(2, "ALU", << >>, {"b"}, {}),
       Ins(2, "ALU", << >>, {}, {}) >>

AllPrograms == {ChainProgram, OverlapProgram, MemoryProgram, ReadyProgram}
=============================================================================
