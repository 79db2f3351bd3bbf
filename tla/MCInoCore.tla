----------------------------- MODULE MCInoCore -----------------------------
(* Small programs for the in-order core. *)
EXTENDS InoCore

Alu(r, w) == [op |-> "ALU", rd |-> r, wr |-> w, wrongPath |-> FALSE]
Load(w) == [op |-> "LOAD", rd |-> {}, wr |-> w, wrongPath |-> FALSE]
Store(r) == [op |-> "STORE", rd |-> r, wr |-> {}, wrongPath |-> FALSE]
Wrong(i) == [i EXCEPT !.wrongPath = TRUE]

(* The mispredicted branch, which the frontend flags as well; it writes no  *)
(* register.                                                                *)
Branch(r) == Wrong(Alu(r, {}))

(* Every sort of instruction before, within and behind a wrong-path run.    *)
Kinds == {Alu({1}, {1}), Load({1}), Store({1})}
InOrderPrograms ==
    {<< a, b, Branch({}), Wrong(w), c >> : a, b, w, c \in Kinds}
      \cup {<< Load({1}), Branch({1}), Branch({}), Wrong(Store({})), Load({2}), Store({2}) >>}

(* A store waits in the memory port of length one, the next one behind it  *)
(* in its unit, when the branch is found to be mispredicted.               *)
HeldPrograms ==
    {<< Store({}), Store({}), Branch({}), Alu({}, {}) >>}
=============================================================================
