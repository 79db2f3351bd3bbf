----------------------------- MODULE Application -----------------------------
(***************************************************************************)
(* The application the simulator instruments, run by itself: one           *)
(* instruction after the other, stores to memory, system calls to the      *)
(* operating system.  Branches may go either way.  It is what the front    *)
(* end must leave undisturbed however many wrong paths it takes.           *)
(***************************************************************************)
EXTENDS Naturals

CONSTANTS
    Kind,           \* the kind of the instruction at each address
    Target,         \* the targets of the branch at an address
    EA,             \* the location an instruction stores to
    MaxIns          \* backward branches are taken below this instruction count

Addr == DOMAIN Kind
Loc == {EA[a] : a \in DOMAIN EA}
Stores == {"store", "xsave"}
Branches == {"br", "jmp", "call"}

VARIABLES
    pc,             \* the next instruction
    regs,           \* the register file: only how many instructions made it
    mem,            \* memory
    os              \* the system calls made

vars == <<pc, regs, mem, os>>

(* How the branch at a may go: only a conditional one falls through. *)
Outcomes(a) ==
    [taken : {TRUE}, tgt : Target[a]]
      \cup IF Kind[a] = "br" THEN [taken : {FALSE}, tgt : Target[a]] ELSE {}

Successor(a, o) == IF o.taken THEN o.tgt ELSE a + 1

(* Loops end: after MaxIns instructions no branch goes backwards. *)
Allowed(a, n) == {o \in Outcomes(a) : n < MaxIns \/ Successor(a, o) > a}

Init ==
    /\ pc = 1
    /\ regs = 0
    /\ mem = [x \in Loc |-> 0]
    /\ os = 0

(* What executing the instruction at a does besides moving on. *)
Stored(m, a, x, n) == IF Kind[a] \in Stores THEN [m EXCEPT ![x] = n] ELSE m
Called(s, a) == IF Kind[a] = "sys" THEN s + 1 ELSE s

Execute ==
    /\ Kind[pc] # "exit"
    /\ regs' = regs + 1
    /\ mem' = IF Kind[pc] \in Stores THEN Stored(mem, pc, EA[pc], regs + 1) ELSE mem
    /\ os' = Called(os, pc)
    /\ IF Kind[pc] \in Branches
       THEN \E o \in Allowed(pc, regs) : pc' = Successor(pc, o)
       ELSE pc' = pc + 1

(* What it does, and that it goes on to its end. *)
SafeSpec == Init /\ [][Execute]_vars

Spec == SafeSpec /\ WF_vars(Execute)
=============================================================================
