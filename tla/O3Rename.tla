------------------------------ MODULE O3Rename ------------------------------
(***************************************************************************)
(* Register renaming of the out-of-order core: o3_registerRename (the two  *)
(* alias tables, the register file, the free list) driven by o3_rfManager, *)
(* as the pipeline stages call it.                                         *)
(*                                                                         *)
(* Architectural register a starts in physical register a; the remaining   *)
(* physical registers are the rename registers.  The free list is used as  *)
(* a stack.  The instructions between dispatch and commit (the ROB) are    *)
(* kept with the operand lists the manager writes into them.               *)
(***************************************************************************)
EXTENDS Naturals, Sequences, FiniteSets, Queues

CONSTANTS
    NumAR,        \* architectural registers (a_size)
    NumPR,        \* physical registers (p_size)
    RobSize,      \* entries of the reorder buffer
    ReadLists,    \* the source lists an instruction may have
    WriteLists    \* the destination lists an instruction may have

AReg == 1 .. NumAR
PReg == 1 .. NumPR
NoPR == 0         \* the null previous-register pointer

RegState == {"AVAILABLE", "RENAMED_INVALID", "RENAMED_VALID", "ARCH_REG"}
InsStage == {"DISPATCH", "ISSUE", "COMPLETE"}

ASSUME SizesAssumption ==
    /\ NumAR \in Nat \ {0}
    /\ NumPR \in Nat
    /\ NumAR < NumPR
    /\ RobSize \in Nat \ {0}

(* A destination list names no register twice. *)
ASSUME ListsAssumption ==
    /\ ReadLists \subseteq Seq(AReg)
    /\ \A s \in WriteLists : s \in Seq(AReg) /\ Distinct(s)

VARIABLES
    fRAT,         \* speculative map, read and written by renaming
    cRAT,         \* committed map
    regState,     \* _reg_state of every physical register
    prev,         \* _prev_pr of every physical register
    avail,        \* _availablePRset, popped and pushed at its end
    rob,          \* dispatched, uncommitted instructions, oldest first
    recovering,   \* the ROB is squashed, the tables are not restored yet
    front         \* destinations of the next instruction to rename

regVars == <<fRAT, cRAT, regState, prev, avail>>
vars == <<fRAT, cRAT, regState, prev, avail, rob, recovering, front>>

(* An instruction as the manager leaves it: its renamed sources, its       *)
(* destinations, the registers given to them, and how far it has come.     *)
Entry == [rd : Seq(AReg), src : Seq(PReg), wr : Seq(AReg), dst : Seq(PReg),
          stage : InsStage]

TypeOK ==
    /\ fRAT \in [AReg -> PReg]
    /\ cRAT \in [AReg -> PReg]
    /\ regState \in [PReg -> RegState]
    /\ prev \in [PReg -> PReg \cup {NoPR}]
    /\ avail \in Seq(PReg)
    /\ rob \in Seq(Entry)
    /\ recovering \in BOOLEAN
    /\ front \in WriteLists

-----------------------------------------------------------------------------
Init ==
    /\ fRAT = [a \in AReg |-> a]
    /\ cRAT = [a \in AReg |-> a]
    /\ regState = [p \in PReg |-> IF p <= NumAR THEN "ARCH_REG" ELSE "AVAILABLE"]
    /\ prev = [p \in PReg |-> NoPR]
    /\ avail = [i \in 1 .. NumPR - NumAR |-> NumAR + i]
    /\ rob = << >>
    /\ recovering = FALSE
    /\ front \in WriteLists

(* Fault: registers are read from the bottom of the stack and popped from  *)
(* its top.                                                                *)
getAvailablePR_Front(k) == [i \in 1 .. k |-> avail[i]]

(* The k registers on top of the stack, in the order they are popped. *)
getAvailablePR(k) == [i \in 1 .. k |-> avail[Len(avail) + 1 - i]]

canRename(wr) == Len(wr) <= Len(avail)

(* Destination wr[i] moves to register new[i]. *)
update_fRAT(wr, new) ==
    [a \in AReg |-> IF \E i \in 1 .. Len(wr) : wr[i] = a
                    THEN new[CHOOSE i \in 1 .. Len(wr) : wr[i] = a]
                    ELSE fRAT[a]]

(* Fault: the link to the superseded register is not set. *)
updatePR_NoLink(wr, new) == prev

(* Register new[i] remembers the one it supersedes. *)
updatePR(wr, new) ==
    [p \in PReg |-> IF \E i \in 1 .. Len(wr) : new[i] = p
                    THEN fRAT[wr[CHOOSE i \in 1 .. Len(wr) : new[i] = p]]
                    ELSE prev[p]]

(* Fault: sources are looked up after the destinations are renamed. *)
renameSources_After(rd, wr) ==
    [i \in 1 .. Len(rd) |-> update_fRAT(wr, getAvailablePR(Len(wr)))[rd[i]]]

(* Sources are looked up before any destination is renamed. *)
renameSources(rd, wr) == [i \in 1 .. Len(rd) |-> fRAT[rd[i]]]

(* The registers in list regs go to state s. *)
updatePRstate(regs, s) ==
    [p \in PReg |-> IF \E i \in 1 .. Len(regs) : regs[i] = p
                    THEN s ELSE regState[p]]

(* The instruction at the front of the port is renamed and dispatched; one *)
(* behind it, which may be any, becomes the front.                         *)
renameRegs(rd) ==
    LET wr == front
        new == getAvailablePR(Len(wr))
    IN
    /\ ~recovering
    /\ Len(rob) < RobSize
    /\ canRename(wr)
    /\ rob' = Append(rob, [rd |-> rd, src |-> renameSources(rd, wr),
                           wr |-> wr, dst |-> new, stage |-> "DISPATCH"])
    /\ fRAT' = update_fRAT(wr, new)
    /\ prev' = updatePR(wr, new)
    /\ regState' = updatePRstate(new, "RENAMED_INVALID")
    /\ avail' = SubSeq(avail, 1, Len(avail) - Len(wr))
    /\ front' \in WriteLists
    /\ UNCHANGED <<cRAT, recovering>>

(* A source is readable once its register holds a value. *)
isPRvalid(p) == regState[p] \in {"ARCH_REG", "RENAMED_VALID"}

(* The scheduler issues an instruction all of whose sources are readable.  *)
isReady(n) ==
    /\ ~recovering
    /\ rob[n].stage = "DISPATCH"
    /\ \A i \in 1 .. Len(rob[n].src) : isPRvalid(rob[n].src[i])
    /\ rob' = [rob EXCEPT ![n].stage = "ISSUE"]
    /\ UNCHANGED <<regVars, recovering, front>>

(* A result is written: its destinations become readable. *)
completeRegs(n) ==
    /\ ~recovering
    /\ rob[n].stage = "ISSUE"
    /\ rob' = [rob EXCEPT ![n].stage = "COMPLETE"]
    /\ regState' = updatePRstate(rob[n].dst, "RENAMED_VALID")
    /\ UNCHANGED <<fRAT, cRAT, prev, avail, recovering, front>>

(* Fault: the committed map is not updated. *)
update_cRAT_Stale(wr, dst) == cRAT

(* The registers superseded by those in list regs. *)
getPrevPR(regs) == [i \in 1 .. Len(regs) |-> prev[regs[i]]]

update_cRAT(wr, dst) ==
    [a \in AReg |-> IF \E i \in 1 .. Len(wr) : wr[i] = a
                    THEN dst[CHOOSE i \in 1 .. Len(wr) : wr[i] = a]
                    ELSE cRAT[a]]

(* Fault: superseded registers are marked available and never pushed back. *)
commitRegs_Leak ==
    LET e == rob[1]
        old == getPrevPR(e.dst)
        isOld(p) == \E i \in 1 .. Len(old) : old[i] = p
    IN
    /\ ~recovering
    /\ rob # << >>
    /\ e.stage = "COMPLETE"
    /\ regState' = [p \in PReg |-> IF isOld(p) THEN "AVAILABLE"
                                   ELSE updatePRstate(e.dst, "ARCH_REG")[p]]
    /\ cRAT' = update_cRAT(e.wr, e.dst)
    /\ rob' = Tail(rob)
    /\ UNCHANGED <<fRAT, prev, avail, recovering, front>>

(* The oldest instruction retires: its destinations become the committed   *)
(* registers and the ones they supersede are pushed on the free list.      *)
commitRegs ==
    LET e == rob[1]
        old == getPrevPR(e.dst)
        isOld(p) == \E i \in 1 .. Len(old) : old[i] = p
    IN
    /\ ~recovering
    /\ rob # << >>
    /\ e.stage = "COMPLETE"
    /\ regState' = [p \in PReg |-> IF isOld(p) THEN "AVAILABLE"
                                   ELSE updatePRstate(e.dst, "ARCH_REG")[p]]
    /\ cRAT' = update_cRAT(e.wr, e.dst)
    /\ avail' = avail \o old
    /\ prev' = [p \in PReg |-> IF isOld(p) THEN NoPR ELSE prev[p]]
    /\ rob' = Tail(rob)
    /\ UNCHANGED <<fRAT, recovering, front>>

(* Commit has drained what is older than the squashed instruction and      *)
(* empties the ROB; the register tables are restored a cycle later.  The   *)
(* port was flushed too: another instruction comes to its front.           *)
squashROB ==
    /\ ~recovering
    /\ rob # << >>
    /\ rob' = << >>
    /\ recovering' = TRUE
    /\ front' \in WriteLists
    /\ UNCHANGED regVars

(* Fault: the speculative map survives the squash. *)
squashRenameReg_KeepMap ==
    LET arch == {cRAT[a] : a \in AReg} IN
    /\ recovering
    /\ recovering' = FALSE
    /\ regState' = [p \in PReg |->
                      IF p \in arch THEN "ARCH_REG" ELSE "AVAILABLE"]
    /\ prev' = [p \in PReg |-> NoPR]
    /\ avail' = Ascending(PReg \ arch)
    /\ UNCHANGED <<fRAT, cRAT, rob, front>>

(* The committed map becomes the speculative map; every other register is  *)
(* free, in register order.                                                *)
squashRenameReg ==
    LET arch == {cRAT[a] : a \in AReg} IN
    /\ recovering
    /\ recovering' = FALSE
    /\ fRAT' = cRAT
    /\ regState' = [p \in PReg |->
                      IF p \in arch THEN "ARCH_REG" ELSE "AVAILABLE"]
    /\ prev' = [p \in PReg |-> NoPR]
    /\ avail' = Ascending(PReg \ arch)
    /\ UNCHANGED <<cRAT, rob, front>>

Next ==
    \/ \E rd \in ReadLists : renameRegs(rd)
    \/ \E n \in 1 .. Len(rob) : isReady(n)
    \/ \E n \in 1 .. Len(rob) : completeRegs(n)
    \/ commitRegs
    \/ squashROB
    \/ squashRenameReg

Spec == Init /\ [][Next]_vars

(* Every stage runs every cycle: a ready instruction is issued, an issued  *)
(* one completes, the completed oldest one commits, a squashed ROB is      *)
(* recovered from.  Nothing obliges instructions to arrive.                *)
Fairness ==
    /\ \A n \in 1 .. RobSize : WF_vars(n <= Len(rob) /\ isReady(n))
    /\ \A n \in 1 .. RobSize : WF_vars(n <= Len(rob) /\ completeRegs(n))
    /\ WF_vars(commitRegs)
    /\ WF_vars(squashRenameReg)

FairSpec == Spec /\ Fairness

-----------------------------------------------------------------------------
(* Instruction n of the ROB writes a; it does so into register p. *)
Writes(n, a) == \E i \in 1 .. Len(rob[n].wr) : rob[n].wr[i] = a
WritesTo(n, a, p) ==
    \E i \in 1 .. Len(rob[n].wr) : rob[n].wr[i] = a /\ rob[n].dst[i] = p

(* p holds what a names just before ROB position m: the destination of the *)
(* youngest older in-flight writer of a, or the committed register.        *)
MapsTo(m, a, p) ==
    \/ \E n \in 1 .. m - 1 :
          WritesTo(n, a, p) /\ \A o \in n + 1 .. m - 1 : ~Writes(o, a)
    \/ (\A o \in 1 .. m - 1 : ~Writes(o, a)) /\ cRAT[a] = p

(* The free list holds each available register once and no other: no       *)
(* register is leaked, freed twice or handed out while in use              *)
(* (getAvailablePR, setAsAvailablePR, squashRenameReg).                    *)
FreeListExact ==
    /\ \A i, j \in 1 .. Len(avail) : avail[i] = avail[j] => i = j
    /\ \A p \in PReg :
          regState[p] = "AVAILABLE" <=> \E i \in 1 .. Len(avail) : avail[i] = p

(* The committed map is one-to-one onto the registers in ARCH_REG state,   *)
(* which is what squashRenameReg rebuilds everything else from.            *)
CommittedMapExact ==
    /\ \A a, b \in AReg : cRAT[a] = cRAT[b] => a = b
    /\ \A p \in PReg : regState[p] = "ARCH_REG" <=> \E a \in AReg : cRAT[a] = p

(* Every renamed register is the destination of one in-flight instruction, *)
(* and readable exactly when that instruction has completed.               *)
InFlightExact ==
    /\ \A n, m \in 1 .. Len(rob) :
          \A i \in 1 .. Len(rob[n].dst), j \in 1 .. Len(rob[m].dst) :
            rob[n].dst[i] = rob[m].dst[j] => n = m /\ i = j
    /\ \A n \in 1 .. Len(rob) : \A i \in 1 .. Len(rob[n].dst) :
          regState[rob[n].dst[i]] = IF rob[n].stage = "COMPLETE"
                                    THEN "RENAMED_VALID" ELSE "RENAMED_INVALID"
    /\ ~recovering => \A p \in PReg :
          regState[p] \in {"RENAMED_VALID", "RENAMED_INVALID"} =>
            \E n \in 1 .. Len(rob) : \E i \in 1 .. Len(rob[n].dst) :
              rob[n].dst[i] = p

(* The speculative map names the youngest definition of each register. *)
SpeculativeMap == ~recovering => \A a \in AReg : MapsTo(Len(rob) + 1, a, fRAT[a])

(* What an in-flight destination supersedes is the previous definition of  *)
(* its register, so committing in order frees the committed register.      *)
UndoChain ==
    \A n \in 1 .. Len(rob) : \A i \in 1 .. Len(rob[n].dst) :
      MapsTo(n, rob[n].wr[i], prev[rob[n].dst[i]])

(* The sources of every in-flight instruction name its true producers, for *)
(* as long as it is in flight: none is recycled under a waiting reader.    *)
TrueProducers ==
    \A n \in 1 .. Len(rob) : \A i \in 1 .. Len(rob[n].src) :
      MapsTo(n, rob[n].rd[i], rob[n].src[i])

(* A source that has become readable stays readable until the instruction  *)
(* issues or is squashed, whatever commits or is renamed meanwhile: the    *)
(* issue logic drops readable operands one at a time and never looks back. *)
ReadableStaysReadable ==
    [][\A n \in 1 .. Len(rob) :
         (rob[n].stage = "DISPATCH" /\ ~recovering') =>
           \A p \in PReg :
             ((\E i \in 1 .. Len(rob[n].src) : rob[n].src[i] = p)
                 /\ isPRvalid(p)) => isPRvalid(p)']_vars

(* A stalled rename does not stall for ever: however many registers are in *)
(* flight, enough come back for the instruction waiting (canRename).       *)
RenameNeverStarves == []<>canRename(front)
=============================================================================
