------------------------------ MODULE BBRename ------------------------------
(***************************************************************************)
(* Global renaming of the block core: bb_registerRename, whose physical    *)
(* registers are dealt out over segments with a free list each, driven by  *)
(* bb_grfManager.  Instructions are renamed one by one as they enter the   *)
(* window of their block, and give registers back a whole block at a time. *)
(*                                                                         *)
(* A segment begins with its share of the architectural registers.  A      *)
(* block takes registers from the segment of its window first, and from    *)
(* the next ones round the circle when that has none.                      *)
(***************************************************************************)
EXTENDS Naturals, Sequences, FiniteSets, SequencesExt, Queues

CONSTANTS
    NumSeg,       \* segments of the register file (segmnt_cnt)
    ArchSeg,      \* architectural registers per segment
    SegSize,      \* physical registers per segment
    NumWin,       \* block windows (blk_cnt)
    Cluster,      \* segments a window reads without delay (cluster_size)
    RobSize,      \* blocks the block reorder buffer holds
    BlockSize,    \* instructions of the longest block
    ReadLists,    \* the source lists an instruction may have
    WriteLists    \* the destination lists an instruction may have

NumAR == NumSeg * ArchSeg
NumPR == NumSeg * SegSize
AReg == 1 .. NumAR
PReg == 1 .. NumPR
Segment == 0 .. NumSeg - 1
Window == 0 .. NumWin - 1
NoPR == 0

RegState == {"AVAILABLE", "RENAMED_INVALID", "RENAMED_VALID", "ARCH_REG"}

(* The assertions of the constructor. *)
ASSUME SegmentsAssumption ==
    /\ NumSeg \in Nat \ {0} /\ NumWin \in Nat \ {0} /\ ArchSeg \in Nat \ {0}
    /\ NumWin % NumSeg = 0
    /\ SegSize \in Nat /\ ArchSeg < SegSize
    /\ Cluster \in 1 .. NumSeg

ASSUME ListsAssumption ==
    /\ RobSize \in Nat \ {0} /\ BlockSize \in Nat \ {0}
    /\ ReadLists \subseteq Seq(AReg)
    /\ \A s \in WriteLists : s \in Seq(AReg) /\ Distinct(s)

(* A block that defines more registers than there are to rename with can   *)
(* never be dispatched as a whole, and nothing of it commits before that.  *)
ASSUME BlocksFitAssumption ==
    \A s \in WriteLists : BlockSize * Len(s) <= NumSeg * (SegSize - ArchSeg)

VARIABLES
    fRAT,         \* speculative map
    cRAT,         \* committed map
    regState,     \* _reg_state of every physical register
    prev,         \* _prev_pr of every physical register
    avail,        \* _availablePRset: a stack of registers per segment
    rob,          \* dispatched, uncommitted instructions, oldest first
    recovering,   \* the ROB is squashed, the tables are not restored yet
    front         \* destinations of the next instruction to rename

regVars == <<fRAT, cRAT, regState, prev, avail>>
vars == <<fRAT, cRAT, regState, prev, avail, rob, recovering, front>>

(* An instruction: the window of its block and whether it is the block's   *)
(* last, its renamed sources and those it still waits for, whether it has  *)
(* looked at a far register this cycle, its destinations and the registers *)
(* given to them, and how far it has come.                                 *)
Entry == [win : Window, last : BOOLEAN, rd : Seq(AReg), src : Seq(PReg),
          waits : SUBSET PReg, far : BOOLEAN, wr : Seq(AReg), dst : Seq(PReg),
          stage : {"DISPATCH", "ISSUE", "COMPLETE"}]

TypeOK ==
    /\ fRAT \in [AReg -> PReg]
    /\ cRAT \in [AReg -> PReg]
    /\ regState \in [PReg -> RegState]
    /\ prev \in [PReg -> PReg \cup {NoPR}]
    /\ avail \in [Segment -> Seq(PReg)]
    /\ rob \in Seq(Entry)
    /\ recovering \in BOOLEAN
    /\ front \in WriteLists

-----------------------------------------------------------------------------
(* The segment of a register; the segment of a window. *)
PR2APRindx(p) == (p - 1) \div SegSize
blkIndx2APRindx(w) == w \div (NumWin \div NumSeg)

InitialPR(a) == ((a - 1) \div ArchSeg) * SegSize + ((a - 1) % ArchSeg) + 1

Init ==
    LET arch == {InitialPR(a) : a \in AReg} IN
    /\ fRAT = [a \in AReg |-> InitialPR(a)]
    /\ cRAT = fRAT
    /\ regState = [p \in PReg |-> IF p \in arch THEN "ARCH_REG" ELSE "AVAILABLE"]
    /\ prev = [p \in PReg |-> NoPR]
    /\ avail = [s \in Segment |->
                  Ascending({p \in PReg \ arch : PR2APRindx(p) = s})]
    /\ rob = << >>
    /\ recovering = FALSE
    /\ front \in WriteLists

(* The free registers in the order in which a window is given them: each   *)
(* segment's stack from its top, the window's own segment first.           *)
getAvailablePR(w) ==
    Flatten([i \in 1 .. NumSeg |->
               Reverse(avail[(blkIndx2APRindx(w) + i - 1) % NumSeg])])

(* Fault: only the window's own segment is counted. *)
getNumAvailablePR_Local(w) == Len(avail[blkIndx2APRindx(w)])

(* The free registers of all segments, whichever window asks. *)
getNumAvailablePR(w) == Cardinality(UNION {Elements(avail[s]) : s \in Segment})

canRename(wr, w) == Len(wr) <= getNumAvailablePR(w)

updated(map, wr, new) ==
    [a \in AReg |-> IF a \in Elements(wr) THEN new[IndexOf(wr, a)] ELSE map[a]]

(* Register new[i] remembers the one it supersedes. *)
updatePR(wr, new) ==
    [p \in PReg |-> IF p \in Elements(new) THEN fRAT[wr[IndexOf(new, p)]] ELSE prev[p]]

(* Fault: sources are looked up after the destinations are renamed. *)
renameSources_After(rd, wr, new) ==
    [i \in 1 .. Len(rd) |-> updated(fRAT, wr, new)[rd[i]]]

(* Sources are looked up before any destination is renamed. *)
renameSources(rd, wr, new) == [i \in 1 .. Len(rd) |-> fRAT[rd[i]]]

(* The instructions of the youngest block, while it is still dispatched. *)
onFetch ==
    {n \in 1 .. Len(rob) : \A m \in n .. Len(rob) : ~rob[m].last}

(* A block that begins takes a window no block is on (getAnAvailBBWin); a  *)
(* window whose instructions have all issued may be taken again.           *)
windowsFor ==
    IF onFetch # {} THEN {rob[Len(rob)].win}
    ELSE {w \in Window :
            \A n \in 1 .. Len(rob) : rob[n].win = w => rob[n].stage # "DISPATCH"}

popped(new) == [s \in Segment |-> Filter(avail[s], PReg \ Elements(new))]

(* The instruction at the front of the port enters window w and is         *)
(* renamed; one behind it, which may be any, becomes the front.            *)
renameRegs(rd, w, last) ==
    LET wr == front
        new == Take(getAvailablePR(w), Len(wr))
        src == renameSources(rd, wr, new)
    IN
    /\ ~recovering
    /\ w \in windowsFor
    /\ onFetch = {} => Cardinality({n \in 1 .. Len(rob) : rob[n].last}) < RobSize
    /\ canRename(wr, w)
    /\ Cardinality(onFetch) + 1 = BlockSize => last
    /\ rob' = Append(rob, [win |-> w, last |-> last, rd |-> rd, src |-> src,
                           waits |-> Elements(src), far |-> FALSE, wr |-> wr,
                           dst |-> new, stage |-> "DISPATCH"])
    /\ fRAT' = updated(fRAT, wr, new)
    /\ prev' = updatePR(wr, new)
    /\ regState' = [p \in PReg |-> IF p \in Elements(new) THEN "RENAMED_INVALID"
                                   ELSE regState[p]]
    /\ avail' = popped(new)
    /\ front' \in WriteLists
    /\ UNCHANGED <<cRAT, recovering>>

(* The comparison the code makes, on the window's number. *)
isGrfNearby(w, p) ==
    LET hi == (w + Cluster - 1) % NumSeg
        s == PR2APRindx(p)
    IN IF w <= hi THEN s \in w .. hi ELSE s \notin hi + 1 .. w - 1

(* Fault: a register is readable as soon as it is in use. *)
isPRvalid_Pending(p) == regState[p] # "AVAILABLE"

isPRvalid(p) == regState[p] \in {"ARCH_REG", "RENAMED_VALID"}

(* The operands the instruction waits for and finds readable. *)
readableNow(e) == {p \in e.waits : isPRvalid(p)}

(* The scheduler looks at a waiting instruction: operands found readable   *)
(* are not looked at again, and one in a far segment holds the instruction *)
(* back for the rest of the cycle, even if nothing else does.              *)
isReady(n) ==
    LET e == rob[n]
        waits == e.waits \ readableNow(e)
        far == e.far \/ \E p \in readableNow(e) : ~isGrfNearby(e.win, p)
    IN
    /\ ~recovering
    /\ e.stage = "DISPATCH"
    /\ rob' = [rob EXCEPT ![n].waits = waits, ![n].far = far,
                          ![n].stage = IF waits = {} /\ ~far THEN "ISSUE" ELSE @]
    /\ UNCHANGED <<regVars, recovering, front>>

(* The clock ticks: the delay of far operands is over. *)
tick ==
    /\ \E n \in 1 .. Len(rob) : rob[n].far
    /\ rob' = [n \in 1 .. Len(rob) |-> [rob[n] EXCEPT !.far = FALSE]]
    /\ UNCHANGED <<regVars, recovering, front>>

completeRegs(n) ==
    /\ ~recovering
    /\ rob[n].stage = "ISSUE"
    /\ rob' = [rob EXCEPT ![n].stage = "COMPLETE"]
    /\ regState' = [p \in PReg |-> IF p \in Elements(rob[n].dst) THEN "RENAMED_VALID"
                                   ELSE regState[p]]
    /\ UNCHANGED <<fRAT, cRAT, prev, avail, recovering, front>>

(* The instructions of the oldest block, if it was dispatched as a whole. *)
headBlock ==
    {n \in 1 .. Len(rob) : /\ \E m \in n .. Len(rob) : rob[m].last
                        /\ \A m \in 1 .. n - 1 : ~rob[m].last}

(* The registers block B is given for its destinations, and the ones they  *)
(* supersede, in the order in which its instructions commit.               *)
blockDst(B) == Flatten([n \in 1 .. Cardinality(B) |-> rob[n].dst])
superseded(B) ==
    LET dst == blockDst(B) IN [i \in 1 .. Len(dst) |-> prev[dst[i]]]

(* Fault: a superseded register goes to the segment of the block's window. *)
setAsAvailablePR_Window(B) ==
    LET s == blkIndx2APRindx(rob[1].win) IN
    [avail EXCEPT ![s] = @ \o superseded(B)]

(* Each superseded register goes back to its own segment. *)
setAsAvailablePR(B) ==
    [s \in Segment |->
       avail[s] \o Filter(superseded(B), {p \in PReg : PR2APRindx(p) = s})]

(* The committed map after block B: its last definition of a register. *)
update_cRAT(B) ==
    [a \in AReg |->
       LET defs == {n \in B : a \in Elements(rob[n].wr)}
           last == CHOOSE n \in defs : \A m \in defs : m <= n
       IN IF defs = {} THEN cRAT[a]
          ELSE rob[last].dst[IndexOf(rob[last].wr, a)]]

(* Fault: of two definitions of a register in one block the second does    *)
(* not free the first, which was never in the committed map.               *)
freed_OldOnly(B) == {p \in Elements(superseded(B)) : regState[p] = "ARCH_REG"}

freed(B) == Elements(superseded(B))

(* The oldest block retires as a whole, instruction by instruction: what   *)
(* its destinations supersede is free again, an earlier definition of the  *)
(* same block included.                                                    *)
commitBB ==
    LET B == headBlock
        given == Elements(blockDst(B))
        gone == freed(B)
    IN
    /\ ~recovering
    /\ B # {}
    /\ \A n \in B : rob[n].stage = "COMPLETE"
    /\ regState' = [p \in PReg |-> IF p \in gone THEN "AVAILABLE"
                                   ELSE IF p \in given THEN "ARCH_REG"
                                   ELSE regState[p]]
    /\ cRAT' = update_cRAT(B)
    /\ avail' = setAsAvailablePR(B)
    /\ prev' = [p \in PReg |-> IF p \in gone THEN NoPR ELSE prev[p]]
    /\ rob' = Drop(rob, Cardinality(B))
    /\ UNCHANGED <<fRAT, recovering, front>>

(* What is older than the squashed block has committed; the rest of the    *)
(* ROB goes.  The tables are restored a cycle later.                       *)
squashROB ==
    /\ ~recovering
    /\ rob # << >>
    /\ rob' = << >>
    /\ recovering' = TRUE
    /\ front' \in WriteLists
    /\ UNCHANGED regVars

refilled(arch) ==
    [s \in Segment |-> Ascending({p \in PReg \ arch : PR2APRindx(p) = s})]

(* The committed map becomes the speculative map; every other register is  *)
(* free, in its own segment.                                               *)
squashRenameReg ==
    LET arch == {cRAT[a] : a \in AReg} IN
    /\ recovering
    /\ recovering' = FALSE
    /\ fRAT' = cRAT
    /\ regState' = [p \in PReg |->
                      IF p \in arch THEN "ARCH_REG" ELSE "AVAILABLE"]
    /\ prev' = [p \in PReg |-> NoPR]
    /\ avail' = refilled(arch)
    /\ UNCHANGED <<cRAT, rob, front>>

Next ==
    \/ \E rd \in ReadLists, w \in Window, last \in BOOLEAN : renameRegs(rd, w, last)
    \/ \E n \in 1 .. Len(rob) : isReady(n)
    \/ tick
    \/ \E n \in 1 .. Len(rob) : completeRegs(n)
    \/ commitBB
    \/ squashROB
    \/ squashRenameReg

Spec == Init /\ [][Next]_vars

(* Every stage runs every cycle.  Nothing obliges instructions to arrive,  *)
(* not even the rest of a block.                                           *)
Fairness ==
    /\ \A n \in 1 .. BlockSize * (RobSize + 1) :
          WF_vars(n <= Len(rob) /\ isReady(n)) /\ WF_vars(n <= Len(rob) /\ completeRegs(n))
    /\ WF_vars(tick)
    /\ WF_vars(commitBB)
    /\ WF_vars(squashRenameReg)

FairSpec == Spec /\ Fairness

-----------------------------------------------------------------------------
(* Instruction n of the ROB writes a; it does so into register p. *)
Writes(n, a) == a \in Elements(rob[n].wr)
WritesTo(n, a, p) == \E i \in 1 .. Len(rob[n].wr) : rob[n].wr[i] = a /\ rob[n].dst[i] = p

(* p holds what a names just before ROB position m. *)
MapsTo(m, a, p) ==
    \/ \E n \in 1 .. m - 1 :
          WritesTo(n, a, p) /\ \A o \in n + 1 .. m - 1 : ~Writes(o, a)
    \/ (\A o \in 1 .. m - 1 : ~Writes(o, a)) /\ cRAT[a] = p

(* A free list holds the available registers of its segment, each once:    *)
(* far allocation, block commit and recovery put every register back where *)
(* it belongs (setAsAvailablePR, PR2APRindx).                              *)
FreeListsExact ==
    /\ TypeOK
    /\ \A s \in Segment :
         /\ Distinct(avail[s])
         /\ Elements(avail[s]) =
            {p \in PReg : PR2APRindx(p) = s /\ regState[p] = "AVAILABLE"}

(* The committed map is one-to-one onto the registers in ARCH_REG state,   *)
(* also when a block has defined a register more than once (commitBB).     *)
CommittedMapExact ==
    /\ \A a, b \in AReg : cRAT[a] = cRAT[b] => a = b
    /\ {p \in PReg : regState[p] = "ARCH_REG"} = {cRAT[a] : a \in AReg}

(* The sources of every in-flight instruction name its true producers, and *)
(* the speculative map the youngest definitions, whatever blocks commit.   *)
TrueProducers ==
    /\ \A n \in 1 .. Len(rob) : \A i \in 1 .. Len(rob[n].src) :
          MapsTo(n, rob[n].rd[i], rob[n].src[i])
    /\ ~recovering => \A a \in AReg : MapsTo(Len(rob) + 1, a, fRAT[a])

(* What a waiting instruction has dropped from its wait list is readable   *)
(* until it issues: isReady removes operands for good.                     *)
DroppedStayReadable ==
    \A n \in 1 .. Len(rob) :
       (rob[n].stage = "DISPATCH" /\ ~recovering) =>
          \A p \in Elements(rob[n].src) \ rob[n].waits :
             regState[p] \in {"ARCH_REG", "RENAMED_VALID"}

(* A stalled rename gets its registers: the oldest block retires even when *)
(* the youngest, half dispatched, holds what it can (canRename).           *)
RenameNeverStarves ==
    []<>(\E w \in windowsFor : canRename(front, w))
=============================================================================
