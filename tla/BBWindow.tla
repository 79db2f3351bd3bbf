------------------------------ MODULE BBWindow ------------------------------
(***************************************************************************)
(* The block windows of the CG-OoO core (bb_scheduler, bbWindow) with the  *)
(* local register file of each window (bb_lrfManager, registerFile).       *)
(*                                                                         *)
(* A basic block is dispatched into a window of its own.  Every cycle the  *)
(* windows are scanned in block order; within a window the head issues     *)
(* first, and with run-ahead issue a few of the instructions behind a      *)
(* stalled one are tried too.  Local registers are not renamed: a window's *)
(* registers are handed from instruction to instruction by the order of    *)
(* issue, kept by a busy state per register and by the sets of registers   *)
(* that the stalled instructions read and write.                           *)
(*                                                                         *)
(* An instruction is its place in the fetched program.  Execution and      *)
(* memory are the time that passes between issue and completion; operand   *)
(* forwarding and wire counts are left out.                                *)
(***************************************************************************)
EXTENDS Naturals, Sequences, FiniteSets, FiniteSetsExt, SequencesExt, Queues

CONSTANTS
    Programs,           \* the programs: sequences of decoded instructions
    Regs,               \* the local registers of a window
    NumWin,             \* _num_bbWin
    WinSize,            \* entries of a window
    RobSize,            \* blocks in bbROB
    StageWidth,         \* issue slots of a cycle
    InFlight,           \* instructions the execution ports and units hold
    RunaheadModes,      \* the values of _runahead_issue_en to try
    RunaheadCnt,        \* runahead_issue_cnt, not above a window's read wires
    MaxSquash           \* bound: recoveries in a behaviour

(* Two windows at least: the one on fetch is not freed before the next     *)
(* block has one.                                                          *)
ASSUME BBWindowAssumption ==
    /\ {WinSize, RobSize, StageWidth, InFlight, RunaheadCnt} \subseteq Nat \ {0}
    /\ NumWin \in Nat \ {0, 1}
    /\ RunaheadModes \subseteq BOOLEAN
    /\ MaxSquash \in Nat

(* A block is fetched as a whole: its instructions follow each other.      *)
Instruction == [bb : Nat, op : {"ALU", "LOAD", "STORE"}, rd : Seq(Regs),
                wr : SUBSET Regs, needs : SUBSET Nat]

ASSUME ProgramsAssumption ==
    \A p \in Programs :
      /\ p \in Seq(Instruction)
      /\ \A i, j \in 1 .. Len(p) : i <= j => p[i].bb <= p[j].bb
      /\ \A i \in 1 .. Len(p) : p[i].needs \subseteq 1 .. Len(p)

VARIABLES
    program,
    runaheadEn,         \* _runahead_issue_en
    nextIns,            \* front of the port from decode
    stage,              \* where each instruction is
    bbWinID,            \* _bbWin_id of an instruction, NoWin before dispatch
    waitList,           \* local operands it still waits for (_l_rdReg_waitList)
    permit,             \* _runahead_permit of each block
    bbROB,              \* blocks in flight
    win,                \* _win of each window
    availWin, busyWin,  \* _avail_bbWin, _busy_bbWin
    onFetch,            \* _bbWin_on_fetch, or NoWin
    issueIndx, numIssues,
    stallRd, stallWr,   \* _stallRdRegSet, _stallWrRegSet
    stallNow,           \* _stall_cycle is the current cycle
    stBypassed,         \* _st_bypassed
    bypassNow,          \* _bypass_cycle is the current cycle
    regState,           \* _reg_state of each window's local registers
    axesed,             \* _axesedBefore
    turn,               \* the step of the cycle that comes next
    slot,               \* issue slots used in this cycle
    toScan,             \* windows still to look at for this slot
    scanned,            \* the window being looked at, or NoWin
    squashSN,           \* the recovery under way, 0 when there is none
    squashes            \* recoveries so far

progVars  == <<program, runaheadEn, nextIns, stage, bbWinID, permit, bbROB>>
winVars   == <<win, availWin, busyWin, onFetch>>
countVars == <<issueIndx, numIssues>>
stallVars == <<stallRd, stallWr, stallNow, stBypassed, bypassNow>>
regVars   == <<waitList, regState, axesed>>
scanVars  == <<slot, toScan, scanned>>
squashVars == <<squashSN, squashes>>
vars == <<progVars, winVars, countVars, stallVars, regVars, turn, scanVars,
          squashVars>>

NoWin == 0
Wins == 1 .. NumWin
Ids == 1 .. Len(program)
Blocks == {program[i].bb : i \in Ids}

BB(i) == program[i].bb
Rd(i) == program[i].rd              \* local operands, in order
Wr(i) == program[i].wr              \* local results
Needs(i) == program[i].needs        \* producers of its global operands
IsLoad(i) == program[i].op = "LOAD"
IsStore(i) == program[i].op = "STORE"

HeadID(b) == Min({i \in Ids : BB(i) = b})
BlockIns(b) == {i \in Ids : BB(i) = b}

Cnt == IF runaheadEn THEN RunaheadCnt ELSE 1

TypeOK ==
    /\ program \in Programs /\ runaheadEn \in RunaheadModes
    /\ nextIns \in 1 .. Len(program) + 1
    /\ stage \in [Ids -> {"DECODE", "DISPATCH", "ISSUE", "COMPLETE"}]
    /\ bbWinID \in [Ids -> Wins \cup {NoWin}]
    /\ waitList \in [Ids -> Seq(Regs)]
    /\ permit \in [Blocks -> BOOLEAN]
    /\ bbROB \in Seq(Blocks) /\ Len(bbROB) <= RobSize
    /\ win \in [Wins -> Seq(Ids)] /\ \A w \in Wins : Len(win[w]) <= WinSize
    /\ availWin \in Seq(Wins) /\ busyWin \subseteq Wins
    /\ onFetch \in Wins \cup {NoWin}
    /\ {issueIndx, numIssues} \subseteq [Wins -> Nat]
    /\ {stallRd, stallWr} \subseteq [Wins -> SUBSET Regs]
    /\ {stallNow, stBypassed, bypassNow} \subseteq [Wins -> BOOLEAN]
    /\ regState \in [Wins -> [Regs -> {"NO_VAL", "WAIT_ON_WRITE", "DONE_WRITE"}]]
    /\ axesed \in [Wins -> [Regs -> BOOLEAN]]
    /\ turn \in {"COMMIT", "EXECUTE", "DISPATCH", "ISSUE", "SCAN", "READINESS"}
    /\ slot \in 0 .. StageWidth
    /\ toScan \subseteq Wins /\ scanned \in Wins \cup {NoWin}
    /\ squashSN \in Ids \cup {0} /\ squashes \in 0 .. MaxSquash

Init ==
    /\ program \in Programs /\ runaheadEn \in RunaheadModes
    /\ nextIns = 1
    /\ stage = [i \in Ids |-> "DECODE"]
    /\ bbWinID = [i \in Ids |-> NoWin]
    /\ waitList = [i \in Ids |-> Rd(i)]
    /\ permit = [b \in Blocks |-> TRUE]
    /\ bbROB = << >>
    /\ win = [w \in Wins |-> << >>]
    /\ availWin = [n \in 1 .. NumWin |-> n] /\ busyWin = {} /\ onFetch = NoWin
    /\ issueIndx = [w \in Wins |-> 0] /\ numIssues = issueIndx
    /\ stallRd = [w \in Wins |-> {}] /\ stallWr = stallRd
    /\ stBypassed = [w \in Wins |-> FALSE]
    /\ stallNow = stBypassed /\ bypassNow = stBypassed
    /\ regState = [w \in Wins |-> [r \in Regs |-> "NO_VAL"]]
    /\ axesed = [w \in Wins |-> [r \in Regs |-> FALSE]]
    /\ turn = "COMMIT"
    /\ slot = 0 /\ toScan = {} /\ scanned = NoWin
    /\ squashSN = 0 /\ squashes = 0

-----------------------------------------------------------------------------
(* Commit and completion. *)

(* A block leaves bbROB once all its instructions are complete. *)
isBBcomplete(b) == \A i \in BlockIns(b) : stage[i] = "COMPLETE"
frontComplete == bbROB # << >> /\ isBBcomplete(Head(bbROB))

commitBB ==
    /\ turn = "COMMIT"
    /\ frontComplete
    /\ bbROB' = Tail(bbROB)
    /\ UNCHANGED <<program, runaheadEn, nextIns, stage, bbWinID, permit,
                   winVars, countVars, stallVars, regVars, turn, scanVars,
                   squashVars>>

endCommit ==
    /\ turn = "COMMIT"
    /\ ~frontComplete
    /\ turn' = "EXECUTE"
    /\ UNCHANGED <<progVars, winVars, countVars, stallVars, regVars,
                   scanVars, squashVars>>

inFlight == {i \in Ids : stage[i] = "ISSUE"}

(* Fault: the results are not written to the local register file. *)
writeToRF_None(S) == regState

(* The local results of S are written: the registers can be read again. *)
writeToRF(S) ==
    [w \in Wins |-> [r \in Regs |->
        IF \E i \in S : bbWinID[i] = w /\ r \in Wr(i) THEN "DONE_WRITE"
        ELSE regState[w][r]]]

(* Execution and memory: any of the issued instructions complete. *)
completeIns ==
    /\ turn = "EXECUTE"
    /\ turn' = "DISPATCH"
    /\ \E S \in SUBSET inFlight :
         /\ stage' = [i \in Ids |-> IF i \in S THEN "COMPLETE" ELSE stage[i]]
         /\ regState' = writeToRF(S)
    /\ UNCHANGED <<program, runaheadEn, nextIns, bbWinID, permit, bbROB,
                   winVars, countVars, stallVars, waitList, axesed,
                   scanVars, squashVars>>

-----------------------------------------------------------------------------
(* Recovery from a memory mis-speculation found in a block of bbROB: the   *)
(* windows and units are flushed from the block's head on, the older       *)
(* blocks drain, and the squashed blocks are fetched again.                *)

(* Fault: the window on fetch keeps its place although it is empty. *)
squash_KeepsFetch ==
    /\ turn = "EXECUTE" /\ squashSN = 0 /\ squashes < MaxSquash
    /\ \E b \in Elements(bbROB) :
         LET sn == HeadID(b)
             left == [w \in Wins |-> Filter(win[w], {i \in Ids : i < sn})]
             freed == {w \in busyWin : left[w] = << >>}
         IN  /\ permit[b]
             /\ \E i \in BlockIns(b) : stage[i] \in {"ISSUE", "COMPLETE"}
             /\ win' = left
             /\ availWin' = availWin \o Ascending(freed)
             /\ busyWin' = busyWin \ freed
             /\ onFetch' = onFetch
             /\ stage' = [i \in Ids |-> IF i >= sn THEN "DECODE" ELSE stage[i]]
             /\ squashSN' = sn /\ squashes' = squashes + 1
    /\ UNCHANGED <<program, runaheadEn, nextIns, bbWinID, permit, bbROB,
                   countVars, stallVars, regVars, turn, scanVars>>

(* PIPE_FLUSH: the window on fetch is flushed first, then the busy ones.   *)
(* The code asserts that a block is not squashed twice for its own loads   *)
(* (revokeRunaheadPermit).                                                 *)
squash ==
    /\ turn = "EXECUTE" /\ squashSN = 0 /\ squashes < MaxSquash
    /\ \E b \in Elements(bbROB) :
         LET sn == HeadID(b)
             left == [w \in Wins |-> Filter(win[w], {i \in Ids : i < sn})]
             freed == {w \in busyWin : left[w] = << >>}
             first == IF onFetch \in freed THEN <<onFetch>> ELSE << >>
         IN  /\ permit[b]
             /\ \E i \in BlockIns(b) : stage[i] \in {"ISSUE", "COMPLETE"}
             /\ win' = left
             /\ availWin' = availWin \o first \o Ascending(freed \ {onFetch})
             /\ busyWin' = busyWin \ freed
             /\ onFetch' = IF onFetch \in freed THEN NoWin ELSE onFetch
             /\ stage' = [i \in Ids |-> IF i >= sn THEN "DECODE" ELSE stage[i]]
             /\ squashSN' = sn /\ squashes' = squashes + 1
    /\ UNCHANGED <<program, runaheadEn, nextIns, bbWinID, permit, bbROB,
                   countVars, stallVars, regVars, turn, scanVars>>

(* Fault: the registers of squashed writers stay busy. *)
resetRF_StaysBusy ==
    /\ regState' = regState
    /\ axesed' = [w \in Wins |-> [r \in Regs |-> FALSE]]

(* Registers with a pending write lose their value, in every window. *)
resetRF ==
    /\ regState' = [w \in Wins |-> [r \in Regs |->
                      IF regState[w][r] = "WAIT_ON_WRITE" THEN "NO_VAL"
                      ELSE regState[w][r]]]
    /\ axesed' = [w \in Wins |-> [r \in Regs |-> FALSE]]

(* PIPE_SQUASH_ROB: bbROB is emptied, the blocks' states are reset, the    *)
(* oldest may not run ahead when it comes again, and the register files    *)
(* are reset.                                                              *)
squashROB ==
    /\ turn = "EXECUTE" /\ squashSN # 0
    /\ bbROB # << >> => HeadID(Head(bbROB)) >= squashSN
    /\ bbROB' = << >>
    /\ nextIns' = squashSN
    /\ waitList' = [i \in Ids |-> IF i >= squashSN THEN Rd(i) ELSE waitList[i]]
    /\ permit' = [permit EXCEPT ![BB(squashSN)] = FALSE]
    /\ resetRF
    /\ squashSN' = 0
    /\ UNCHANGED <<program, runaheadEn, stage, bbWinID, winVars, countVars,
                   stallVars, turn, scanVars, squashes>>

-----------------------------------------------------------------------------
(* Dispatch: updatebbWindows. *)

detectNewBB(i) == bbROB # << >> => BB(i) > Last(bbROB)

canDispatch ==
    /\ turn = "DISPATCH" /\ slot < StageWidth
    /\ nextIns <= Len(program) /\ squashSN = 0

(* The first instruction of a block takes a place in bbROB and a window;   *)
(* the checks after that may still hold the instruction itself back.       *)
getAnAvailBBWin ==
    /\ canDispatch /\ detectNewBB(nextIns)
    /\ availWin # << >> /\ Len(bbROB) < RobSize
    /\ bbROB' = Append(bbROB, BB(nextIns))
    /\ onFetch' = Head(availWin)
    /\ availWin' = Tail(availWin)
    /\ busyWin' = busyWin \cup {Head(availWin)}
    /\ UNCHANGED <<program, runaheadEn, nextIns, stage, bbWinID, permit,
                   win, countVars, stallVars, regVars, turn, scanVars,
                   squashVars>>

writeBBWin ==
    /\ canDispatch /\ ~detectNewBB(nextIns)
    /\ onFetch # NoWin /\ Len(win[onFetch]) < WinSize
    /\ win' = [win EXCEPT ![onFetch] = Append(@, nextIns)]
    /\ bbWinID' = [bbWinID EXCEPT ![nextIns] = onFetch]
    /\ stage' = [stage EXCEPT ![nextIns] = "DISPATCH"]
    /\ nextIns' = nextIns + 1
    /\ slot' = slot + 1
    /\ UNCHANGED <<program, runaheadEn, permit, bbROB, availWin, busyWin,
                   onFetch, countVars, stallVars, regVars, turn, toScan,
                   scanned, squashVars>>

(* Nothing more from decode, or no wire, load/store queue entry or rename  *)
(* register for the next instruction.                                      *)
endDispatch ==
    /\ turn = "DISPATCH"
    /\ turn' = "ISSUE" /\ slot' = 0
    /\ UNCHANGED <<progVars, winVars, countVars, stallVars, regVars,
                   toScan, scanned, squashVars>>

-----------------------------------------------------------------------------
(* Issue: hasReadyInsInBBWins, once for each slot. *)

(* Fault: windows are never freed. *)
manageBusyBBWin_Never == UNCHANGED <<availWin, busyWin>>

(* Windows that have run empty are freed, but for the one on fetch. *)
manageBusyBBWin ==
    LET freed == {w \in busyWin : win[w] = << >>} \ {onFetch}
    IN  /\ availWin' = availWin \o Ascending(freed)
        /\ busyWin' = busyWin \ freed

beginSlot ==
    /\ turn = "ISSUE" /\ slot < StageWidth
    /\ manageBusyBBWin
    /\ toScan' = {w \in busyWin : win[w] # << >>}
    /\ turn' = "SCAN"
    /\ UNCHANGED <<progVars, win, onFetch, countVars, stallVars, regVars,
                   slot, scanned, squashVars>>

mayIssueFrom(w) ==
    /\ numIssues[w] + issueIndx[w] < Cnt
    /\ Cardinality(inFlight) < InFlight

(* The windows are looked at in the order of their blocks. *)
nextWindow ==
    /\ turn = "SCAN" /\ scanned = NoWin /\ toScan # {}
    /\ \E w \in toScan :
         /\ \A v \in toScan : BB(Head(win[w])) <= BB(Head(win[v]))
         /\ toScan' = toScan \ {w}
         /\ scanned' = IF mayIssueFrom(w) THEN w ELSE NoWin
    /\ UNCHANGED <<progVars, winVars, countVars, stallVars, regVars, turn,
                   slot, squashVars>>

endIssue ==
    /\ \/ turn = "ISSUE" /\ slot = StageWidth
       \/ turn = "SCAN" /\ scanned = NoWin /\ toScan = {}
    /\ turn' = "READINESS" /\ slot' = 0
    /\ UNCHANGED <<progVars, winVars, countVars, stallVars, regVars,
                   toScan, scanned, squashVars>>

(* The instruction of the window that the scan has come to. *)
inReach(w) == issueIndx[w] < Cnt /\ issueIndx[w] < Len(win[w])
examined == win[scanned][issueIndx[scanned] + 1]

leaveWindow ==
    /\ turn = "SCAN" /\ scanned # NoWin /\ ~inReach(scanned)
    /\ scanned' = NoWin
    /\ UNCHANGED <<progVars, winVars, countVars, stallVars, regVars, turn,
                   slot, toScan, squashVars>>

(* Local operands are dropped from the wait list from its end, up to one   *)
(* whose register is busy.                                                 *)
busy(w, r) == regState[w][r] = "WAIT_ON_WRITE"
lastBusy(i, w) ==
    Max({0} \cup {n \in 1 .. Len(waitList[i]) : busy(w, waitList[i][n])})
stillWaits(i, w) == SubSeq(waitList[i], 1, lastBusy(i, w))
lookedAt(i, w) ==
    {waitList[i][n] : n \in Max({1, lastBusy(i, w)}) .. Len(waitList[i])}

(* isReady of every instruction in S, each in its window: what is waited   *)
(* for, and the registers it touches.                                      *)
checkOperands(S) ==
    LET touched(w, r) == \E i \in S : bbWinID[i] = w /\ r \in lookedAt(i, w)
    IN  /\ waitList' = [i \in Ids |->
                          IF i \in S THEN stillWaits(i, bbWinID[i])
                          ELSE waitList[i]]
        /\ axesed' = [w \in Wins |-> [r \in Regs |->
                        axesed[w][r] \/ touched(w, r)]]

(* A register without a value counts as written the first time it is read. *)
firstRead(S) ==
    [w \in Wins |-> [r \in Regs |->
        IF /\ \E i \in S : bbWinID[i] = w /\ r \in lookedAt(i, w)
           /\ regState[w][r] = "NO_VAL" /\ ~axesed[w][r]
        THEN "DONE_WRITE" ELSE regState[w][r]]]

globalReady(i) == \A j \in Needs(i) : stage[j] = "COMPLETE"
isReady(i, w) == lastBusy(i, w) = 0 /\ globalReady(i)

canReserveRF(i, w) == \A r \in Wr(i) : ~busy(w, r)

(* Fault: issuing does not mark the local results as pending. *)
reserveRF_None(i, w, table) == table

(* The registers it writes wait for it from now on. *)
reserveRF(i, w, table) ==
    [table EXCEPT ![w] = [r \in Regs |->
        IF r \in Wr(i) THEN "WAIT_ON_WRITE" ELSE @[r]]]

runaheadPermit(i) == runaheadEn /\ permit[BB(i)]

(* isStoreBypassed: asked of loads only, and reset when first asked. *)
heldByStore(i, w) == IsLoad(i) /\ bypassNow[w] /\ stBypassed[w]

(* conflictStallRdWrReg: asked when all else is ready; the sets of an      *)
(* earlier cycle are cleared at the first question, not at the first       *)
(* record.                                                                 *)
asksConflict(i, w) ==
    /\ ~heldByStore(i, w) /\ isReady(i, w) /\ canReserveRF(i, w)
conflict(i, w) ==
    /\ stallNow[w]
    /\ \/ Wr(i) \cap stallRd[w] # {}
       \/ Elements(stillWaits(i, w)) \cap stallWr[w] # {}

mayIssue(i, w) == asksConflict(i, w) /\ ~conflict(i, w)

(* What the questions about i leave in the window's per-cycle flags. *)
askedBypass(i, w) ==
    /\ bypassNow' = [bypassNow EXCEPT ![w] = @ \/ IsLoad(i)]
    /\ stBypassed' = [stBypassed EXCEPT ![w] =
                        \/ IsStore(i)
                        \/ @ /\ (bypassNow[w] \/ ~IsLoad(i))]

cleared(i, w) == asksConflict(i, w) /\ ~stallNow[w]

(* A stalled instruction is passed over when the block may run ahead; its  *)
(* registers are recorded for the ones behind it.                          *)
passOver ==
    /\ turn = "SCAN" /\ scanned # NoWin /\ inReach(scanned)
    /\ LET i == examined  w == scanned  IN
         /\ ~mayIssue(i, w) /\ runaheadPermit(i)
         /\ askedBypass(i, w)
         /\ checkOperands({i}) /\ regState' = firstRead({i})
         /\ stallNow' = [stallNow EXCEPT ![w] = @ \/ asksConflict(i, w)]
         /\ stallRd' = [stallRd EXCEPT ![w] = @ \cup Elements(stillWaits(i, w))]
         /\ stallWr' = [stallWr EXCEPT ![w] = @ \cup Wr(i)]
         /\ issueIndx' = [issueIndx EXCEPT ![w] = @ + 1]
    /\ UNCHANGED <<progVars, winVars, numIssues, turn, scanVars,
                   squashVars>>

(* Without the permit the window is left for this slot. *)
stall ==
    /\ turn = "SCAN" /\ scanned # NoWin /\ inReach(scanned)
    /\ LET i == examined  w == scanned  IN
         /\ ~mayIssue(i, w) /\ ~runaheadPermit(i)
         /\ askedBypass(i, w)
         /\ checkOperands({i}) /\ regState' = firstRead({i})
         /\ stallNow' = [stallNow EXCEPT ![w] = @ \/ asksConflict(i, w)]
    /\ scanned' = NoWin
    /\ UNCHANGED <<progVars, winVars, countVars, stallRd, stallWr, turn,
                   slot, toScan, squashVars>>

issue ==
    /\ turn = "SCAN" /\ scanned # NoWin /\ inReach(scanned)
    /\ LET i == examined  w == scanned  IN
         /\ mayIssue(i, w)
         /\ askedBypass(i, w)
         /\ checkOperands({i}) /\ regState' = reserveRF(i, w, firstRead({i}))
         /\ stallNow' = [stallNow EXCEPT ![w] = TRUE]
         /\ stallRd' = [stallRd EXCEPT ![w] = IF cleared(i, w) THEN {} ELSE @]
         /\ stallWr' = [stallWr EXCEPT ![w] = IF cleared(i, w) THEN {} ELSE @]
         /\ numIssues' = [numIssues EXCEPT ![w] = @ + 1]
         /\ win' = [win EXCEPT ![w] = Filter(@, Ids \ {i})]
         /\ stage' = [stage EXCEPT ![i] = "ISSUE"]
    /\ slot' = slot + 1 /\ turn' = "ISSUE"
    /\ scanned' = NoWin /\ toScan' = {}
    /\ UNCHANGED <<program, runaheadEn, nextIns, bbWinID, permit, bbROB,
                   availWin, busyWin, onFetch, issueIndx, squashVars>>

(* The end of the cycle: the operands of all that could have been tried    *)
(* are looked at again; the next cycle starts with fresh counts.           *)
updateReadinessForAll ==
    /\ turn = "READINESS"
    /\ LET tried(w) == IF numIssues[w] + issueIndx[w] < Cnt
                       THEN {win[w][n] : n \in issueIndx[w] + 1 ..
                                               Min({Cnt, Len(win[w])})}
                       ELSE {}
           all == UNION {tried(w) : w \in busyWin}
       IN  checkOperands(all) /\ regState' = firstRead(all)
    /\ issueIndx' = [w \in Wins |-> 0] /\ numIssues' = [w \in Wins |-> 0]
    /\ stallNow' = [w \in Wins |-> FALSE] /\ bypassNow' = [w \in Wins |-> FALSE]
    /\ turn' = "COMMIT"
    /\ UNCHANGED <<progVars, winVars, stallRd, stallWr, stBypassed,
                   scanVars, squashVars>>

-----------------------------------------------------------------------------
Next ==
    \/ commitBB \/ endCommit
    \/ completeIns \/ squash \/ squashROB
    \/ getAnAvailBBWin \/ writeBBWin \/ endDispatch
    \/ beginSlot \/ nextWindow \/ leaveWindow \/ passOver \/ stall \/ issue
    \/ endIssue \/ updateReadinessForAll

Spec == Init /\ [][Next]_vars

(* The clock keeps ticking, and what can move does: latencies are finite.  *)
Progress == Next /\ <<nextIns, bbROB, stage>>' # <<nextIns, bbROB, stage>>
FairSpec == Spec /\ WF_vars(Next) /\ SF_vars(Progress)

-----------------------------------------------------------------------------
Started(i) == stage[i] \in {"ISSUE", "COMPLETE"}
SameBlock(i, j) == BB(i) = BB(j)

(* An instruction issues only after every earlier writer of a local        *)
(* register it reads has written it (isReady, conflictStallRdWrReg).       *)
LocalReadsFollowWrites ==
    \A i, j \in Ids :
        /\ j < i /\ SameBlock(i, j) /\ Started(i)
        /\ Elements(Rd(i)) \cap Wr(j) # {}
        => stage[j] = "COMPLETE"

(* Two writers of one local register follow each other in program order.   *)
LocalWritesInOrder ==
    \A i, j \in Ids :
        /\ j < i /\ SameBlock(i, j) /\ Started(i) /\ Wr(i) \cap Wr(j) # {}
        => stage[j] = "COMPLETE"

(* A local operand that is no longer waited for has been written: dropping *)
(* it from the wait list for good (LRF isReady, also at the end of every   *)
(* cycle) has not caught the register's value from before the block.       *)
DroppedOperandsAreWritten ==
    \A i, j \in Ids :
        /\ j < i /\ SameBlock(i, j) /\ stage[i] = "DISPATCH"
        /\ (Elements(Rd(i)) \ Elements(waitList[i])) \cap Wr(j) # {}
        => stage[j] = "COMPLETE"

(* Without run-ahead issue the busy states of the local registers alone   *)
(* carry a block's values from writer to reader and from writer to writer, *)
(* windows being reused with writes pending and across recoveries          *)
(* (canReserveRF, reserveRF, writeToRF).                                   *)
LocalValuesHandedOver ==
    ~runaheadEn => /\ LocalReadsFollowWrites
                   /\ LocalWritesInOrder
                   /\ DroppedOperandsAreWritten

(* A local register is busy exactly while one issued instruction is to     *)
(* write it, also when a window passes from block to block with writes     *)
(* pending, and after a recovery (the assertions of reserveReg and         *)
(* updateReg).                                                             *)
BusyRegistersExact ==
    squashSN = 0 =>
        \A w \in Wins, r \in Regs :
            Cardinality({i \in inFlight : bbWinID[i] = w /\ r \in Wr(i)})
                = IF busy(w, r) THEN 1 ELSE 0

(* Every window is available or busy, never both; an available one is      *)
(* empty and the one on fetch is busy, through dispatch, scan and flush.   *)
WindowsPartitioned ==
    /\ Elements(availWin) \cap busyWin = {}
    /\ Elements(availWin) \cup busyWin = Wins
    /\ Len(availWin) = Cardinality(Elements(availWin))
    /\ \A w \in Elements(availWin) : win[w] = << >>
    /\ onFetch # NoWin => onFetch \in busyWin

(* A window holds instructions of one block, in program order, and no two  *)
(* windows share a block: the scan orders the windows by the block of      *)
(* their heads and would lose one of two.                                  *)
OneBlockPerWindow ==
    /\ \A w \in Wins : \A m, n \in 1 .. Len(win[w]) :
         /\ BB(win[w][m]) = BB(win[w][n])
         /\ m < n => win[w][m] < win[w][n]
    /\ \A v, w \in Wins :
         v # w /\ win[v] # << >> /\ win[w] # << >>
         => BB(Head(win[v])) # BB(Head(win[w]))

(* An instruction of a block already in bbROB finds the block's window on  *)
(* fetch (the assertion of updatebbWindows), also after a recovery.        *)
BlockOnFetchHasWindow ==
    turn = "DISPATCH" /\ nextIns <= Len(program) /\ squashSN = 0
        /\ ~detectNewBB(nextIns)
    => onFetch # NoWin

(* The windows are consistent in these three ways, and nothing holds more  *)
(* than it has room for, at every moment of dispatch, scan, flush and      *)
(* recovery (updatebbWindows, manageBusyBBWin, bb_scheduler::squash).      *)
WindowsConsistent ==
    /\ TypeOK
    /\ WindowsPartitioned /\ OneBlockPerWindow /\ BlockOnFetchHasWindow

(* Every block is dispatched, issued and committed in the end: windows and *)
(* registers that are taken come back.                                     *)
EveryBlockRetires == <>[](nextIns > Len(program) /\ bbROB = << >>)

=============================================================================
