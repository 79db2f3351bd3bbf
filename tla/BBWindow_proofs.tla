--------------------------- MODULE BBWindow_proofs ---------------------------
(***************************************************************************)
(* Proofs about the block windows of the CG-OoO core, for every set of     *)
(* programs, every number and size of windows and every number of          *)
(* recoveries: windows are never lost or shared, a local register is busy  *)
(* exactly while one issued instruction is to write it, and without        *)
(* run-ahead issue that alone hands local values from writer to reader.    *)
(*                                                                         *)
(* The invariant relates where an instruction is (stage, bbWinID) to the   *)
(* windows, to bbROB and to the window on fetch.  A flush takes the        *)
(* instructions from squashSN on out of the pipe while nextIns is still    *)
(* where fetch stopped, so most parts speak of Limit, the first            *)
(* instruction that is not in the pipe.                                    *)
(***************************************************************************)
EXTENDS BBWindow, Queues_proofs

(* The first instruction that is still to be dispatched. *)
Limit == IF squashSN = 0 THEN nextIns ELSE squashSN

(* The instructions below the limit are in the pipe or through it; during  *)
(* a recovery the limit is where a block begins.                           *)
Dispatched ==
    /\ \A i \in Ids : stage[i] = "DECODE" <=> Limit <= i
    /\ \A i \in Ids : stage[i] # "DECODE" => bbWinID[i] \in Wins
    /\ squashSN # 0 => \A i \in Ids : i < squashSN => BB(i) # BB(squashSN)
    /\ squashSN = 0 => \A i \in Ids : nextIns <= i => waitList[i] = Rd(i)

(* A window holds the instructions dispatched into it and not issued, in   *)
(* order; those of one block are all in one window.                        *)
WindowContents ==
    /\ \A w \in Wins : Increasing(win[w])
    /\ \A w \in Wins, i \in Ids :
         i \in Elements(win[w]) <=> stage[i] = "DISPATCH" /\ bbWinID[i] = w
    /\ \A i, j \in Ids :
         stage[i] # "DECODE" /\ stage[j] # "DECODE" /\ BB(i) = BB(j)
           => bbWinID[i] = bbWinID[j]
    /\ \A w \in Wins : \A i, j \in Elements(win[w]) : BB(i) = BB(j)

(* bbROB is in order and has the block of every instruction that is not    *)
(* complete.                                                               *)
BlocksInFlight ==
    /\ Increasing(bbROB)
    /\ \A i \in Ids : stage[i] \in {"DISPATCH", "ISSUE"} => BB(i) \in Elements(bbROB)

(* The window on fetch is that of the youngest block in bbROB, and a block *)
(* dispatched in part is the youngest.                                     *)
OnFetch ==
    squashSN = 0 =>
      /\ bbROB # << >> =>
           /\ onFetch # NoWin
           /\ \A i \in Ids : stage[i] # "DECODE" /\ BB(i) = Last(bbROB)
                               => bbWinID[i] = onFetch
           /\ \A i \in Elements(win[onFetch]) : BB(i) = Last(bbROB)
      /\ \A b \in Elements(bbROB), i \in Ids : nextIns <= i => b <= BB(i)
      /\ \A i \in Ids : nextIns \in Ids /\ i < nextIns /\ BB(i) = BB(nextIns)
           => bbROB # << >> /\ Last(bbROB) = BB(nextIns)

(* Windows are available once, or busy. *)
WindowLists ==
    /\ Distinct(availWin)
    /\ Elements(availWin) \cap busyWin = {}
    /\ Elements(availWin) \cup busyWin = Wins
    /\ \A w \in Elements(availWin) : win[w] = << >>
    /\ onFetch # NoWin => onFetch \in busyWin

(* An issued instruction holds its local results alone; only a recovery    *)
(* leaves registers busy that nobody will write.                           *)
PendingWrites ==
    /\ \A i \in inFlight : \A r \in Wr(i) : busy(bbWinID[i], r)
    /\ \A i, j \in inFlight :
         i # j /\ bbWinID[i] = bbWinID[j] => Wr(i) \cap Wr(j) = {}
    /\ squashSN = 0 =>
         \A w \in Wins, r \in Regs :
           busy(w, r) => \E i \in inFlight : bbWinID[i] = w /\ r \in Wr(i)

(* The scan: there is a slot to fill, and without run-ahead issue only the *)
(* head of a window is looked at.                                          *)
ScanKnown ==
    /\ turn = "SCAN" => slot < StageWidth
    /\ ~runaheadEn => \A w \in Wins : issueIndx[w] = 0

(* The inductive invariant. *)
IInv ==
    /\ TypeOK
    /\ Dispatched /\ WindowContents /\ BlocksInFlight /\ OnFetch
    /\ WindowLists /\ PendingWrites /\ ScanKnown
    /\ LocalValuesHandedOver

-----------------------------------------------------------------------------
(* What the constants say of a program. *)
LEMMA ProgramFacts ==
    ASSUME TypeOK
    PROVE  /\ Len(program) \in Nat /\ Ids \subseteq Nat /\ Blocks \subseteq Nat
           /\ \A i \in Ids : /\ BB(i) \in Nat /\ BB(i) \in Blocks
                             /\ Rd(i) \in Seq(Regs) /\ Wr(i) \in SUBSET Regs
           /\ \A i, j \in Ids : i <= j => BB(i) <= BB(j)
<1>1. /\ program \in Seq(Instruction)
      /\ \A i, j \in 1 .. Len(program) : i <= j => program[i].bb <= program[j].bb
  BY ProgramsAssumption DEF TypeOK
<1>2. Len(program) \in Nat /\ \A i \in Ids : program[i] \in Instruction
  BY <1>1 DEF Ids
<1>3. \A i \in Ids : /\ BB(i) \in Nat
                     /\ Rd(i) \in Seq(Regs) /\ Wr(i) \in SUBSET Regs
  BY <1>2 DEF Instruction, BB, Rd, Wr
<1>4. \A i, j \in Ids : i <= j => BB(i) <= BB(j)
  BY <1>1 DEF Ids, BB
<1>5. Blocks = {BB(i) : i \in Ids}
  BY DEF Blocks, BB
<1> QED
  BY <1>2, <1>3, <1>4, <1>5 DEF Ids

(* The program does not change, and nothing that is read off it does. *)
LEMMA SameProgram ==
    ASSUME program' = program
    PROVE  /\ Ids' = Ids /\ Blocks' = Blocks
           /\ \A i : BB(i)' = BB(i) /\ Rd(i)' = Rd(i) /\ Wr(i)' = Wr(i)
BY DEF Ids, Blocks, BB, Rd, Wr

(* The first instruction of a block: those from it on are of the block or  *)
(* of later ones.                                                          *)
LEMMA HeadFacts ==
    ASSUME TypeOK, NEW b \in Blocks
    PROVE  /\ HeadID(b) \in Ids /\ BB(HeadID(b)) = b
           /\ \A i \in Ids : HeadID(b) <= i <=> b <= BB(i)
<1> DEFINE S == {i \in Ids : BB(i) = b}
<1>1. S \in SUBSET Nat /\ S # {} /\ S \subseteq Ids
  <2>1. PICK i \in Ids : BB(i) = b
    BY DEF Blocks, BB
  <2> QED
    BY <2>1, ProgramFacts
<1>2. PICK n \in S : \A m \in S : n <= m
  BY <1>1, LeastNat
<1>3. HeadID(b) \in S /\ \A m \in S : HeadID(b) <= m
  <2>1. HeadID(b) = CHOOSE x \in S : \A y \in S : x <= y
    BY DEF HeadID, Min
  <2> HIDE DEF S
  <2> QED
    BY <1>2, <2>1
<1>4. ASSUME NEW i \in Ids
      PROVE  HeadID(b) <= i <=> b <= BB(i)
  <2>1. /\ HeadID(b) \in Ids /\ BB(HeadID(b)) = b
        /\ HeadID(b) \in Nat /\ i \in Nat /\ b \in Nat /\ BB(i) \in Nat
    BY <1>3, ProgramFacts
  <2>2. HeadID(b) <= i => b <= BB(i)
    BY <2>1, ProgramFacts
  <2>3. ~(HeadID(b) <= i) => BB(i) <= b
    BY <2>1, ProgramFacts
  <2>4. BB(i) = b => HeadID(b) <= i
    BY <1>3
  <2> QED
    BY <2>1, <2>2, <2>3, <2>4
<1> QED
  BY <1>3, <1>4

(* What a look at the wait list leaves in it: what is dropped was not      *)
(* busy, and nothing is left when nothing is busy.                         *)
LEMMA WaitFacts ==
    ASSUME TypeOK, NEW i \in Ids, NEW w
    PROVE  /\ stillWaits(i, w) \in Seq(Regs)
           /\ Elements(stillWaits(i, w)) \subseteq Elements(waitList[i])
           /\ \A r \in Elements(waitList[i]) :
                r \notin Elements(stillWaits(i, w)) => ~busy(w, r)
           /\ lastBusy(i, w) = 0 => \A r \in Elements(waitList[i]) : ~busy(w, r)
<1> DEFINE q == waitList[i]
           B == {n \in 1 .. Len(q) : busy(w, q[n])}
           S == {0} \cup B
           k == lastBusy(i, w)
<1>1. q \in Seq(Regs) /\ Len(q) \in Nat
  BY DEF TypeOK
<1>2. PICK top \in S : \A m \in S : m <= top
  <2>1. S \in SUBSET Nat /\ S # {} /\ \A n \in S : n <= Len(q)
    BY <1>1
  <2> HIDE DEF S
  <2> QED
    BY <1>1, <2>1, GreatestNat
<1>3. k \in S /\ \A m \in S : m <= k
  <2>1. k = CHOOSE x \in S : \A y \in S : x >= y
    BY DEF lastBusy, Max
  <2>2. \A y \in S : top >= y
    BY <1>1, <1>2
  <2>3. k \in S /\ \A m \in S : k >= m
    <3> HIDE DEF S, k
    <3> QED
      BY <2>1, <2>2
  <2> QED
    BY <1>1, <2>3
<1>4. k \in 0 .. Len(q)
  BY <1>1, <1>3
<1>5. ASSUME NEW n \in 1 .. Len(q), k < n
      PROVE  ~busy(w, q[n])
  BY <1>3, <1>4, <1>5
<1> HIDE DEF k, S, B
<1>6. stillWaits(i, w) = Take(q, k)
  BY DEF stillWaits, Take, k
<1>7. /\ Take(q, k) \in Seq(Regs)
      /\ Elements(Take(q, k)) = {q[n] : n \in 1 .. k}
      /\ Elements(q) = Elements(Take(q, k)) \cup {q[n] : n \in k + 1 .. Len(q)}
  <2> HIDE DEF q
  <2>1. Take(q, k) \in Seq(Regs)
    BY <1>1, <1>4, TakeDrop
  <2>2. /\ Elements(Take(q, k)) = {q[n] : n \in 1 .. k}
        /\ Elements(Drop(q, k)) = {q[n] : n \in k + 1 .. Len(q)}
        /\ Elements(q) = Elements(Take(q, k)) \cup Elements(Drop(q, k))
    BY <1>1, <1>4, TakeDropElements
  <2> QED
    BY <2>1, <2>2
<1>8. ASSUME NEW r \in Elements(q), r \notin Elements(Take(q, k))
      PROVE  ~busy(w, r)
  <2>1. PICK n \in k + 1 .. Len(q) : r = q[n]
    BY <1>7, <1>8
  <2>2. n \in 1 .. Len(q) /\ k < n
    BY <1>4
  <2> QED
    BY <1>5, <2>1, <2>2
<1>9. ASSUME k = 0, NEW r \in Elements(q)
      PROVE  ~busy(w, r)
  <2>1. PICK n \in 1 .. Len(q) : r = q[n]
    BY DEF Elements
  <2>2. k < n
    BY <1>9
  <2> QED
    BY <1>5, <2>1, <2>2
<1> QED
  BY <1>6, <1>7, <1>8, <1>9 DEF k

(* Looking at the operands of S. *)
LEMMA LookFacts ==
    ASSUME TypeOK, NEW S \in SUBSET Ids, checkOperands(S)
    PROVE  /\ waitList' \in [Ids -> Seq(Regs)]
           /\ axesed' \in [Wins -> [Regs -> BOOLEAN]]
           /\ firstRead(S) \in [Wins -> [Regs -> {"NO_VAL", "WAIT_ON_WRITE", "DONE_WRITE"}]]
           /\ \A w \in Wins, r \in Regs :
                firstRead(S)[w][r] = "WAIT_ON_WRITE" <=> busy(w, r)
           /\ \A i \in Ids : i \notin S => waitList'[i] = waitList[i]
           /\ \A i \in Ids : \A r : r \in Elements(waitList[i]) =>
                r \in Elements(waitList'[i]) \/ (i \in S /\ ~busy(bbWinID[i], r))
<1>1. waitList' = [i \in Ids |-> IF i \in S THEN stillWaits(i, bbWinID[i])
                                 ELSE waitList[i]]
  BY DEF checkOperands
<1>2. waitList' \in [Ids -> Seq(Regs)]
  <2>1. \A i \in Ids : waitList[i] \in Seq(Regs)
    BY DEF TypeOK
  <2>2. \A i \in Ids : stillWaits(i, bbWinID[i]) \in Seq(Regs)
    BY WaitFacts
  <2> QED
    BY <1>1, <2>1, <2>2
<1>3. axesed' \in [Wins -> [Regs -> BOOLEAN]]
  <2>1. axesed \in [Wins -> [Regs -> BOOLEAN]]
    BY DEF TypeOK
  <2>2. axesed' = [w \in Wins |-> [r \in Regs |->
                     axesed[w][r] \/ \E i \in S : bbWinID[i] = w /\ r \in lookedAt(i, w)]]
    BY Zenon DEF checkOperands
  <2>3. ASSUME NEW w \in Wins
        PROVE  [r \in Regs |-> axesed[w][r]
                  \/ \E i \in S : bbWinID[i] = w /\ r \in lookedAt(i, w)] \in [Regs -> BOOLEAN]
    <3>1. axesed[w] \in [Regs -> BOOLEAN]
      BY <2>1
    <3> QED
      BY <3>1, Zenon
  <2> QED
    BY <2>2, <2>3, Zenon
<1>4. /\ firstRead(S) \in [Wins -> [Regs -> {"NO_VAL", "WAIT_ON_WRITE", "DONE_WRITE"}]]
      /\ \A w \in Wins, r \in Regs :
           firstRead(S)[w][r] = "WAIT_ON_WRITE" <=> busy(w, r)
  <2> DEFINE c(w, r) == /\ \E i \in S : bbWinID[i] = w /\ r \in lookedAt(i, w)
                        /\ regState[w][r] = "NO_VAL" /\ ~axesed[w][r]
  <2>1. firstRead(S) = [w \in Wins |-> [r \in Regs |->
                          IF c(w, r) THEN "DONE_WRITE" ELSE regState[w][r]]]
    BY DEF firstRead
  <2>2. \A w \in Wins, r \in Regs : c(w, r) => regState[w][r] = "NO_VAL"
    OBVIOUS
  <2>3. \A w \in Wins, r \in Regs :
          regState[w][r] \in {"NO_VAL", "WAIT_ON_WRITE", "DONE_WRITE"}
    BY DEF TypeOK
  <2> HIDE DEF c
  <2> QED
    BY <2>1, <2>2, <2>3 DEF busy
<1>5. \A i \in Ids : i \notin S => waitList'[i] = waitList[i]
  BY <1>1
<1>6. ASSUME NEW i \in Ids, NEW r, r \in Elements(waitList[i])
      PROVE  r \in Elements(waitList'[i]) \/ (i \in S /\ ~busy(bbWinID[i], r))
  <2>1. CASE i \in S
    <3>1. waitList'[i] = stillWaits(i, bbWinID[i])
      BY <1>1, <2>1
    <3>2. r \notin Elements(stillWaits(i, bbWinID[i])) => ~busy(bbWinID[i], r)
      BY <1>6, WaitFacts
    <3> QED
      BY <2>1, <3>1, <3>2
  <2>2. CASE i \notin S
    BY <1>5, <1>6, <2>2
  <2> QED
    BY <2>1, <2>2
<1> QED
  BY <1>2, <1>3, <1>4, <1>5, <1>6

-----------------------------------------------------------------------------
(* What a part of the invariant depends on. *)
LEMMA KeepInstructions ==
    ASSUME IInv,
           UNCHANGED <<program, runaheadEn, nextIns, stage, bbWinID, waitList, squashSN>>
    PROVE  Dispatched' /\ LocalValuesHandedOver'
<1>1. Dispatched'
  BY DEF IInv, Dispatched, Limit, Ids, BB, Rd, Wins
<1>2. LocalValuesHandedOver'
  <2>1. LocalReadsFollowWrites' <=> LocalReadsFollowWrites
    BY DEF LocalReadsFollowWrites, Ids, SameBlock, Started, BB, Rd, Wr, Elements
  <2>2. LocalWritesInOrder' <=> LocalWritesInOrder
    BY DEF LocalWritesInOrder, Ids, SameBlock, Started, BB, Wr
  <2>3. DroppedOperandsAreWritten' <=> DroppedOperandsAreWritten
    BY DEF DroppedOperandsAreWritten, Ids, SameBlock, BB, Rd, Wr, Elements
  <2> QED
    BY <2>1, <2>2, <2>3 DEF IInv, LocalValuesHandedOver
<1> QED
  BY <1>1, <1>2

LEMMA KeepWindows ==
    ASSUME IInv, UNCHANGED <<program, stage, bbWinID, win>>
    PROVE  WindowContents'
BY DEF IInv, WindowContents, Increasing, Ids, BB, Wins

LEMMA KeepBlocks ==
    ASSUME IInv, UNCHANGED <<program, stage, bbROB>>
    PROVE  BlocksInFlight'
BY DEF IInv, BlocksInFlight, Increasing, Ids, BB

LEMMA KeepFetch ==
    ASSUME IInv,
           UNCHANGED <<program, nextIns, stage, bbWinID, bbROB, win, onFetch, squashSN>>
    PROVE  OnFetch'
BY DEF IInv, OnFetch, Last, Ids, BB, NoWin

LEMMA KeepLists ==
    ASSUME IInv, UNCHANGED <<win, availWin, busyWin, onFetch>>
    PROVE  WindowLists'
BY DEF IInv, WindowLists, Distinct, Wins, NoWin

LEMMA KeepRegisters ==
    ASSUME IInv, UNCHANGED <<program, stage, bbWinID, squashSN>>,
           \A w \in Wins, r \in Regs : busy(w, r)' <=> busy(w, r)
    PROVE  PendingWrites'
<1>1. Ids' = Ids /\ inFlight' = inFlight /\ \A i : Wr(i)' = Wr(i)
  BY SameProgram DEF inFlight
<1>2. \A i \in inFlight : bbWinID[i] \in Wins /\ Wr(i) \subseteq Regs
  BY ProgramFacts DEF IInv, inFlight, Dispatched
<1>3. /\ \A i \in inFlight : \A r \in Wr(i) : busy(bbWinID[i], r)
      /\ \A i, j \in inFlight :
           i # j /\ bbWinID[i] = bbWinID[j] => Wr(i) \cap Wr(j) = {}
      /\ squashSN = 0 =>
           \A w \in Wins, r \in Regs :
             busy(w, r) => \E i \in inFlight : bbWinID[i] = w /\ r \in Wr(i)
  BY DEF IInv, PendingWrites
<1>4. \A i \in inFlight : \A r \in Wr(i) : busy(bbWinID[i], r)'
  BY <1>2, <1>3
<1> QED
  BY <1>1, <1>3, <1>4 DEF PendingWrites, Wins

(* The initial state. *)
LEMMA InitHolds ==
    ASSUME Init
    PROVE  IInv
<1>i. /\ program \in Programs /\ runaheadEn \in RunaheadModes
      /\ nextIns = 1 /\ squashSN = 0 /\ squashes = 0 /\ slot = 0
      /\ stage = [i \in Ids |-> "DECODE"]
      /\ bbWinID = [i \in Ids |-> NoWin]
      /\ waitList = [i \in Ids |-> Rd(i)]
      /\ bbROB = << >> /\ onFetch = NoWin /\ busyWin = {}
      /\ win = [w \in Wins |-> << >>]
      /\ availWin = [n \in 1 .. NumWin |-> n]
      /\ regState = [w \in Wins |-> [r \in Regs |-> "NO_VAL"]]
      /\ turn = "COMMIT" /\ toScan = {} /\ scanned = NoWin
      /\ issueIndx = [w \in Wins |-> 0] /\ numIssues = issueIndx
  BY DEF Init
<1>1. /\ program \in Seq(Instruction) /\ Len(program) \in Nat /\ Ids \subseteq Nat
      /\ \A i \in Ids : Rd(i) \in Seq(Regs)
  <2>1. program \in Seq(Instruction)
    BY <1>i, ProgramsAssumption
  <2>2. \A i \in Ids : program[i] \in Instruction
    BY <2>1 DEF Ids
  <2> QED
    BY <2>1, <2>2 DEF Ids, Rd, Instruction
<1>2. /\ NumWin \in Nat /\ WinSize \in Nat /\ RobSize \in Nat /\ StageWidth \in Nat
      /\ MaxSquash \in Nat
  BY BBWindowAssumption
<1>3. /\ availWin \in Seq(Wins) /\ Distinct(availWin) /\ Elements(availWin) = Wins
  BY <1>2, <1>i DEF Wins, Distinct, Elements
<1>4. \A w \in Wins : win[w] = << >> /\ Elements(win[w]) = {} /\ Len(win[w]) = 0
  BY <1>i, EmptyQueue
<1>5. TypeOK
  <2>1. nextIns \in 1 .. Len(program) + 1 /\ slot \in 0 .. StageWidth
        /\ squashes \in 0 .. MaxSquash
    BY <1>i, <1>1, <1>2
  <2>2. bbROB \in Seq(Blocks) /\ Len(bbROB) <= RobSize
    BY <1>i, <1>2
  <2>3. win \in [Wins -> Seq(Ids)] /\ \A w \in Wins : Len(win[w]) <= WinSize
    BY <1>i, <1>2, <1>4
  <2>4. /\ {issueIndx, numIssues} \subseteq [Wins -> Nat]
        /\ {stallRd, stallWr} \subseteq [Wins -> SUBSET Regs]
    BY <1>i DEF Init
  <2>5. {stallNow, stBypassed, bypassNow} \subseteq [Wins -> BOOLEAN]
    BY DEF Init
  <2>6. /\ regState \in [Wins -> [Regs -> {"NO_VAL", "WAIT_ON_WRITE", "DONE_WRITE"}]]
        /\ axesed \in [Wins -> [Regs -> BOOLEAN]]
    BY DEF Init
  <2>7. /\ stage \in [Ids -> {"DECODE", "DISPATCH", "ISSUE", "COMPLETE"}]
        /\ bbWinID \in [Ids -> Wins \cup {NoWin}]
        /\ waitList \in [Ids -> Seq(Regs)]
        /\ permit \in [Blocks -> BOOLEAN]
    BY <1>i, <1>1 DEF Init
  <2> QED
    BY <1>i, <1>3, <2>1, <2>2, <2>3, <2>4, <2>5, <2>6, <2>7 DEF TypeOK
<1>6. Dispatched
  BY <1>i, <1>1 DEF Dispatched, Limit, Ids
<1>7. WindowContents
  BY <1>i, <1>1, <1>4, EmptyQueue DEF WindowContents
<1>8. BlocksInFlight
  BY <1>i, EmptyQueue DEF BlocksInFlight
<1>9. OnFetch
  <2>1. Elements(bbROB) = {}
    BY <1>i, EmptyQueue
  <2>2. \A i \in Ids : ~(i < nextIns)
    BY <1>i, <1>1 DEF Ids
  <2> QED
    BY <1>i, <2>1, <2>2 DEF OnFetch
<1>10. WindowLists
  BY <1>i, <1>3, <1>4 DEF WindowLists
<1>11. PendingWrites
  <2>1. inFlight = {}
    BY <1>i DEF inFlight
  <2>2. \A w \in Wins, r \in Regs : ~busy(w, r)
    BY <1>i DEF busy
  <2> QED
    BY <2>1, <2>2 DEF PendingWrites
<1>12. ScanKnown
  BY <1>i DEF ScanKnown
<1>13. LocalValuesHandedOver
  BY <1>i DEF LocalValuesHandedOver, LocalReadsFollowWrites, LocalWritesInOrder,
              DroppedOperandsAreWritten, Started
<1> QED
  BY <1>5, <1>6, <1>7, <1>8, <1>9, <1>10, <1>11, <1>12, <1>13 DEF IInv

(* The steps that only move the cycle, the slot or the scan on. *)
LEMMA MovesOnPreserves ==
    ASSUME IInv, endCommit \/ endDispatch \/ nextWindow \/ endIssue \/ leaveWindow
    PROVE  IInv'
<1>1. /\ UNCHANGED <<program, runaheadEn, nextIns, stage, bbWinID, permit, bbROB,
                     win, availWin, busyWin, onFetch, issueIndx, numIssues,
                     stallRd, stallWr, stallNow, stBypassed, bypassNow,
                     waitList, regState, axesed, squashSN, squashes>>
      /\ slot' \in {0, slot} /\ toScan' \subseteq toScan
      /\ scanned' \in toScan \cup {scanned, NoWin}
      /\ turn' \in {"EXECUTE", "ISSUE", "READINESS", turn}
      /\ turn' = "SCAN" => turn = "SCAN" /\ slot' = slot
  BY DEF endCommit, endDispatch, nextWindow, endIssue, leaveWindow, progVars, winVars,
         countVars, stallVars, regVars, scanVars, squashVars
<1>2. TypeOK'
  <2>1. /\ slot' \in 0 .. StageWidth /\ toScan' \subseteq Wins
        /\ scanned' \in Wins \cup {NoWin}
        /\ turn' \in {"COMMIT", "EXECUTE", "DISPATCH", "ISSUE", "SCAN", "READINESS"}
    <3>1. /\ slot \in 0 .. StageWidth /\ toScan \subseteq Wins
          /\ scanned \in Wins \cup {NoWin} /\ StageWidth \in Nat
          /\ turn \in {"COMMIT", "EXECUTE", "DISPATCH", "ISSUE", "SCAN", "READINESS"}
      BY BBWindowAssumption DEF IInv, TypeOK
    <3>2. slot' \in 0 .. StageWidth
      BY <1>1, <3>1
    <3> QED
      BY <1>1, <3>1, <3>2
  <2>2. Ids' = Ids /\ Blocks' = Blocks
    BY <1>1, SameProgram
  <2> QED
    BY <1>1, <2>1, <2>2 DEF IInv, TypeOK, Wins
<1>3. ScanKnown'
  BY <1>1 DEF IInv, ScanKnown, Wins
<1>4. PendingWrites'
  BY <1>1, KeepRegisters DEF busy
<1> QED
  BY <1>1, <1>2, <1>3, <1>4, KeepInstructions, KeepWindows, KeepBlocks, KeepFetch,
     KeepLists DEF IInv

-----------------------------------------------------------------------------
(* What IInv says of a queue of blocks: Head, Last and Tail. *)
LEMMA BlockQueue ==
    ASSUME IInv, bbROB # << >>
    PROVE  /\ bbROB \in Seq(Nat) /\ Len(bbROB) \in Nat \ {0}
           /\ Head(bbROB) \in Blocks /\ Last(bbROB) \in Blocks
           /\ Head(bbROB) \in Elements(bbROB) /\ Last(bbROB) \in Elements(bbROB)
           /\ \A b \in Elements(bbROB) : Head(bbROB) <= b /\ b <= Last(bbROB)
<1>1. bbROB \in Seq(Blocks) /\ bbROB \in Seq(Nat) /\ Increasing(bbROB)
  BY ProgramFacts DEF IInv, TypeOK, BlocksInFlight
<1>2. Len(bbROB) \in Nat \ {0}
  BY <1>1
<1>3. Head(bbROB) = bbROB[1] /\ Last(bbROB) = bbROB[Len(bbROB)]
  BY <1>1, <1>2 DEF Last
<1>4. /\ Head(bbROB) \in Blocks /\ Last(bbROB) \in Blocks
      /\ Head(bbROB) \in Elements(bbROB) /\ Last(bbROB) \in Elements(bbROB)
  BY <1>1, <1>2, <1>3 DEF Elements
<1>5. ASSUME NEW n \in 1 .. Len(bbROB)
      PROVE  bbROB[1] <= bbROB[n] /\ bbROB[n] <= bbROB[Len(bbROB)]
  <2>1. /\ bbROB[1] \in Nat /\ bbROB[n] \in Nat /\ bbROB[Len(bbROB)] \in Nat
        /\ 1 \in 1 .. Len(bbROB) /\ Len(bbROB) \in 1 .. Len(bbROB)
    BY <1>1, <1>2
  <2>2. n = 1 \/ bbROB[1] < bbROB[n]
    BY <1>1, <2>1 DEF Increasing
  <2>3. n = Len(bbROB) \/ bbROB[n] < bbROB[Len(bbROB)]
    BY <1>1, <1>2, <2>1 DEF Increasing
  <2> QED
    BY <2>1, <2>2, <2>3
<1> QED
  BY <1>1, <1>2, <1>3, <1>4, <1>5 DEF Elements

(* Retiring the oldest block preserves the invariant. *)
LEMMA CommitPreserves ==
    ASSUME IInv, commitBB
    PROVE  IInv'
<1>1. /\ UNCHANGED <<program, runaheadEn, nextIns, stage, bbWinID, permit,
                     win, availWin, busyWin, onFetch, issueIndx, numIssues,
                     stallRd, stallWr, stallNow, stBypassed, bypassNow,
                     waitList, regState, axesed, turn, slot, toScan, scanned,
                     squashSN, squashes>>
      /\ bbROB # << >> /\ bbROB' = Tail(bbROB)
      /\ \A i \in Ids : BB(i) = Head(bbROB) => stage[i] = "COMPLETE"
  BY DEF commitBB, frontComplete, isBBcomplete, BlockIns, winVars, countVars,
         stallVars, regVars, scanVars, squashVars
<1>p. Ids' = Ids /\ Blocks' = Blocks /\ \A i : BB(i)' = BB(i)
  BY <1>1, SameProgram
<1>2. /\ bbROB \in Seq(Blocks) /\ Len(bbROB) \in Nat \ {0}
      /\ Increasing(bbROB) /\ bbROB \in Seq(Nat)
  BY <1>1, BlockQueue DEF IInv, TypeOK, BlocksInFlight
<1>3. /\ Tail(bbROB) \in Seq(Blocks) /\ Len(Tail(bbROB)) = Len(bbROB) - 1
      /\ \A n \in 1 .. Len(bbROB) - 1 : Tail(bbROB)[n] = bbROB[n + 1]
      /\ Head(bbROB) = bbROB[1] /\ Last(bbROB) = bbROB[Len(bbROB)]
  BY <1>2 DEF Last
<1>4. /\ Elements(bbROB') \subseteq Elements(bbROB)
      /\ \A b \in Elements(bbROB) : b = Head(bbROB) \/ b \in Elements(bbROB')
  <2>1. ASSUME NEW n \in 1 .. Len(bbROB')
        PROVE  bbROB'[n] \in Elements(bbROB)
    <3>1. n + 1 \in 1 .. Len(bbROB) /\ bbROB'[n] = bbROB[n + 1]
      BY <1>1, <1>2, <1>3
    <3> QED
      BY <3>1 DEF Elements
  <2>2. ASSUME NEW n \in 1 .. Len(bbROB), n # 1
        PROVE  bbROB[n] \in Elements(bbROB')
    <3>1. n - 1 \in 1 .. Len(bbROB') /\ bbROB'[n - 1] = bbROB[n]
      BY <1>1, <1>2, <1>3, <2>2
    <3> QED
      BY <3>1 DEF Elements
  <2> QED
    BY <1>3, <2>1, <2>2 DEF Elements
<1>5. TypeOK'
  <2>1. bbROB' \in Seq(Blocks) /\ Len(bbROB') <= RobSize
    BY <1>1, <1>2, <1>3, BBWindowAssumption DEF IInv, TypeOK
  <2> QED
    BY <1>1, <1>p, <2>1 DEF IInv, TypeOK, Wins
<1>6. BlocksInFlight'
  <2>1. Increasing(bbROB')
    <3> SUFFICES ASSUME NEW m \in 1 .. Len(bbROB'), NEW n \in 1 .. Len(bbROB'), m < n
                 PROVE  bbROB'[m] < bbROB'[n]
      BY DEF Increasing
    <3>1. /\ m + 1 \in 1 .. Len(bbROB) /\ n + 1 \in 1 .. Len(bbROB) /\ m + 1 < n + 1
          /\ bbROB'[m] = bbROB[m + 1] /\ bbROB'[n] = bbROB[n + 1]
      BY <1>1, <1>2, <1>3
    <3> QED
      BY <1>2, <3>1 DEF Increasing
  <2>2. ASSUME NEW i \in Ids, stage[i] \in {"DISPATCH", "ISSUE"}
        PROVE  BB(i) \in Elements(bbROB')
    <3>1. BB(i) \in Elements(bbROB) /\ BB(i) # Head(bbROB)
      BY <1>1, <2>2 DEF IInv, BlocksInFlight
    <3> QED
      BY <1>4, <3>1
  <2> QED
    BY <1>1, <1>p, <2>1, <2>2 DEF BlocksInFlight
<1>7. ASSUME bbROB' # << >>
      PROVE  Last(bbROB') = Last(bbROB)
  <2>1. Len(bbROB') \in 1 .. Len(bbROB) - 1
    BY <1>1, <1>2, <1>3, <1>7
  <2> QED
    BY <1>1, <1>2, <1>3, <2>1 DEF Last
<1>8. OnFetch'
  <2> SUFFICES ASSUME squashSN = 0
               PROVE  OnFetch'
    BY <1>1 DEF OnFetch
  <2>1. /\ onFetch # NoWin
        /\ \A i \in Ids : stage[i] # "DECODE" /\ BB(i) = Last(bbROB)
                            => bbWinID[i] = onFetch
        /\ \A i \in Elements(win[onFetch]) : BB(i) = Last(bbROB)
        /\ \A b \in Elements(bbROB), i \in Ids : nextIns <= i => b <= BB(i)
        /\ \A i \in Ids : nextIns \in Ids /\ i < nextIns /\ BB(i) = BB(nextIns)
             => Last(bbROB) = BB(nextIns)
    BY <1>1 DEF IInv, OnFetch
  <2>2. ASSUME nextIns \in Ids, Last(bbROB) = BB(nextIns)
        PROVE  bbROB' # << >>
    <3>1. stage[nextIns] = "DECODE"
      BY <2>2, ProgramFacts DEF IInv, Dispatched, Limit
    <3>2. Head(bbROB) # Last(bbROB)
      BY <1>1, <2>2, <3>1
    <3>3. Len(bbROB) # 1
      BY <1>3, <3>2
    <3>4. bbROB' \in Seq(Blocks) /\ Len(bbROB') # 0
      BY <1>1, <1>2, <1>3, <3>3
    <3> QED
      BY <3>4, EmptyQueue
  <2>3. \A b \in Elements(bbROB'), i \in Ids : nextIns <= i => b <= BB(i)
    BY <1>4, <2>1
  <2>4. \A i \in Ids : nextIns \in Ids /\ i < nextIns /\ BB(i) = BB(nextIns)
             => bbROB' # << >> /\ Last(bbROB') = BB(nextIns)
    BY <1>7, <2>1, <2>2
  <2>5. bbROB' # << >> =>
           /\ \A i \in Ids : stage[i] # "DECODE" /\ BB(i) = Last(bbROB')
                               => bbWinID[i] = onFetch
           /\ \A i \in Elements(win[onFetch]) : BB(i) = Last(bbROB')
    BY <1>7, <2>1
  <2> HIDE DEF Last
  <2> QED
    BY <1>1, <1>p, <2>1, <2>3, <2>4, <2>5 DEF OnFetch, NoWin
<1>9. ScanKnown'
  BY <1>1 DEF IInv, ScanKnown, Wins
<1>10. PendingWrites'
  BY <1>1, KeepRegisters DEF busy
<1> QED
  BY <1>1, <1>5, <1>6, <1>8, <1>9, <1>10, KeepInstructions, KeepWindows, KeepLists DEF IInv

(* Completion of any of the issued instructions preserves the invariant. *)
LEMMA CompletePreserves ==
    ASSUME IInv, completeIns
    PROVE  IInv'
<1>u. /\ UNCHANGED <<program, runaheadEn, nextIns, bbWinID, permit, bbROB,
                     win, availWin, busyWin, onFetch, issueIndx, numIssues,
                     stallRd, stallWr, stallNow, stBypassed, bypassNow,
                     waitList, axesed, slot, toScan, scanned, squashSN, squashes>>
      /\ turn' = "DISPATCH"
  BY DEF completeIns, winVars, countVars, stallVars, scanVars, squashVars
<1>p. /\ Ids' = Ids /\ Blocks' = Blocks
      /\ \A i : BB(i)' = BB(i) /\ Rd(i)' = Rd(i) /\ Wr(i)' = Wr(i)
  BY <1>u, SameProgram
<1>1. PICK S \in SUBSET inFlight :
         /\ stage' = [i \in Ids |-> IF i \in S THEN "COMPLETE" ELSE stage[i]]
         /\ regState' = writeToRF(S)
  BY DEF completeIns
<1>2. /\ \A i \in Ids : stage'[i] = IF i \in S THEN "COMPLETE" ELSE stage[i]
      /\ \A i \in S : i \in Ids /\ stage[i] = "ISSUE"
  BY <1>1 DEF inFlight
<1>3. /\ \A w \in Wins, r \in Regs :
           regState'[w][r] = IF \E i \in S : bbWinID[i] = w /\ r \in Wr(i)
                             THEN "DONE_WRITE" ELSE regState[w][r]
      /\ regState' \in [Wins -> [Regs -> {"NO_VAL", "WAIT_ON_WRITE", "DONE_WRITE"}]]
  <2> DEFINE c(w, r) == \E i \in S : bbWinID[i] = w /\ r \in Wr(i)
  <2>1. regState' = [w \in Wins |-> [r \in Regs |->
                       IF c(w, r) THEN "DONE_WRITE" ELSE regState[w][r]]]
    BY <1>1 DEF writeToRF
  <2>2. \A w \in Wins, r \in Regs :
          regState[w][r] \in {"NO_VAL", "WAIT_ON_WRITE", "DONE_WRITE"}
    BY DEF IInv, TypeOK
  <2> HIDE DEF c
  <2>3. /\ \A w \in Wins, r \in Regs :
             regState'[w][r] = IF c(w, r) THEN "DONE_WRITE" ELSE regState[w][r]
        /\ regState' \in [Wins -> [Regs -> {"NO_VAL", "WAIT_ON_WRITE", "DONE_WRITE"}]]
    BY <2>1, <2>2
  <2> QED
    BY <2>3 DEF c
<1>4. TypeOK'
  <2>1. stage' \in [Ids -> {"DECODE", "DISPATCH", "ISSUE", "COMPLETE"}]
    BY <1>1 DEF IInv, TypeOK
  <2> QED
    BY <1>u, <1>p, <1>3, <2>1 DEF IInv, TypeOK, Wins
<1>5. Dispatched'
  BY <1>u, <1>p, <1>2 DEF IInv, Dispatched, Limit, Wins
<1>6. WindowContents'
  <2>1. \A i \in Ids : /\ stage'[i] = "DISPATCH" <=> stage[i] = "DISPATCH"
                       /\ stage'[i] # "DECODE" <=> stage[i] # "DECODE"
    BY <1>2
  <2> QED
    BY <1>u, <1>p, <2>1 DEF IInv, WindowContents, Increasing, Wins
<1>7. BlocksInFlight'
  BY <1>u, <1>p, <1>2 DEF IInv, BlocksInFlight, Increasing
<1>8. OnFetch'
  <2>1. \A i \in Ids : stage'[i] # "DECODE" <=> stage[i] # "DECODE"
    BY <1>2
  <2> QED
    BY <1>u, <1>p, <2>1 DEF IInv, OnFetch, Last, NoWin
<1>9. PendingWrites'
  <2>1. inFlight' = inFlight \ S
    BY <1>p, <1>2 DEF inFlight
  <2>2. \A w \in Wins, r \in Regs :
          busy(w, r)' <=> busy(w, r) /\ ~ (\E i \in S : bbWinID[i] = w /\ r \in Wr(i))
    BY <1>3 DEF busy
  <2>3. ASSUME NEW i \in inFlight \ S, NEW r \in Wr(i)
        PROVE  busy(bbWinID[i], r)'
    <3>1. i \in Ids /\ bbWinID[i] \in Wins /\ r \in Regs
      BY ProgramFacts DEF IInv, inFlight, Dispatched
    <3>2. busy(bbWinID[i], r)
      BY DEF IInv, PendingWrites
    <3>3. \A j \in S : bbWinID[j] = bbWinID[i] => r \notin Wr(j)
      BY DEF IInv, PendingWrites
    <3>4. \A w \in Wins : w = bbWinID[i] => busy(w, r)'
      BY <2>2, <3>1, <3>2, <3>3
    <3> QED
      BY <1>u, <3>1, <3>4 DEF busy
  <2>4. ASSUME squashSN = 0, NEW w \in Wins, NEW r \in Regs, busy(w, r)'
        PROVE  \E i \in inFlight \ S : bbWinID[i] = w /\ r \in Wr(i)
    <3>1. busy(w, r) /\ ~ (\E i \in S : bbWinID[i] = w /\ r \in Wr(i))
      BY <2>2, <2>4
    <3>2. PICK i \in inFlight : bbWinID[i] = w /\ r \in Wr(i)
      BY <2>4, <3>1 DEF IInv, PendingWrites
    <3> QED
      BY <3>1, <3>2
  <2>5. \A i, j \in inFlight \ S :
          i # j /\ bbWinID[i] = bbWinID[j] => Wr(i) \cap Wr(j) = {}
    BY DEF IInv, PendingWrites
  <2> HIDE DEF busy
  <2> QED
    BY <1>u, <1>p, <2>1, <2>3, <2>4, <2>5 DEF PendingWrites, Wins
<1>10. ScanKnown'
  BY <1>u DEF IInv, ScanKnown, Wins
<1>11. LocalValuesHandedOver'
  <2>1. \A i \in Ids : /\ Started(i)' <=> Started(i)
                       /\ stage'[i] = "DISPATCH" <=> stage[i] = "DISPATCH"
                       /\ stage[i] = "COMPLETE" => stage'[i] = "COMPLETE"
    BY <1>2 DEF Started
  <2>2. LocalReadsFollowWrites => LocalReadsFollowWrites'
    BY <1>p, <2>1 DEF LocalReadsFollowWrites, SameBlock
  <2>3. LocalWritesInOrder => LocalWritesInOrder'
    BY <1>p, <2>1 DEF LocalWritesInOrder, SameBlock
  <2>4. DroppedOperandsAreWritten => DroppedOperandsAreWritten'
    BY <1>u, <1>p, <2>1 DEF DroppedOperandsAreWritten, SameBlock
  <2> QED
    BY <1>u, <2>2, <2>3, <2>4 DEF IInv, LocalValuesHandedOver
<1> QED
  BY <1>u, <1>4, <1>5, <1>6, <1>7, <1>8, <1>9, <1>10, <1>11, KeepLists DEF IInv

-----------------------------------------------------------------------------
(* Windows that are set free go behind those that are available.           *)
LEMMA SetFree ==
    ASSUME NEW q \in Seq(Wins), Distinct(q), NEW S \in SUBSET Wins,
           Elements(q) \cap S = {}
    PROVE  /\ q \o Ascending(S) \in Seq(Wins) /\ Distinct(q \o Ascending(S))
           /\ Elements(q \o Ascending(S)) = Elements(q) \cup S
<1>1. NumWin \in Nat /\ S \in SUBSET (1 .. NumWin)
  BY BBWindowAssumption DEF Wins
<1>2. /\ Ascending(S) \in Seq(S)
      /\ Distinct(Ascending(S)) /\ Elements(Ascending(S)) = S
  BY <1>1, AscendingEnumerates
<1>3. Ascending(S) \in Seq(Wins)
  BY <1>2
<1> HIDE DEF Wins
<1> QED
  BY <1>2, <1>3, Concat

(* A flush preserves the invariant: what is left below the squashed block  *)
(* was dispatched before it.                                               *)
LEMMA SquashPreserves ==
    ASSUME IInv, squash
    PROVE  IInv'
<1>u. /\ UNCHANGED <<program, runaheadEn, nextIns, bbWinID, permit, bbROB,
                     issueIndx, numIssues, stallRd, stallWr, stallNow,
                     stBypassed, bypassNow, waitList, regState, axesed, turn,
                     slot, toScan, scanned>>
      /\ squashSN = 0 /\ squashes < MaxSquash
  BY DEF squash, countVars, stallVars, regVars, scanVars
<1>p. /\ Ids' = Ids /\ Blocks' = Blocks
      /\ \A i : BB(i)' = BB(i) /\ Rd(i)' = Rd(i) /\ Wr(i)' = Wr(i)
  BY <1>u, SameProgram
<1> DEFINE left(n) == [w \in Wins |-> Filter(win[w], {i \in Ids : i < n})]
           freed(n) == {w \in busyWin : left(n)[w] = << >>}
           first(n) == IF onFetch \in freed(n) THEN <<onFetch>> ELSE << >>
<1>1. PICK b \in Elements(bbROB) :
         /\ \E i \in BlockIns(b) : stage[i] \in {"ISSUE", "COMPLETE"}
         /\ win' = left(HeadID(b))
         /\ availWin' = availWin \o first(HeadID(b))
                          \o Ascending(freed(HeadID(b)) \ {onFetch})
         /\ busyWin' = busyWin \ freed(HeadID(b))
         /\ onFetch' = IF onFetch \in freed(HeadID(b)) THEN NoWin ELSE onFetch
         /\ stage' = [i \in Ids |-> IF i >= HeadID(b) THEN "DECODE" ELSE stage[i]]
         /\ squashSN' = HeadID(b) /\ squashes' = squashes + 1
  BY Zenon DEF squash
<1>2. PICK sn \in Ids : sn = HeadID(b) /\ \A i \in Ids : sn <= i <=> b <= BB(i)
  <2>1. b \in Blocks
    BY ElementsIn DEF IInv, TypeOK
  <2> QED
    BY <2>1, HeadFacts DEF IInv
<1>3. /\ Ids \subseteq Nat /\ sn \in Nat /\ sn # 0 /\ BB(sn) = b
      /\ \A i \in Ids : i < sn => BB(i) # b
      /\ \A i \in Ids : stage[i] = "DECODE" => sn <= i
  <2>1. b \in Blocks
    BY ElementsIn DEF IInv, TypeOK
  <2>2. BB(sn) = b /\ Ids \subseteq Nat /\ \A i \in Ids : BB(i) \in Nat
    BY <1>2, <2>1, HeadFacts, ProgramFacts DEF IInv
  <2>3. \A i \in Ids : i < sn => BB(i) # b
    BY <1>2, <2>2
  <2>4. PICK i \in Ids : BB(i) = b /\ stage[i] \in {"ISSUE", "COMPLETE"}
    BY <1>1 DEF BlockIns
  <2>5. sn <= i /\ i < nextIns /\ nextIns \in Nat
    <3>1. nextIns \in Nat
      BY ProgramFacts DEF IInv, TypeOK
    <3>2. ~(nextIns <= i)
      BY <1>u, <2>4 DEF IInv, Dispatched, Limit
    <3> QED
      BY <1>2, <2>2, <2>4, <3>1, <3>2
  <2>6. \A k \in Ids : stage[k] = "DECODE" => nextIns <= k
    BY <1>u DEF IInv, Dispatched, Limit
  <2> QED
    BY <2>2, <2>3, <2>5, <2>6 DEF Ids
<1>4. /\ squashSN' = sn /\ squashes' = squashes + 1
      /\ \A i \in Ids : stage'[i] = IF sn <= i THEN "DECODE" ELSE stage[i]
      /\ stage' \in [Ids -> {"DECODE", "DISPATCH", "ISSUE", "COMPLETE"}]
  <2>1. stage' = [i \in Ids |-> IF i >= sn THEN "DECODE" ELSE stage[i]]
    BY <1>1, <1>2
  <2>2. \A i \in Ids : i >= sn <=> sn <= i
    BY <1>3
  <2> QED
    BY <1>1, <1>2, <2>1, <2>2 DEF IInv, TypeOK
<1>5. /\ win' \in [Wins -> Seq(Ids)]
      /\ \A w \in Wins : /\ Len(win'[w]) <= WinSize /\ Increasing(win'[w])
                         /\ Elements(win'[w]) = {i \in Elements(win[w]) : i < sn}
  <2> SUFFICES ASSUME NEW w \in Wins
               PROVE  /\ left(sn)[w] \in Seq(Ids)
                      /\ Len(left(sn)[w]) <= WinSize /\ Increasing(left(sn)[w])
                      /\ Elements(left(sn)[w]) = {i \in Elements(win[w]) : i < sn}
    BY <1>1, <1>2
  <2>1. /\ win[w] \in Seq(Ids) /\ Len(win[w]) <= WinSize /\ Increasing(win[w])
        /\ Ids \in SUBSET Nat /\ WinSize \in Nat
    BY <1>3, BBWindowAssumption DEF IInv, TypeOK, WindowContents
  <2> DEFINE S == {i \in Ids : i < sn}
  <2>2. /\ Filter(win[w], S) \in Seq(Ids)
        /\ Elements(Filter(win[w], S)) = Elements(win[w]) \cap S
        /\ Len(Filter(win[w], S)) <= Len(win[w])
        /\ Increasing(Filter(win[w], S))
    <3> HIDE DEF S
    <3> QED
      BY <2>1, FilterElements, FilterIncreasing
  <2>3. Len(Filter(win[w], S)) \in Nat /\ Len(win[w]) \in Nat
    BY <2>1, <2>2
  <2>4. Elements(win[w]) \subseteq Ids
    BY <2>1, ElementsIn
  <2> QED
    BY <2>1, <2>2, <2>3, <2>4
<1>6. /\ freed(sn) \subseteq busyWin /\ onFetch' \in {NoWin, onFetch}
      /\ \A w \in freed(sn) : win'[w] = << >>
      /\ availWin' \in Seq(Wins) /\ Distinct(availWin')
      /\ Elements(availWin') = Elements(availWin) \cup freed(sn)
      /\ busyWin' = busyWin \ freed(sn)
      /\ onFetch' # NoWin => onFetch' = onFetch /\ onFetch \notin freed(sn)
  <2>1. /\ availWin \in Seq(Wins) /\ Distinct(availWin)
        /\ Elements(availWin) \cap busyWin = {} /\ busyWin \subseteq Wins
    BY DEF IInv, TypeOK, WindowLists
  <2>2. /\ freed(sn) \subseteq busyWin
        /\ \A w \in freed(sn) : win'[w] = << >>
        /\ busyWin' = busyWin \ freed(sn)
        /\ onFetch' = IF onFetch \in freed(sn) THEN NoWin ELSE onFetch
        /\ availWin' = availWin \o first(sn) \o Ascending(freed(sn) \ {onFetch})
    BY <1>1, <1>2
  <2> HIDE DEF freed
  <2>3. /\ first(sn) \in Seq(Wins) /\ Distinct(first(sn))
        /\ Elements(first(sn)) = freed(sn) \cap {onFetch}
    <3>1. CASE onFetch \in freed(sn)
      <4>1. first(sn) = <<onFetch>> /\ onFetch \in Wins
        BY <2>1, <2>2, <3>1
      <4>2. Distinct(<<onFetch>>) /\ Elements(<<onFetch>>) = {onFetch}
        BY DEF Distinct, Elements
      <4> QED
        BY <3>1, <4>1, <4>2
    <3>2. CASE onFetch \notin freed(sn)
      BY <3>2, EmptyQueue
    <3> QED
      BY <3>1, <3>2
  <2> HIDE DEF first
  <2>4. /\ availWin \o first(sn) \in Seq(Wins) /\ Distinct(availWin \o first(sn))
        /\ Elements(availWin \o first(sn))
             = Elements(availWin) \cup (freed(sn) \cap {onFetch})
    BY <2>1, <2>2, <2>3, Concat
  <2>5. /\ (freed(sn) \ {onFetch}) \in SUBSET Wins
        /\ Elements(availWin \o first(sn)) \cap (freed(sn) \ {onFetch}) = {}
    BY <2>1, <2>2, <2>4
  <2>6. /\ availWin' \in Seq(Wins) /\ Distinct(availWin')
        /\ Elements(availWin') = Elements(availWin \o first(sn))
                                   \cup (freed(sn) \ {onFetch})
    BY <2>2, <2>4, <2>5, SetFree
  <2> QED
    BY <2>2, <2>4, <2>6
<1> HIDE DEF left, freed, first
<1>7. TypeOK'
  <2>1. /\ squashes' \in 0 .. MaxSquash /\ squashSN' \in Ids \cup {0}
    BY <1>u, <1>4, BBWindowAssumption DEF IInv, TypeOK
  <2>2. busyWin' \subseteq Wins /\ onFetch' \in Wins \cup {NoWin}
    BY <1>6 DEF IInv, TypeOK
  <2> QED
    BY <1>u, <1>p, <1>4, <1>5, <1>6, <2>1, <2>2 DEF IInv, TypeOK, Wins
<1>8. Dispatched'
  <2>1. \A i \in Ids : stage'[i] = "DECODE" <=> sn <= i
    BY <1>3, <1>4
  <2>2. \A i \in Ids : stage'[i] # "DECODE" => bbWinID[i] \in Wins
    BY <1>4 DEF IInv, Dispatched
  <2>3. Limit' = sn
    BY <1>3, <1>4 DEF Limit
  <2> QED
    BY <1>u, <1>p, <1>3, <1>4, <2>1, <2>2, <2>3 DEF Dispatched, Wins
<1>9. WindowContents'
  <2>1. ASSUME NEW w \in Wins, NEW i \in Ids
        PROVE  i \in Elements(win'[w]) <=> stage'[i] = "DISPATCH" /\ bbWinID[i] = w
    <3>1. i \in Elements(win[w]) <=> stage[i] = "DISPATCH" /\ bbWinID[i] = w
      BY DEF IInv, WindowContents
    <3> QED
      BY <1>3, <1>4, <1>5, <3>1
  <2>2. \A i, j \in Ids :
          stage'[i] # "DECODE" /\ stage'[j] # "DECODE" /\ BB(i) = BB(j)
            => bbWinID[i] = bbWinID[j]
    BY <1>4 DEF IInv, WindowContents
  <2>3. \A w \in Wins : \A i, j \in Elements(win'[w]) : BB(i) = BB(j)
    BY <1>5 DEF IInv, WindowContents
  <2> QED
    BY <1>u, <1>p, <1>5, <2>1, <2>2, <2>3 DEF WindowContents, Wins
<1>10. BlocksInFlight'
  BY <1>u, <1>p, <1>4 DEF IInv, BlocksInFlight, Increasing
<1>11. OnFetch'
  BY <1>3, <1>4 DEF OnFetch
<1>12. WindowLists'
  <2>1. ASSUME NEW w \in Elements(availWin)
        PROVE  win'[w] = << >>
    <3>1. w \in Wins /\ win[w] = << >>
      BY DEF IInv, WindowLists
    <3>2. Elements(win'[w]) = {} /\ win'[w] \in Seq(Ids)
      BY <1>5, <3>1, EmptyQueue
    <3> QED
      BY <3>2, ElementsIn
  <2>2. onFetch' # NoWin => onFetch' \in busyWin'
    BY <1>6 DEF IInv, WindowLists
  <2>3. /\ Elements(availWin') \cap busyWin' = {}
        /\ Elements(availWin') \cup busyWin' = Wins
    BY <1>6 DEF IInv, WindowLists
  <2> QED
    BY <1>6, <2>1, <2>2, <2>3 DEF WindowLists, Wins, NoWin
<1>13. PendingWrites'
  <2>1. inFlight' \subseteq inFlight
    BY <1>p, <1>4 DEF inFlight
  <2>2. \A i \in inFlight' : \A r \in Wr(i) : busy(bbWinID[i], r)
    BY <2>1 DEF IInv, PendingWrites
  <2>3. \A i, j \in inFlight' :
          i # j /\ bbWinID[i] = bbWinID[j] => Wr(i) \cap Wr(j) = {}
    BY <2>1 DEF IInv, PendingWrites
  <2> QED
    BY <1>u, <1>p, <1>3, <1>4, <2>2, <2>3 DEF PendingWrites, busy
<1>14. ScanKnown'
  BY <1>u DEF IInv, ScanKnown, Wins
<1>15. LocalValuesHandedOver'
  <2>1. \A i \in Ids : stage'[i] # "DECODE" => i < sn /\ stage'[i] = stage[i]
    BY <1>3, <1>4
  <2>2. \A i, j \in Ids : j < i /\ stage'[i] # "DECODE" => stage'[j] = stage[j]
    BY <1>3, <1>4, <2>1
  <2>3. \A i \in Ids : Started(i)' => Started(i) /\ stage'[i] # "DECODE"
    BY <1>4 DEF Started
  <2>4. LocalReadsFollowWrites => LocalReadsFollowWrites'
    BY <1>p, <2>2, <2>3 DEF LocalReadsFollowWrites, SameBlock
  <2>5. LocalWritesInOrder => LocalWritesInOrder'
    BY <1>p, <2>2, <2>3 DEF LocalWritesInOrder, SameBlock
  <2>6. DroppedOperandsAreWritten => DroppedOperandsAreWritten'
    BY <1>u, <1>p, <2>1, <2>2 DEF DroppedOperandsAreWritten, SameBlock
  <2> QED
    BY <1>u, <2>4, <2>5, <2>6 DEF IInv, LocalValuesHandedOver
<1> QED
  BY <1>7, <1>8, <1>9, <1>10, <1>11, <1>12, <1>13, <1>14, <1>15 DEF IInv

(* The restart preserves the invariant: the pipe is empty by then, and     *)
(* what the reset leaves is free of pending writes.                        *)
LEMMA SquashROBPreserves ==
    ASSUME IInv, squashROB
    PROVE  IInv'
<1>u. /\ UNCHANGED <<program, runaheadEn, stage, bbWinID, win, availWin, busyWin,
                     onFetch, issueIndx, numIssues, stallRd, stallWr, stallNow,
                     stBypassed, bypassNow, turn, slot, toScan, scanned, squashes>>
      /\ squashSN # 0 /\ squashSN' = 0 /\ nextIns' = squashSN /\ bbROB' = << >>
      /\ bbROB # << >> => HeadID(Head(bbROB)) >= squashSN
      /\ waitList' = [i \in Ids |-> IF i >= squashSN THEN Rd(i) ELSE waitList[i]]
      /\ permit' = [permit EXCEPT ![BB(squashSN)] = FALSE]
      /\ resetRF
  BY DEF squashROB, winVars, countVars, stallVars, scanVars
<1>p. /\ Ids' = Ids /\ Blocks' = Blocks
      /\ \A i : BB(i)' = BB(i) /\ Rd(i)' = Rd(i) /\ Wr(i)' = Wr(i)
  BY <1>u, SameProgram
<1>1. squashSN \in Ids /\ squashSN \in Nat /\ Ids \subseteq Nat
  BY <1>u, ProgramFacts DEF IInv, TypeOK
<1>2. \A i \in Ids : stage[i] \notin {"DISPATCH", "ISSUE"}
  <2> SUFFICES ASSUME NEW i \in Ids, stage[i] \in {"DISPATCH", "ISSUE"}
               PROVE  FALSE
    OBVIOUS
  <2>1. BB(i) \in Elements(bbROB)
    BY DEF IInv, BlocksInFlight
  <2>2. bbROB # << >>
    BY <2>1, EmptyQueue
  <2>3. Head(bbROB) \in Blocks /\ Head(bbROB) <= BB(i)
    BY <2>1, <2>2, BlockQueue
  <2>4. HeadID(Head(bbROB)) \in Ids /\ HeadID(Head(bbROB)) <= i
    BY <2>3, HeadFacts DEF IInv
  <2>5. squashSN <= i
    <3>1. PICK h \in Ids : h = HeadID(Head(bbROB))
      BY <2>4
    <3>2. h >= squashSN /\ h <= i
      BY <1>u, <2>2, <2>4, <3>1
    <3>3. h \in Nat /\ i \in Nat
      BY <1>1, <3>1
    <3> QED
      BY <1>1, <3>2, <3>3
  <2> QED
    BY <1>u, <2>5 DEF IInv, Dispatched, Limit
<1>3. /\ regState' \in [Wins -> [Regs -> {"NO_VAL", "WAIT_ON_WRITE", "DONE_WRITE"}]]
      /\ \A w \in Wins, r \in Regs : regState'[w][r] # "WAIT_ON_WRITE"
      /\ axesed' \in [Wins -> [Regs -> BOOLEAN]]
  <2>1. /\ regState' = [w \in Wins |-> [r \in Regs |->
                          IF regState[w][r] = "WAIT_ON_WRITE" THEN "NO_VAL"
                          ELSE regState[w][r]]]
        /\ axesed' = [w \in Wins |-> [r \in Regs |-> FALSE]]
    BY <1>u DEF resetRF
  <2>2. \A w \in Wins, r \in Regs :
          regState[w][r] \in {"NO_VAL", "WAIT_ON_WRITE", "DONE_WRITE"}
    BY DEF IInv, TypeOK
  <2> QED
    BY <2>1, <2>2
<1>4. /\ \A i \in Ids : waitList'[i] = IF squashSN <= i THEN Rd(i) ELSE waitList[i]
      /\ waitList' \in [Ids -> Seq(Regs)]
  <2>1. \A i \in Ids : Rd(i) \in Seq(Regs) /\ waitList[i] \in Seq(Regs)
    BY ProgramFacts DEF IInv, TypeOK
  <2>2. \A i \in Ids : i >= squashSN <=> squashSN <= i
    BY <1>1
  <2> QED
    BY <1>u, <2>1, <2>2
<1>5. TypeOK'
  <2>1. permit' \in [Blocks -> BOOLEAN]
    BY <1>u DEF IInv, TypeOK
  <2>2. /\ nextIns' \in 1 .. Len(program) + 1 /\ squashSN' \in Ids \cup {0}
    BY <1>u, <1>1, ProgramFacts DEF IInv, Ids
  <2>3. bbROB' \in Seq(Blocks) /\ Len(bbROB') <= RobSize
    BY <1>u, BBWindowAssumption
  <2> QED
    BY <1>u, <1>p, <1>3, <1>4, <2>1, <2>2, <2>3 DEF IInv, TypeOK, Wins
<1>6. Dispatched'
  <2>1. Limit' = squashSN /\ Limit = squashSN
    BY <1>u DEF Limit
  <2> QED
    BY <1>u, <1>p, <1>1, <1>4, <2>1 DEF IInv, Dispatched, Wins
<1>7. BlocksInFlight'
  BY <1>u, <1>p, <1>2, EmptyQueue DEF BlocksInFlight
<1>8. OnFetch'
  <2>1. Elements(bbROB') = {} /\ bbROB' = << >>
    BY <1>u, EmptyQueue
  <2>2. \A i \in Ids : i < squashSN => BB(i) # BB(squashSN)
    BY <1>u DEF IInv, Dispatched
  <2> QED
    BY <1>u, <1>p, <2>1, <2>2 DEF OnFetch
<1>9. PendingWrites'
  <2>1. inFlight' = {}
    BY <1>u, <1>p, <1>2 DEF inFlight
  <2>2. \A w \in Wins, r \in Regs : ~busy(w, r)'
    BY <1>3 DEF busy
  <2> QED
    BY <2>1, <2>2 DEF PendingWrites, Wins
<1>10. ScanKnown'
  BY <1>u DEF IInv, ScanKnown, Wins
<1>11. LocalValuesHandedOver'
  <2>1. LocalReadsFollowWrites => LocalReadsFollowWrites'
    BY <1>u, <1>p DEF LocalReadsFollowWrites, SameBlock, Started
  <2>2. LocalWritesInOrder => LocalWritesInOrder'
    BY <1>u, <1>p DEF LocalWritesInOrder, SameBlock, Started
  <2>3. DroppedOperandsAreWritten'
    BY <1>u, <1>p, <1>2 DEF DroppedOperandsAreWritten
  <2> QED
    BY <1>u, <2>1, <2>2, <2>3 DEF IInv, LocalValuesHandedOver
<1> QED
  BY <1>u, <1>5, <1>6, <1>7, <1>8, <1>9, <1>10, <1>11, KeepWindows, KeepLists DEF IInv

-----------------------------------------------------------------------------
(* Taking the first of the available windows.                              *)
LEMMA PopDistinct ==
    ASSUME NEW D, NEW q \in Seq(D), q # << >>, Distinct(q)
    PROVE  /\ Head(q) \in Elements(q) /\ Head(q) \in D
           /\ Tail(q) \in Seq(D) /\ Distinct(Tail(q))
           /\ Elements(Tail(q)) = Elements(q) \ {Head(q)}
<1>1. /\ Len(q) \in Nat \ {0} /\ Head(q) = q[1] /\ q[1] \in D
      /\ Tail(q) \in Seq(D) /\ Len(Tail(q)) = Len(q) - 1
      /\ \A n \in 1 .. Len(q) - 1 : Tail(q)[n] = q[n + 1]
  OBVIOUS
<1>2. Distinct(Tail(q))
  <2> SUFFICES ASSUME NEW m \in 1 .. Len(q) - 1, NEW n \in 1 .. Len(q) - 1,
                      Tail(q)[m] = Tail(q)[n]
               PROVE  m = n
    BY <1>1 DEF Distinct
  <2>1. q[m + 1] = q[n + 1] /\ m + 1 \in 1 .. Len(q) /\ n + 1 \in 1 .. Len(q)
    BY <1>1
  <2> QED
    BY <2>1 DEF Distinct
<1>3. ASSUME NEW x \in Elements(Tail(q))
      PROVE  x \in Elements(q) \ {Head(q)}
  <2>1. PICK n \in 1 .. Len(q) - 1 : x = q[n + 1]
    BY <1>1 DEF Elements
  <2>2. n + 1 \in 1 .. Len(q) /\ n + 1 # 1 /\ 1 \in 1 .. Len(q)
    BY <1>1
  <2>3. q[n + 1] # q[1]
    BY <2>2 DEF Distinct
  <2> QED
    BY <1>1, <2>1, <2>2, <2>3 DEF Elements
<1>4. ASSUME NEW x \in Elements(q), x # Head(q)
      PROVE  x \in Elements(Tail(q))
  <2>1. PICK n \in 1 .. Len(q) : x = q[n]
    BY DEF Elements
  <2>2. n # 1
    BY <1>1, <1>4, <2>1
  <2>3. n - 1 \in 1 .. Len(q) - 1 /\ Tail(q)[n - 1] = x
    BY <1>1, <2>1, <2>2
  <2> QED
    BY <1>1, <2>3 DEF Elements
<1>5. Head(q) \in Elements(q)
  BY <1>1 DEF Elements
<1> QED
  BY <1>1, <1>2, <1>3, <1>4, <1>5

(* A block that gets a window preserves the invariant: none of its         *)
(* instructions has been dispatched.                                       *)
LEMMA NewBlockPreserves ==
    ASSUME IInv, getAnAvailBBWin
    PROVE  IInv'
<1> DEFINE n == nextIns
<1>u. /\ UNCHANGED <<program, runaheadEn, nextIns, stage, bbWinID, permit, win,
                     issueIndx, numIssues, stallRd, stallWr, stallNow,
                     stBypassed, bypassNow, waitList, regState, axesed, turn,
                     slot, toScan, scanned, squashSN, squashes>>
      /\ turn = "DISPATCH" /\ n <= Len(program) /\ squashSN = 0
      /\ bbROB # << >> => BB(n) > Last(bbROB)
      /\ availWin # << >> /\ Len(bbROB) < RobSize
      /\ bbROB' = Append(bbROB, BB(n))
      /\ onFetch' = Head(availWin)
      /\ availWin' = Tail(availWin)
      /\ busyWin' = busyWin \cup {Head(availWin)}
  BY DEF getAnAvailBBWin, canDispatch, detectNewBB, countVars, stallVars, regVars,
         scanVars, squashVars
<1>p. /\ Ids' = Ids /\ Blocks' = Blocks
      /\ \A i : BB(i)' = BB(i)
  BY <1>u, SameProgram
<1>1. /\ n \in Ids /\ BB(n) \in Nat /\ BB(n) \in Blocks
      /\ Ids \subseteq Nat /\ Blocks \subseteq Nat
      /\ \A i \in Ids : n <= i => BB(n) <= BB(i)
  <2>1. n \in Ids
    BY <1>u, ProgramFacts DEF IInv, TypeOK, Ids
  <2> QED
    BY <2>1, ProgramFacts DEF IInv
<1>2. ASSUME NEW b \in Elements(bbROB)
      PROVE  b < BB(n)
  <2>1. bbROB # << >>
    BY <1>2, EmptyQueue
  <2>2. b <= Last(bbROB) /\ Last(bbROB) \in Nat /\ b \in Nat
    BY <1>1, <2>1, BlockQueue, ElementsIn DEF IInv, TypeOK
  <2>3. BB(n) > Last(bbROB)
    BY <1>u, <2>1
  <2> HIDE DEF Last
  <2> QED
    BY <1>1, <2>2, <2>3
<1>3. /\ bbROB \in Seq(Blocks) /\ Len(bbROB) \in Nat
      /\ bbROB' \in Seq(Blocks) /\ Len(bbROB') = Len(bbROB) + 1
      /\ Elements(bbROB') = Elements(bbROB) \cup {BB(n)}
      /\ Increasing(bbROB') /\ bbROB' # << >>
      /\ Last(bbROB') = BB(n)
  <2>1. bbROB \in Seq(Blocks) /\ Increasing(bbROB) /\ Len(bbROB) \in Nat
    BY DEF IInv, TypeOK, BlocksInFlight
  <2>2. /\ bbROB' \in Seq(Blocks) /\ Len(bbROB') = Len(bbROB) + 1
        /\ Elements(bbROB') = Elements(bbROB) \cup {BB(n)}
        /\ Increasing(bbROB')
    BY <1>u, <1>1, <1>2, <2>1, AppendElements
  <2>3. bbROB' # << >>
    BY <1>1, <2>2, EmptyQueue
  <2>4. Last(bbROB') = BB(n)
    BY <1>u, <2>1, <2>2 DEF Last
  <2> QED
    BY <2>1, <2>2, <2>3, <2>4
<1>4. \A i \in Ids : stage[i] # "DECODE" => BB(i) # BB(n)
  <2> SUFFICES ASSUME NEW i \in Ids, stage[i] # "DECODE", BB(i) = BB(n)
               PROVE  FALSE
    OBVIOUS
  <2>1. i < n
    BY <1>u, <1>1 DEF IInv, Dispatched, Limit
  <2>2. bbROB # << >> /\ Last(bbROB) = BB(n)
    BY <1>u, <1>1, <2>1 DEF IInv, OnFetch
  <2> HIDE DEF Last
  <2> QED
    BY <1>u, <1>1, <2>2
<1>5. /\ Head(availWin) \in Elements(availWin) /\ Head(availWin) \in Wins
      /\ availWin' \in Seq(Wins) /\ Distinct(availWin')
      /\ Elements(availWin') = Elements(availWin) \ {Head(availWin)}
  <2>1. availWin \in Seq(Wins) /\ Distinct(availWin)
    BY DEF IInv, TypeOK, WindowLists
  <2> QED
    BY <1>u, <2>1, PopDistinct
<1>6. TypeOK'
  <2>1. Len(bbROB') <= RobSize
    BY <1>u, <1>3, BBWindowAssumption
  <2>2. busyWin' \subseteq Wins /\ onFetch' \in Wins
    BY <1>u, <1>5 DEF IInv, TypeOK
  <2> QED
    BY <1>u, <1>p, <1>3, <1>5, <2>1, <2>2 DEF IInv, TypeOK, Wins
<1>7. BlocksInFlight'
  BY <1>u, <1>p, <1>3 DEF IInv, BlocksInFlight
<1>8. OnFetch'
  <2>1. onFetch' # NoWin
    BY <1>u, <1>5 DEF Wins, NoWin
  <2>2. win'[onFetch'] = << >> /\ Elements(win'[onFetch']) = {}
    <3>1. win[Head(availWin)] = << >>
      BY <1>5 DEF IInv, WindowLists
    <3> QED
      BY <1>u, <3>1, EmptyQueue
  <2>3. \A b \in Elements(bbROB'), i \in Ids : n <= i => b <= BB(i)
    BY <1>u, <1>1, <1>3 DEF IInv, OnFetch
  <2> HIDE DEF Last
  <2>4. \A i \in Ids : n \in Ids /\ i < n /\ BB(i) = BB(n)
             => bbROB' # << >> /\ Last(bbROB') = BB(n)
    BY <1>3
  <2>5. \A i \in Ids : stage[i] # "DECODE" /\ BB(i) = Last(bbROB')
                              => bbWinID[i] = onFetch'
    BY <1>3, <1>4
  <2> QED
    BY <1>u, <1>p, <2>1, <2>2, <2>3, <2>4, <2>5 DEF OnFetch, NoWin
<1>9. WindowLists'
  BY <1>u, <1>5 DEF IInv, WindowLists, Wins, NoWin
<1>10. PendingWrites'
  BY <1>u, KeepRegisters DEF busy
<1>11. ScanKnown'
  BY <1>u DEF IInv, ScanKnown, Wins
<1> QED
  BY <1>u, <1>6, <1>7, <1>8, <1>9, <1>10, <1>11, KeepInstructions, KeepWindows DEF IInv

(* Dispatch preserves the invariant: the instruction goes into the window  *)
(* of the block, behind the older ones of the block.                       *)
LEMMA WritePreserves ==
    ASSUME IInv, writeBBWin
    PROVE  IInv'
<1> DEFINE n == nextIns
           f == onFetch
<1>u. /\ UNCHANGED <<program, runaheadEn, permit, bbROB, availWin, busyWin,
                     onFetch, issueIndx, numIssues, stallRd, stallWr, stallNow,
                     stBypassed, bypassNow, waitList, regState, axesed, turn,
                     toScan, scanned, squashSN, squashes>>
      /\ turn = "DISPATCH" /\ slot < StageWidth /\ n <= Len(program) /\ squashSN = 0
      /\ bbROB # << >> /\ ~(BB(n) > Last(bbROB))
      /\ f # NoWin /\ Len(win[f]) < WinSize
      /\ win' = [win EXCEPT ![f] = Append(@, n)]
      /\ bbWinID' = [bbWinID EXCEPT ![n] = f]
      /\ stage' = [stage EXCEPT ![n] = "DISPATCH"]
      /\ nextIns' = n + 1 /\ slot' = slot + 1
  BY DEF writeBBWin, canDispatch, detectNewBB, countVars, stallVars, regVars,
         scanVars, squashVars
<1>p. /\ Ids' = Ids /\ Blocks' = Blocks
      /\ \A i : BB(i)' = BB(i) /\ Rd(i)' = Rd(i) /\ Wr(i)' = Wr(i)
  BY <1>u, SameProgram
<1>1. /\ n \in Ids /\ n \in Nat /\ BB(n) \in Nat /\ Ids \subseteq Nat /\ Blocks \subseteq Nat
      /\ f \in Wins
  <2>1. n \in Ids
    BY <1>u, ProgramFacts DEF IInv, TypeOK, Ids
  <2> QED
    BY <1>u, <2>1, ProgramFacts DEF IInv, TypeOK
<1>2. Last(bbROB) = BB(n) /\ BB(n) \in Elements(bbROB)
  <2>1. Last(bbROB) \in Elements(bbROB) /\ Last(bbROB) \in Nat
    BY <1>u, <1>1, BlockQueue
  <2>2. Last(bbROB) <= BB(n)
    BY <1>u, <1>1, <2>1 DEF IInv, OnFetch
  <2> HIDE DEF Last
  <2> QED
    BY <1>u, <1>1, <2>1, <2>2
<1>3. /\ \A i \in Ids : stage'[i] = IF i = n THEN "DISPATCH" ELSE stage[i]
      /\ \A i \in Ids : bbWinID'[i] = IF i = n THEN f ELSE bbWinID[i]
      /\ stage' \in [Ids -> {"DECODE", "DISPATCH", "ISSUE", "COMPLETE"}]
      /\ bbWinID' \in [Ids -> Wins \cup {NoWin}]
      /\ stage[n] = "DECODE" /\ waitList[n] = Rd(n)
      /\ \A i \in Ids : stage[i] = "DECODE" <=> n <= i
  <2>1. stage[n] = "DECODE" /\ \A i \in Ids : stage[i] = "DECODE" <=> n <= i
    BY <1>u, <1>1 DEF IInv, Dispatched, Limit
  <2>2. waitList[n] = Rd(n)
    BY <1>u, <1>1 DEF IInv, Dispatched
  <2> HIDE DEF n
  <2> QED
    BY <1>u, <1>1, <2>1, <2>2 DEF IInv, TypeOK
<1>4. /\ \A i \in Ids : stage[i] # "DECODE" /\ BB(i) = BB(n) => bbWinID[i] = f
      /\ \A i \in Elements(win[f]) : BB(i) = BB(n)
      /\ \A b \in Elements(bbROB), i \in Ids : n <= i => b <= BB(i)
  <2> HIDE DEF Last
  <2> QED
    BY <1>u, <1>2 DEF IInv, OnFetch
<1>5. /\ win' \in [Wins -> Seq(Ids)]
      /\ \A w \in Wins : /\ Len(win'[w]) <= WinSize /\ Increasing(win'[w])
                         /\ Elements(win'[w]) = IF w = f THEN Elements(win[w]) \cup {n}
                                                ELSE Elements(win[w])
      /\ \A w \in Wins : w # f => win'[w] = win[w]
  <2>1. \A w \in Wins : win[w] \in Seq(Ids) /\ Len(win[w]) <= WinSize /\ Increasing(win[w])
    BY DEF IInv, TypeOK, WindowContents
  <2>2. \A i \in Elements(win[f]) : i < n
    <3> SUFFICES ASSUME NEW i \in Elements(win[f])
                 PROVE  i < n
      OBVIOUS
    <3>1. i \in Ids
      BY <1>1, <2>1, ElementsIn
    <3>2. stage[i] = "DISPATCH"
      BY <1>1, <3>1 DEF IInv, WindowContents
    <3> QED
      BY <1>1, <1>3, <3>1, <3>2
  <2>3. /\ Append(win[f], n) \in Seq(Ids) /\ Len(Append(win[f], n)) = Len(win[f]) + 1
        /\ Elements(Append(win[f], n)) = Elements(win[f]) \cup {n}
        /\ Increasing(Append(win[f], n))
    <3> HIDE DEF n, f
    <3> QED
      BY <1>1, <2>1, <2>2, AppendElements
  <2>4. Len(Append(win[f], n)) <= WinSize
    BY <1>u, <1>1, <2>1, <2>3, BBWindowAssumption
  <2>5. win \in [Wins -> Seq(Ids)]
    BY DEF IInv, TypeOK
  <2>6. /\ win' = [win EXCEPT ![f] = Append(win[f], n)]
        /\ \A w \in Wins : win'[w] = IF w = f THEN Append(win[f], n) ELSE win[w]
    BY <1>u, <1>1, <2>5
  <2> HIDE DEF n, f
  <2>7. win' \in [Wins -> Seq(Ids)]
    BY <1>1, <2>3, <2>5, <2>6
  <2> QED
    BY <1>1, <2>1, <2>3, <2>4, <2>6, <2>7
<1>6. TypeOK'
  <2>1. nextIns' \in 1 .. Len(program) + 1 /\ slot' \in 0 .. StageWidth
    BY <1>u, <1>1, ProgramFacts, BBWindowAssumption DEF IInv, TypeOK
  <2> HIDE DEF n, f
  <2> QED
    BY <1>u, <1>p, <1>3, <1>5, <2>1 DEF IInv, TypeOK, Wins, NoWin
<1>7. Dispatched'
  <2>1. \A i \in Ids : stage'[i] = "DECODE" <=> n + 1 <= i
    BY <1>1, <1>3
  <2>2. \A i \in Ids : stage'[i] # "DECODE" => bbWinID'[i] \in Wins
    BY <1>1, <1>3 DEF IInv, Dispatched
  <2>3. Limit' = n + 1
    BY <1>u DEF Limit
  <2>4. \A i \in Ids : n + 1 <= i => waitList[i] = Rd(i)
    BY <1>u, <1>1 DEF IInv, Dispatched
  <2> HIDE DEF n
  <2> QED
    BY <1>u, <1>p, <2>1, <2>2, <2>3, <2>4 DEF Dispatched, Wins, n
<1> HIDE DEF n, f
<1>8. WindowContents'
  <2>1. ASSUME NEW w \in Wins, NEW i \in Ids
        PROVE  i \in Elements(win'[w]) <=> stage'[i] = "DISPATCH" /\ bbWinID'[i] = w
    <3>1. i \in Elements(win[w]) <=> stage[i] = "DISPATCH" /\ bbWinID[i] = w
      BY DEF IInv, WindowContents
    <3>2. CASE i = n
      BY <1>3, <1>5, <3>1, <3>2
    <3>3. CASE i # n
      BY <1>3, <1>5, <3>1, <3>3
    <3> QED
      BY <3>2, <3>3
  <2>2. ASSUME NEW i \in Ids, NEW j \in Ids,
               stage'[i] # "DECODE", stage'[j] # "DECODE", BB(i) = BB(j)
        PROVE  bbWinID'[i] = bbWinID'[j]
    <3>1. stage[i] # "DECODE" /\ stage[j] # "DECODE" => bbWinID[i] = bbWinID[j]
      BY <2>2 DEF IInv, WindowContents
    <3> QED
      BY <1>3, <1>4, <2>2, <3>1
  <2>3. ASSUME NEW w \in Wins, NEW i \in Elements(win'[w]), NEW j \in Elements(win'[w])
        PROVE  BB(i) = BB(j)
    <3>1. i \in Elements(win[w]) /\ j \in Elements(win[w]) => BB(i) = BB(j)
      BY DEF IInv, WindowContents
    <3> QED
      BY <1>4, <1>5, <2>3, <3>1
  <2> QED
    BY <1>p, <1>5, <2>1, <2>2, <2>3 DEF WindowContents, Wins
<1>9. BlocksInFlight'
  BY <1>u, <1>p, <1>2, <1>3 DEF IInv, BlocksInFlight, Increasing
<1>10. OnFetch'
  <2>1. \A i \in Ids : stage'[i] # "DECODE" /\ BB(i) = BB(n) => bbWinID'[i] = f
    BY <1>3, <1>4
  <2>2. \A i \in Elements(win'[f]) : BB(i) = BB(n)
    BY <1>1, <1>4, <1>5
  <2>3. \A b \in Elements(bbROB), i \in Ids : n + 1 <= i => b <= BB(i)
    <3>1. \A i \in Ids : n + 1 <= i => n <= i
      BY <1>1
    <3> QED
      BY <1>4, <3>1
  <2>4. ASSUME NEW i \in Ids, n + 1 \in Ids, i < n + 1, BB(i) = BB(n + 1)
        PROVE  BB(n) = BB(n + 1)
    <3>1. i <= n /\ n <= n + 1
      BY <1>1, <2>4
    <3>2. BB(i) <= BB(n) /\ BB(n) <= BB(n + 1) /\ BB(n + 1) \in Nat
      BY <1>1, <2>4, <3>1, ProgramFacts DEF IInv
    <3> QED
      BY <1>1, <2>4, <3>2
  <2>5. nextIns' = n + 1 /\ onFetch' = f /\ f # NoWin
    BY <1>u DEF n, f
  <2> HIDE DEF Last
  <2>6. bbROB' # << >> /\ Last(bbROB') = BB(n) /\ Elements(bbROB') = Elements(bbROB)
    BY <1>u, <1>2
  <2> QED
    BY <1>p, <2>1, <2>2, <2>3, <2>4, <2>5, <2>6 DEF OnFetch, NoWin
<1>11. WindowLists'
  <2>1. f \notin Elements(availWin)
    BY <1>u DEF IInv, WindowLists, f
  <2>2. \A w \in Elements(availWin) : win'[w] = << >>
    BY <1>5, <2>1 DEF IInv, WindowLists
  <2> QED
    BY <1>u, <2>2 DEF IInv, WindowLists, Wins, NoWin
<1>12. PendingWrites'
  <2>1. inFlight' = inFlight /\ \A i \in inFlight : bbWinID'[i] = bbWinID[i]
    BY <1>p, <1>3 DEF inFlight
  <2>2. \A w, r : busy(w, r)' <=> busy(w, r)
    BY <1>u DEF busy
  <2> QED
    BY <1>u, <1>p, <2>1, <2>2 DEF IInv, PendingWrites, Wins, busy
<1>13. ScanKnown'
  BY <1>u DEF IInv, ScanKnown, Wins
<1>14. LocalValuesHandedOver'
  <2>1. \A i \in Ids : /\ Started(i)' <=> Started(i)
                       /\ stage[i] = "COMPLETE" => stage'[i] = "COMPLETE"
                       /\ stage'[i] = "DISPATCH" => i = n \/ stage[i] = "DISPATCH"
    BY <1>3 DEF Started
  <2>2. LocalReadsFollowWrites => LocalReadsFollowWrites'
    BY <1>p, <2>1 DEF LocalReadsFollowWrites, SameBlock
  <2>3. LocalWritesInOrder => LocalWritesInOrder'
    BY <1>p, <2>1 DEF LocalWritesInOrder, SameBlock
  <2>4. DroppedOperandsAreWritten => DroppedOperandsAreWritten'
    <3>1. Elements(Rd(n)) \ Elements(waitList[n]) = {}
      BY <1>3
    <3> QED
      BY <1>u, <1>p, <2>1, <3>1 DEF DroppedOperandsAreWritten, SameBlock
  <2> QED
    BY <1>u, <2>2, <2>3, <2>4 DEF IInv, LocalValuesHandedOver
<1> QED
  BY <1>6, <1>7, <1>8, <1>9, <1>10, <1>11, <1>12, <1>13, <1>14 DEF IInv

-----------------------------------------------------------------------------
(* Freeing the windows that have run empty preserves the invariant.        *)
LEMMA BeginSlotPreserves ==
    ASSUME IInv, beginSlot
    PROVE  IInv'
<1> DEFINE freed == {w \in busyWin : win[w] = << >>} \ {onFetch}
<1>u. /\ UNCHANGED <<program, runaheadEn, nextIns, stage, bbWinID, permit, bbROB,
                     win, onFetch, issueIndx, numIssues, stallRd, stallWr, stallNow,
                     stBypassed, bypassNow, waitList, regState, axesed,
                     slot, scanned, squashSN, squashes>>
      /\ slot < StageWidth /\ turn' = "SCAN"
      /\ availWin' = availWin \o Ascending(freed)
      /\ busyWin' = busyWin \ freed
      /\ toScan' = {w \in busyWin : win[w] # << >>}
  BY DEF beginSlot, manageBusyBBWin, progVars, countVars, stallVars, regVars, squashVars
<1>1. /\ availWin \in Seq(Wins) /\ Distinct(availWin) /\ busyWin \subseteq Wins
      /\ Elements(availWin) \cap busyWin = {} /\ freed \subseteq busyWin
  BY DEF IInv, TypeOK, WindowLists
<1>2. /\ availWin' \in Seq(Wins) /\ Distinct(availWin')
      /\ Elements(availWin') = Elements(availWin) \cup freed
  <2>1. freed \in SUBSET Wins /\ Elements(availWin) \cap freed = {}
    BY <1>1
  <2> HIDE DEF freed
  <2> QED
    BY <1>u, <1>1, <2>1, SetFree
<1>3. TypeOK'
  <2>1. toScan' \subseteq Wins /\ busyWin' \subseteq Wins
    BY <1>u, <1>1
  <2>2. Ids' = Ids /\ Blocks' = Blocks
    BY <1>u, SameProgram
  <2> HIDE DEF freed
  <2> QED
    BY <1>u, <1>2, <2>1, <2>2 DEF IInv, TypeOK, Wins
<1>4. WindowLists'
  <2>1. onFetch # NoWin => onFetch \in busyWin'
    BY <1>u DEF IInv, WindowLists
  <2>2. \A w \in freed : win[w] = << >>
    OBVIOUS
  <2> HIDE DEF freed
  <2> QED
    BY <1>u, <1>1, <1>2, <2>1, <2>2 DEF IInv, WindowLists, Wins, NoWin
<1>5. ScanKnown'
  BY <1>u DEF IInv, ScanKnown, Wins
<1>6. PendingWrites'
  BY <1>u, KeepRegisters DEF busy
<1> QED
  BY <1>u, <1>3, <1>4, <1>5, <1>6, KeepInstructions, KeepWindows, KeepBlocks,
     KeepFetch DEF IInv

(* What is in a window: without run-ahead issue the head's earlier         *)
(* instructions are complete, or still hold their results.                 *)
LEMMA HeadReady ==
    ASSUME IInv, NEW w \in Wins, NEW k \in 1 .. Len(win[w])
    PROVE  /\ win[w][k] \in Ids /\ win[w][k] \in Elements(win[w])
           /\ stage[win[w][k]] = "DISPATCH" /\ bbWinID[win[w][k]] = w
           /\ k = 1 => \A j \in Ids, r \in Regs :
                j < win[w][k] /\ BB(j) = BB(win[w][k]) /\ r \in Wr(j) /\ ~busy(w, r)
                  => stage[j] = "COMPLETE"
<1> DEFINE i == win[w][k]
<1>1. win[w] \in Seq(Ids) /\ i \in Ids /\ i \in Elements(win[w]) /\ Increasing(win[w])
  <2>1. win[w] \in Seq(Ids) /\ Increasing(win[w])
    BY DEF IInv, TypeOK, WindowContents
  <2>2. i \in Elements(win[w])
    BY DEF Elements
  <2> QED
    BY <2>1, <2>2, ElementsIn
<1>2. stage[i] = "DISPATCH" /\ bbWinID[i] = w
  BY <1>1 DEF IInv, WindowContents
<1>3. ASSUME k = 1, NEW j \in Ids, NEW r \in Regs,
             j < i, BB(j) = BB(i), r \in Wr(j), ~busy(w, r)
      PROVE  stage[j] = "COMPLETE"
  <2>1. i \in Nat /\ j \in Nat /\ Limit \in Nat
    <3>1. Ids \subseteq Nat /\ Len(program) \in Nat
      BY ProgramFacts DEF IInv
    <3>2. nextIns \in Nat /\ squashSN \in Nat
      BY <3>1 DEF IInv, TypeOK
    <3> QED
      BY <1>1, <3>1, <3>2 DEF Limit
  <2>2. stage[j] # "DECODE"
    <3>1. ~(Limit <= i)
      BY <1>1, <1>2 DEF IInv, Dispatched
    <3>2. ~(Limit <= j)
      BY <1>3, <2>1, <3>1
    <3> QED
      BY <3>2 DEF IInv, Dispatched
  <2>3. bbWinID[j] = w
    BY <1>1, <1>2, <1>3, <2>2 DEF IInv, WindowContents
  <2>4. stage[j] # "DISPATCH"
    <3> SUFFICES ASSUME stage[j] = "DISPATCH"
                 PROVE  FALSE
      OBVIOUS
    <3>1. j \in Elements(win[w])
      BY <2>3 DEF IInv, WindowContents
    <3>2. PICK m \in 1 .. Len(win[w]) : win[w][m] = j
      BY <3>1 DEF Elements
    <3>3. m = 1 \/ win[w][1] < win[w][m]
      BY <1>1, <3>2 DEF Increasing
    <3> QED
      BY <1>3, <2>1, <3>2, <3>3
  <2>5. stage[j] # "ISSUE"
    <3> SUFFICES ASSUME stage[j] = "ISSUE"
                 PROVE  FALSE
      OBVIOUS
    <3>1. j \in inFlight
      BY DEF inFlight
    <3>2. busy(bbWinID[j], r)
      BY <1>3, <3>1 DEF IInv, PendingWrites
    <3> QED
      BY <1>3, <2>3, <3>2
  <2>6. stage[j] \in {"DECODE", "DISPATCH", "ISSUE", "COMPLETE"}
    BY DEF IInv, TypeOK
  <2> QED
    BY <2>2, <2>4, <2>5, <2>6
<1> HIDE DEF i
<1>4. k = 1 => \A j \in Ids, r \in Regs :
        j < i /\ BB(j) = BB(i) /\ r \in Wr(j) /\ ~busy(w, r) => stage[j] = "COMPLETE"
  BY <1>3
<1> QED
  BY <1>1, <1>2, <1>4 DEF i

(* The instruction the scan has come to: one of the window, and without    *)
(* run-ahead issue its head.                                               *)
LEMMA ExaminedFacts ==
    ASSUME IInv, scanned # NoWin, inReach(scanned)
    PROVE  /\ scanned \in Wins
           /\ \E k \in 1 .. Len(win[scanned]) :
                examined = win[scanned][k] /\ (~runaheadEn => k = 1)
<1>1. scanned \in Wins
  BY DEF IInv, TypeOK
<1>2. /\ win[scanned] \in Seq(Ids) /\ issueIndx[scanned] \in Nat
      /\ issueIndx[scanned] < Len(win[scanned])
  BY <1>1 DEF IInv, TypeOK, inReach
<1>3. issueIndx[scanned] + 1 \in 1 .. Len(win[scanned])
  BY <1>2
<1>4. ~runaheadEn => issueIndx[scanned] + 1 = 1
  BY <1>1 DEF IInv, ScanKnown
<1> QED
  BY <1>1, <1>3, <1>4 DEF examined

(* Looking at operands of instructions in the windows.  Without run-ahead  *)
(* issue only heads are looked at, so what is dropped has been written.    *)
LEMMA LookPreserves ==
    ASSUME IInv, NEW S \in SUBSET Ids, checkOperands(S),
           \A i \in S : \E w \in Wins : \E k \in 1 .. Len(win[w]) :
             i = win[w][k] /\ (~runaheadEn => k = 1)
    PROVE  /\ squashSN = 0 => \A i \in Ids : nextIns <= i => waitList'[i] = Rd(i)
           /\ ~runaheadEn =>
                \A i, j \in Ids : \A r :
                  /\ j < i /\ SameBlock(i, j) /\ stage[i] = "DISPATCH"
                  /\ r \in Elements(Rd(i)) /\ r \notin Elements(waitList'[i])
                  /\ r \in Wr(j)
                  => stage[j] = "COMPLETE"
<1>1. TypeOK
  BY DEF IInv
<1>2. \A i \in S : stage[i] = "DISPATCH"
  BY HeadReady
<1>3. ASSUME squashSN = 0, NEW i \in Ids, nextIns <= i
      PROVE  waitList'[i] = Rd(i)
  <2>1. stage[i] = "DECODE" /\ waitList[i] = Rd(i)
    BY <1>3 DEF IInv, Dispatched, Limit
  <2>2. i \notin S
    BY <1>2, <2>1
  <2> QED
    BY <1>1, <2>1, <2>2, LookFacts
<1>4. ASSUME ~runaheadEn, NEW i \in Ids, NEW j \in Ids, NEW r,
             j < i, SameBlock(i, j), stage[i] = "DISPATCH",
             r \in Elements(Rd(i)), r \notin Elements(waitList'[i]), r \in Wr(j)
      PROVE  stage[j] = "COMPLETE"
  <2>1. CASE r \in Elements(waitList[i])
    <3>1. i \in S /\ ~busy(bbWinID[i], r)
      BY <1>1, <1>4, <2>1, LookFacts
    <3>2. PICK w \in Wins : \E k \in 1 .. Len(win[w]) : i = win[w][k] /\ k = 1
      BY <1>4, <3>1
    <3>3. 1 \in 1 .. Len(win[w]) /\ i = win[w][1]
      BY <3>2
    <3>4. bbWinID[i] = w
      BY <3>3, HeadReady
    <3>5. r \in Regs
      BY <1>1, <1>4, ProgramFacts
    <3> QED
      BY <1>4, <3>1, <3>3, <3>4, <3>5, HeadReady DEF SameBlock
  <2>2. CASE r \notin Elements(waitList[i])
    BY <1>4, <2>2 DEF IInv, LocalValuesHandedOver, DroppedOperandsAreWritten
  <2> QED
    BY <2>1, <2>2
<1> QED
  BY <1>3, <1>4

(* Steps that look at operands and issue nothing preserve the invariant.   *)
LEMMA OnlyLooksPreserves ==
    ASSUME IInv, NEW S \in SUBSET Ids, checkOperands(S), regState' = firstRead(S),
           \A i \in S : \E w \in Wins : \E k \in 1 .. Len(win[w]) :
             i = win[w][k] /\ (~runaheadEn => k = 1),
           UNCHANGED <<program, runaheadEn, nextIns, stage, bbWinID, permit, bbROB,
                       win, availWin, busyWin, onFetch, slot, toScan,
                       squashSN, squashes>>,
           issueIndx' \in [Wins -> Nat], numIssues' \in [Wins -> Nat],
           stallRd' \in [Wins -> SUBSET Regs], stallWr' \in [Wins -> SUBSET Regs],
           stallNow' \in [Wins -> BOOLEAN], stBypassed' \in [Wins -> BOOLEAN],
           bypassNow' \in [Wins -> BOOLEAN],
           turn' \in {turn, "COMMIT"}, scanned' \in {scanned, NoWin},
           ~runaheadEn => \A w \in Wins : issueIndx'[w] = 0
    PROVE  IInv'
<1>p. /\ Ids' = Ids /\ Blocks' = Blocks
      /\ \A i : BB(i)' = BB(i) /\ Rd(i)' = Rd(i) /\ Wr(i)' = Wr(i)
  BY SameProgram
<1>1. TypeOK
  BY DEF IInv
<1>2. /\ waitList' \in [Ids -> Seq(Regs)]
      /\ axesed' \in [Wins -> [Regs -> BOOLEAN]]
      /\ regState' \in [Wins -> [Regs -> {"NO_VAL", "WAIT_ON_WRITE", "DONE_WRITE"}]]
      /\ \A w \in Wins, r \in Regs : busy(w, r)' <=> busy(w, r)
  BY <1>1, LookFacts DEF busy
<1>3. /\ squashSN = 0 => \A i \in Ids : nextIns <= i => waitList'[i] = Rd(i)
      /\ ~runaheadEn =>
           \A i, j \in Ids : \A r :
             /\ j < i /\ SameBlock(i, j) /\ stage[i] = "DISPATCH"
             /\ r \in Elements(Rd(i)) /\ r \notin Elements(waitList'[i])
             /\ r \in Wr(j)
             => stage[j] = "COMPLETE"
  BY LookPreserves
<1>4. TypeOK'
  <2>1. /\ turn' \in {"COMMIT", "EXECUTE", "DISPATCH", "ISSUE", "SCAN", "READINESS"}
        /\ scanned' \in Wins \cup {NoWin}
    BY <1>1 DEF TypeOK
  <2> QED
    BY <1>1, <1>p, <1>2, <2>1 DEF TypeOK, Wins
<1>5. Dispatched'
  BY <1>p, <1>3 DEF IInv, Dispatched, Limit, Wins
<1>6. ScanKnown'
  BY DEF IInv, ScanKnown, Wins
<1>7. PendingWrites'
  BY <1>2, KeepRegisters
<1>8. LocalValuesHandedOver'
  <2>1. LocalReadsFollowWrites => LocalReadsFollowWrites'
    BY <1>p DEF LocalReadsFollowWrites, SameBlock, Started
  <2>2. LocalWritesInOrder => LocalWritesInOrder'
    BY <1>p DEF LocalWritesInOrder, SameBlock, Started
  <2>3. ~runaheadEn => DroppedOperandsAreWritten'
    <3> SUFFICES ASSUME ~runaheadEn, NEW i \in Ids, NEW j \in Ids,
                        j < i, SameBlock(i, j), stage[i] = "DISPATCH",
                        (Elements(Rd(i)) \ Elements(waitList'[i])) \cap Wr(j) # {}
                 PROVE  stage[j] = "COMPLETE"
      BY <1>p DEF DroppedOperandsAreWritten, SameBlock
    <3>1. PICK r : /\ r \in Elements(Rd(i)) /\ r \notin Elements(waitList'[i])
                   /\ r \in Wr(j)
      OBVIOUS
    <3> QED
      BY <1>3, <3>1
  <2> QED
    BY <2>1, <2>2, <2>3 DEF IInv, LocalValuesHandedOver
<1> QED
  BY <1>4, <1>5, <1>6, <1>7, <1>8, KeepWindows, KeepBlocks, KeepFetch, KeepLists DEF IInv

(* Passing over a stalled instruction preserves the invariant.             *)
LEMMA PassOverPreserves ==
    ASSUME IInv, passOver
    PROVE  IInv'
<1> DEFINE i == examined
           w == scanned
<1>u. /\ UNCHANGED <<program, runaheadEn, nextIns, stage, bbWinID, permit, bbROB,
                     win, availWin, busyWin, onFetch, slot, toScan, scanned, turn,
                     squashSN, squashes, numIssues>>
      /\ scanned # NoWin /\ inReach(scanned) /\ runaheadEn
      /\ bypassNow' = [bypassNow EXCEPT ![w] = @ \/ IsLoad(i)]
      /\ stBypassed' = [stBypassed EXCEPT ![w] =
                          IsStore(i) \/ (@ /\ (bypassNow[w] \/ ~IsLoad(i)))]
      /\ checkOperands({i}) /\ regState' = firstRead({i})
      /\ stallNow' = [stallNow EXCEPT ![w] = @ \/ asksConflict(i, w)]
      /\ stallRd' = [stallRd EXCEPT ![w] = @ \cup Elements(stillWaits(i, w))]
      /\ stallWr' = [stallWr EXCEPT ![w] = @ \cup Wr(i)]
      /\ issueIndx' = [issueIndx EXCEPT ![w] = @ + 1]
  BY DEF passOver, askedBypass, runaheadPermit, progVars, winVars, scanVars, squashVars
<1>1. /\ w \in Wins
      /\ \E k \in 1 .. Len(win[w]) : i = win[w][k] /\ (~runaheadEn => k = 1)
  BY <1>u, ExaminedFacts
<1>2. i \in Ids /\ {i} \in SUBSET Ids
  BY <1>1, HeadReady
<1>3. /\ Wr(i) \in SUBSET Regs /\ Elements(stillWaits(i, w)) \in SUBSET Regs
  BY <1>2, ProgramFacts, WaitFacts, ElementsIn DEF IInv
<1> HIDE DEF i, w
<1>4. /\ stallRd' \in [Wins -> SUBSET Regs] /\ stallWr' \in [Wins -> SUBSET Regs]
      /\ issueIndx' \in [Wins -> Nat] /\ numIssues' \in [Wins -> Nat]
  <2>1. /\ stallRd \in [Wins -> SUBSET Regs] /\ stallWr \in [Wins -> SUBSET Regs]
        /\ issueIndx \in [Wins -> Nat] /\ numIssues \in [Wins -> Nat]
    BY DEF IInv, TypeOK
  <2>2. stallRd' \in [Wins -> SUBSET Regs]
    BY <1>u, <1>1, <1>3, <2>1
  <2>3. stallWr' \in [Wins -> SUBSET Regs]
    BY <1>u, <1>1, <1>3, <2>1
  <2>4. issueIndx' \in [Wins -> Nat] /\ numIssues' \in [Wins -> Nat]
    BY <1>u, <1>1, <2>1
  <2> QED
    BY <2>2, <2>3, <2>4
<1>5. /\ stallNow' \in [Wins -> BOOLEAN] /\ stBypassed' \in [Wins -> BOOLEAN]
      /\ bypassNow' \in [Wins -> BOOLEAN]
  <2>1. /\ stallNow \in [Wins -> BOOLEAN] /\ stBypassed \in [Wins -> BOOLEAN]
        /\ bypassNow \in [Wins -> BOOLEAN]
    BY DEF IInv, TypeOK
  <2>2. stallNow' \in [Wins -> BOOLEAN]
    BY <1>u, <2>1, Zenon
  <2>3. bypassNow' \in [Wins -> BOOLEAN]
    BY <1>u, <2>1, Zenon
  <2>4. stBypassed' \in [Wins -> BOOLEAN]
    BY <1>u, <2>1, Zenon
  <2> QED
    BY <2>2, <2>3, <2>4
<1>6. \A j \in {i} : \E v \in Wins : \E k \in 1 .. Len(win[v]) :
        j = win[v][k] /\ (~runaheadEn => k = 1)
  BY <1>1
<1> QED
  BY <1>u, <1>2, <1>4, <1>5, <1>6, OnlyLooksPreserves

(* Leaving a window at a stalled instruction preserves the invariant.      *)
LEMMA StallPreserves ==
    ASSUME IInv, stall
    PROVE  IInv'
<1> DEFINE i == examined
           w == scanned
<1>u. /\ UNCHANGED <<program, runaheadEn, nextIns, stage, bbWinID, permit, bbROB,
                     win, availWin, busyWin, onFetch, slot, toScan, turn,
                     squashSN, squashes, numIssues, issueIndx, stallRd, stallWr>>
      /\ scanned # NoWin /\ inReach(scanned) /\ scanned' = NoWin
      /\ bypassNow' = [bypassNow EXCEPT ![w] = @ \/ IsLoad(i)]
      /\ stBypassed' = [stBypassed EXCEPT ![w] =
                          IsStore(i) \/ (@ /\ (bypassNow[w] \/ ~IsLoad(i)))]
      /\ checkOperands({i}) /\ regState' = firstRead({i})
      /\ stallNow' = [stallNow EXCEPT ![w] = @ \/ asksConflict(i, w)]
  BY DEF stall, askedBypass, progVars, winVars, countVars, squashVars
<1>1. /\ w \in Wins
      /\ \E k \in 1 .. Len(win[w]) : i = win[w][k] /\ (~runaheadEn => k = 1)
  BY <1>u, ExaminedFacts
<1>2. i \in Ids /\ {i} \in SUBSET Ids
  BY <1>1, HeadReady
<1> HIDE DEF i, w
<1>3. /\ stallRd' \in [Wins -> SUBSET Regs] /\ stallWr' \in [Wins -> SUBSET Regs]
      /\ issueIndx' \in [Wins -> Nat] /\ numIssues' \in [Wins -> Nat]
      /\ ~runaheadEn => \A v \in Wins : issueIndx'[v] = 0
  BY <1>u DEF IInv, TypeOK, ScanKnown
<1>4. /\ stallNow' \in [Wins -> BOOLEAN] /\ stBypassed' \in [Wins -> BOOLEAN]
      /\ bypassNow' \in [Wins -> BOOLEAN]
  <2>1. /\ stallNow \in [Wins -> BOOLEAN] /\ stBypassed \in [Wins -> BOOLEAN]
        /\ bypassNow \in [Wins -> BOOLEAN]
    BY DEF IInv, TypeOK
  <2>2. stallNow' \in [Wins -> BOOLEAN]
    BY <1>u, <2>1, Zenon
  <2>3. bypassNow' \in [Wins -> BOOLEAN]
    BY <1>u, <2>1, Zenon
  <2>4. stBypassed' \in [Wins -> BOOLEAN]
    BY <1>u, <2>1, Zenon
  <2> QED
    BY <2>2, <2>3, <2>4
<1>5. \A j \in {i} : \E v \in Wins : \E k \in 1 .. Len(win[v]) :
        j = win[v][k] /\ (~runaheadEn => k = 1)
  BY <1>1
<1> QED
  BY <1>u, <1>2, <1>3, <1>4, <1>5, OnlyLooksPreserves

(* The lesser of two numbers. *)
LEMMA MinFacts ==
    ASSUME NEW a \in Nat, NEW b \in Nat
    PROVE  Min({a, b}) \in Nat /\ Min({a, b}) <= a /\ Min({a, b}) <= b
<1> DEFINE S == {a, b}
<1>1. S \in SUBSET Nat /\ S # {} /\ a \in S /\ b \in S
  OBVIOUS
<1> HIDE DEF S
<1>2. Min(S) = CHOOSE x \in S : \A y \in S : x <= y
  BY DEF Min
<1>3. PICK n \in S : \A m \in S : n <= m
  BY <1>1, LeastNat
<1>4. Min(S) \in S /\ \A y \in S : Min(S) <= y
  BY <1>2, <1>3
<1>5. Min(S) \in Nat /\ Min(S) <= a /\ Min(S) <= b
  BY <1>1, <1>4
<1> QED
  BY <1>5 DEF S

(* The end of the cycle preserves the invariant.                           *)
LEMMA ReadinessPreserves ==
    ASSUME IInv, updateReadinessForAll
    PROVE  IInv'
<1> DEFINE tried(w) == IF numIssues[w] + issueIndx[w] < Cnt
                       THEN {win[w][n] : n \in issueIndx[w] + 1 ..
                                               Min({Cnt, Len(win[w])})}
                       ELSE {}
           all == UNION {tried(w) : w \in busyWin}
<1>u. /\ UNCHANGED <<program, runaheadEn, nextIns, stage, bbWinID, permit, bbROB,
                     win, availWin, busyWin, onFetch, slot, toScan, scanned,
                     squashSN, squashes, stallRd, stallWr, stBypassed>>
      /\ checkOperands(all) /\ regState' = firstRead(all)
      /\ issueIndx' = [w \in Wins |-> 0] /\ numIssues' = [w \in Wins |-> 0]
      /\ stallNow' = [w \in Wins |-> FALSE] /\ bypassNow' = [w \in Wins |-> FALSE]
      /\ turn' = "COMMIT"
  BY Zenon DEF updateReadinessForAll, progVars, winVars, scanVars, squashVars
<1>1. ASSUME NEW i \in all
      PROVE  \E w \in Wins : \E k \in 1 .. Len(win[w]) :
               i = win[w][k] /\ (~runaheadEn => k = 1)
  <2>1. PICK w \in busyWin : i \in tried(w)
    OBVIOUS
  <2>2. /\ w \in Wins /\ Len(win[w]) \in Nat /\ issueIndx[w] \in Nat
        /\ ~runaheadEn => issueIndx[w] = 0
        /\ Cnt \in Nat \ {0}
        /\ ~runaheadEn => Cnt = 1
    <3>1. RunaheadCnt \in Nat \ {0}
      BY BBWindowAssumption
    <3>2. w \in Wins /\ win[w] \in Seq(Ids)
      BY DEF IInv, TypeOK
    <3> QED
      BY <3>1, <3>2 DEF IInv, TypeOK, ScanKnown, Cnt
  <2>3. Min({Cnt, Len(win[w])}) <= Cnt /\ Min({Cnt, Len(win[w])}) <= Len(win[w])
        /\ Min({Cnt, Len(win[w])}) \in Nat
    BY <2>2, MinFacts
  <2>4. PICK n \in issueIndx[w] + 1 .. Min({Cnt, Len(win[w])}) : i = win[w][n]
    BY <2>1
  <2>5. n \in 1 .. Len(win[w]) /\ (~runaheadEn => n = 1)
    <3>1. PICK m \in Nat : m = Min({Cnt, Len(win[w])}) /\ m <= Cnt /\ m <= Len(win[w])
      BY <2>3
    <3>2. n \in issueIndx[w] + 1 .. m
      BY <3>1
    <3> QED
      BY <2>2, <3>1, <3>2
  <2> QED
    BY <2>2, <2>4, <2>5
<1> HIDE DEF all
<1>2. all \in SUBSET Ids
  BY <1>1, HeadReady
<1>3. /\ issueIndx' \in [Wins -> Nat] /\ numIssues' \in [Wins -> Nat]
      /\ \A w \in Wins : issueIndx'[w] = 0
      /\ stallRd' \in [Wins -> SUBSET Regs] /\ stallWr' \in [Wins -> SUBSET Regs]
      /\ stBypassed' \in [Wins -> BOOLEAN]
  BY <1>u DEF IInv, TypeOK
<1>4. stallNow' \in [Wins -> BOOLEAN] /\ bypassNow' \in [Wins -> BOOLEAN]
  BY <1>u
<1> QED
  BY <1>u, <1>1, <1>2, <1>3, <1>4, OnlyLooksPreserves

(* Issue preserves the invariant: every register it writes is free, so     *)
(* that it is the only one in flight to write them; and without run-ahead  *)
(* issue every register it reads is free, so that what the block writes to *)
(* it before has been written.                                             *)
LEMMA IssuePreserves ==
    ASSUME IInv, issue
    PROVE  IInv'
<1> DEFINE i == examined
           w == scanned
<1>u. /\ UNCHANGED <<program, runaheadEn, nextIns, bbWinID, permit, bbROB,
                     availWin, busyWin, onFetch, issueIndx, squashSN, squashes>>
      /\ scanned # NoWin /\ inReach(scanned) /\ turn = "SCAN"
      /\ mayIssue(i, w)
      /\ bypassNow' = [bypassNow EXCEPT ![w] = @ \/ IsLoad(i)]
      /\ stBypassed' = [stBypassed EXCEPT ![w] =
                          IsStore(i) \/ (@ /\ (bypassNow[w] \/ ~IsLoad(i)))]
      /\ checkOperands({i}) /\ regState' = reserveRF(i, w, firstRead({i}))
      /\ stallNow' = [stallNow EXCEPT ![w] = TRUE]
      /\ stallRd' = [stallRd EXCEPT ![w] = IF cleared(i, w) THEN {} ELSE @]
      /\ stallWr' = [stallWr EXCEPT ![w] = IF cleared(i, w) THEN {} ELSE @]
      /\ numIssues' = [numIssues EXCEPT ![w] = @ + 1]
      /\ win' = [win EXCEPT ![w] = Filter(@, Ids \ {i})]
      /\ stage' = [stage EXCEPT ![i] = "ISSUE"]
      /\ slot' = slot + 1 /\ turn' = "ISSUE"
      /\ scanned' = NoWin /\ toScan' = {}
  BY DEF issue, askedBypass, squashVars
<1>p. /\ Ids' = Ids /\ Blocks' = Blocks
      /\ \A k : BB(k)' = BB(k) /\ Rd(k)' = Rd(k) /\ Wr(k)' = Wr(k)
  BY <1>u, SameProgram
<1>v. /\ UNCHANGED <<program, runaheadEn, nextIns, bbWinID, permit, bbROB,
                     availWin, busyWin, onFetch, issueIndx, squashSN, squashes>>
      /\ turn' = "ISSUE" /\ scanned' = NoWin /\ toScan' = {}
  BY <1>u
<1>t. TypeOK
  BY DEF IInv
<1>1. PICK k \in 1 .. Len(win[w]) : i = win[w][k] /\ (~runaheadEn => k = 1)
  BY <1>u, ExaminedFacts
<1>2. /\ w \in Wins /\ i \in Ids /\ {i} \in SUBSET Ids /\ i \in Elements(win[w])
      /\ stage[i] = "DISPATCH" /\ bbWinID[i] = w
      /\ ~runaheadEn => \A j \in Ids, r \in Regs :
           j < i /\ BB(j) = BB(i) /\ r \in Wr(j) /\ ~busy(w, r)
             => stage[j] = "COMPLETE"
  <2>1. w \in Wins
    BY <1>u, ExaminedFacts
  <2> QED
    BY <1>1, <2>1, HeadReady
<1>3. /\ \A r \in Elements(waitList[i]) : ~busy(w, r)
      /\ \A r \in Wr(i) : ~busy(w, r)
  <2>1. lastBusy(i, w) = 0 /\ canReserveRF(i, w)
    BY <1>u DEF mayIssue, asksConflict, isReady
  <2> HIDE DEF i, w
  <2> QED
    BY <1>t, <1>2, <2>1, WaitFacts DEF canReserveRF
<1>4. \A j \in {i} : \E v \in Wins : \E m \in 1 .. Len(win[v]) :
        j = win[v][m] /\ (~runaheadEn => m = 1)
  BY <1>1, <1>2
<1> HIDE DEF i, w
<1>5. /\ \A j \in Ids : stage'[j] = IF j = i THEN "ISSUE" ELSE stage[j]
      /\ stage' \in [Ids -> {"DECODE", "DISPATCH", "ISSUE", "COMPLETE"}]
  BY <1>u, <1>2 DEF IInv, TypeOK
<1>6. /\ waitList' \in [Ids -> Seq(Regs)]
      /\ axesed' \in [Wins -> [Regs -> BOOLEAN]]
      /\ firstRead({i}) \in [Wins -> [Regs -> {"NO_VAL", "WAIT_ON_WRITE", "DONE_WRITE"}]]
      /\ \A v \in Wins, r \in Regs : firstRead({i})[v][r] = "WAIT_ON_WRITE" <=> busy(v, r)
      /\ \A j \in Ids : j # i => waitList'[j] = waitList[j]
  BY <1>u, <1>t, <1>2, LookFacts
<1>7. /\ squashSN = 0 => \A j \in Ids : nextIns <= j => waitList'[j] = Rd(j)
      /\ ~runaheadEn =>
           \A j, m \in Ids : \A r :
             /\ m < j /\ SameBlock(j, m) /\ stage[j] = "DISPATCH"
             /\ r \in Elements(Rd(j)) /\ r \notin Elements(waitList'[j])
             /\ r \in Wr(m)
             => stage[m] = "COMPLETE"
  BY <1>u, <1>2, <1>4, LookPreserves
<1>8. /\ regState' \in [Wins -> [Regs -> {"NO_VAL", "WAIT_ON_WRITE", "DONE_WRITE"}]]
      /\ \A v \in Wins, r \in Regs : busy(v, r)' <=> busy(v, r) \/ (v = w /\ r \in Wr(i))
  <2> DEFINE table == firstRead({i})
  <2>1. regState' = [table EXCEPT ![w] = [r \in Regs |->
                       IF r \in Wr(i) THEN "WAIT_ON_WRITE" ELSE table[w][r]]]
    BY <1>u DEF reserveRF
  <2>2. /\ table \in [Wins -> [Regs -> {"NO_VAL", "WAIT_ON_WRITE", "DONE_WRITE"}]]
        /\ \A v \in Wins, r \in Regs : table[v][r] = "WAIT_ON_WRITE" <=> busy(v, r)
    BY <1>6
  <2> HIDE DEF table
  <2>3. \A v \in Wins, r \in Regs :
          regState'[v][r] = IF v = w /\ r \in Wr(i) THEN "WAIT_ON_WRITE" ELSE table[v][r]
    BY <1>2, <2>1, <2>2
  <2>4. regState' \in [Wins -> [Regs -> {"NO_VAL", "WAIT_ON_WRITE", "DONE_WRITE"}]]
    BY <1>2, <2>1, <2>2
  <2> QED
    BY <2>2, <2>3, <2>4 DEF busy
<1>9. /\ win' \in [Wins -> Seq(Ids)]
      /\ \A v \in Wins : /\ Len(win'[v]) <= WinSize /\ Increasing(win'[v])
                         /\ Elements(win'[v]) = Elements(win[v]) \ {j \in {i} : v = w}
      /\ \A v \in Wins : v # w => win'[v] = win[v]
  <2>1. /\ win \in [Wins -> Seq(Ids)]
        /\ \A v \in Wins : Len(win[v]) <= WinSize /\ Increasing(win[v])
        /\ Ids \in SUBSET Nat /\ WinSize \in Nat
    BY <1>t, ProgramFacts, BBWindowAssumption DEF IInv, TypeOK, WindowContents
  <2> DEFINE S == Ids \ {i}
             q == Filter(win[w], S)
  <2>2. /\ win' = [win EXCEPT ![w] = q]
        /\ \A v \in Wins : win'[v] = IF v = w THEN q ELSE win[v]
    BY <1>u, <1>2, <2>1
  <2>3. /\ q \in Seq(Ids) /\ Elements(q) = Elements(win[w]) \cap S
        /\ Len(q) <= Len(win[w]) /\ Increasing(q)
    <3>1. win[w] \in Seq(Ids) /\ Increasing(win[w])
      BY <1>2, <2>1
    <3> HIDE DEF S
    <3> QED
      BY <2>1, <3>1, FilterElements, FilterIncreasing
  <2>4. /\ Elements(win[w]) \subseteq Ids /\ Len(win[w]) \in Nat /\ Len(win[w]) <= WinSize
    BY <1>2, <2>1, ElementsIn
  <2>5. Elements(q) = Elements(win[w]) \ {i}
    BY <2>3, <2>4
  <2> HIDE DEF q
  <2>6. Len(q) <= WinSize
    BY <2>1, <2>3, <2>4
  <2>7. win' \in [Wins -> Seq(Ids)]
    BY <2>1, <2>2, <2>3
  <2>8. ASSUME NEW v \in Wins
        PROVE  /\ Len(win'[v]) <= WinSize /\ Increasing(win'[v])
               /\ Elements(win'[v]) = Elements(win[v]) \ {j \in {i} : v = w}
               /\ v # w => win'[v] = win[v]
    BY <2>1, <2>2, <2>3, <2>5, <2>6
  <2> QED
    BY <2>7, <2>8
<1>10. TypeOK'
  <2>1. slot' \in 0 .. StageWidth
    <3>1. slot \in Nat /\ slot < StageWidth /\ StageWidth \in Nat
      BY <1>u, BBWindowAssumption DEF IInv, TypeOK, ScanKnown
    <3> QED
      BY <1>u, <3>1
  <2>2. numIssues' \in [Wins -> Nat]
    <3>1. numIssues \in [Wins -> Nat]
      BY DEF IInv, TypeOK
    <3> QED
      BY <1>u, <1>2, <3>1
  <2>3. stallRd' \in [Wins -> SUBSET Regs] /\ stallWr' \in [Wins -> SUBSET Regs]
    <3> HIDE DEF cleared
    <3> QED
      BY <1>u, <1>2 DEF IInv, TypeOK
  <2>4. stallNow' \in [Wins -> BOOLEAN]
    BY <1>u, <1>2 DEF IInv, TypeOK
  <2>5. bypassNow' \in [Wins -> BOOLEAN]
    <3>1. bypassNow \in [Wins -> BOOLEAN]
      BY DEF IInv, TypeOK
    <3> QED
      BY <1>u, <3>1, Zenon
  <2>6. stBypassed' \in [Wins -> BOOLEAN]
    <3>1. stBypassed \in [Wins -> BOOLEAN]
      BY DEF IInv, TypeOK
    <3> QED
      BY <1>u, <3>1, Zenon
  <2>7. /\ program' \in Programs /\ runaheadEn' \in RunaheadModes
        /\ nextIns' \in 1 .. Len(program') + 1
        /\ bbWinID' \in [Ids -> Wins \cup {NoWin}]
        /\ permit' \in [Blocks -> BOOLEAN]
        /\ bbROB' \in Seq(Blocks) /\ Len(bbROB') <= RobSize
        /\ availWin' \in Seq(Wins) /\ busyWin' \subseteq Wins
        /\ onFetch' \in Wins \cup {NoWin}
        /\ issueIndx' \in [Wins -> Nat]
        /\ squashSN' \in Ids \cup {0} /\ squashes' \in 0 .. MaxSquash
    BY <1>v, <1>t DEF TypeOK
  <2>8. /\ turn' \in {"COMMIT", "EXECUTE", "DISPATCH", "ISSUE", "SCAN", "READINESS"}
        /\ toScan' \subseteq Wins /\ scanned' \in Wins \cup {NoWin}
    BY <1>v
  <2> QED
    BY <1>p, <1>5, <1>6, <1>8, <1>9, <2>1, <2>2, <2>3, <2>4, <2>5, <2>6, <2>7, <2>8
    DEF TypeOK, Wins, NoWin
<1>11. Dispatched'
  <2>1. \A j \in Ids : stage'[j] = "DECODE" <=> stage[j] = "DECODE"
    BY <1>2, <1>5
  <2> QED
    BY <1>u, <1>p, <1>7, <2>1 DEF IInv, Dispatched, Limit, Wins
<1>12. WindowContents'
  <2>1. ASSUME NEW v \in Wins, NEW j \in Ids
        PROVE  j \in Elements(win'[v]) <=> stage'[j] = "DISPATCH" /\ bbWinID[j] = v
    <3>1. j \in Elements(win[v]) <=> stage[j] = "DISPATCH" /\ bbWinID[j] = v
      BY DEF IInv, WindowContents
    <3> QED
      BY <1>2, <1>5, <1>9, <3>1
  <2>2. \A j, m \in Ids :
          stage'[j] # "DECODE" /\ stage'[m] # "DECODE" /\ BB(j) = BB(m)
            => bbWinID[j] = bbWinID[m]
    BY <1>2, <1>5 DEF IInv, WindowContents
  <2>3. \A v \in Wins : \A j, m \in Elements(win'[v]) : BB(j) = BB(m)
    BY <1>9 DEF IInv, WindowContents
  <2> QED
    BY <1>v, <1>p, <1>9, <2>1, <2>2, <2>3 DEF WindowContents, Wins
<1>13. BlocksInFlight'
  BY <1>u, <1>p, <1>2, <1>5 DEF IInv, BlocksInFlight, Increasing
<1>14. OnFetch'
  <2>1. \A j \in Ids : stage'[j] # "DECODE" <=> stage[j] # "DECODE"
    BY <1>2, <1>5
  <2>2. onFetch # NoWin => Elements(win'[onFetch]) \subseteq Elements(win[onFetch])
    BY <1>9 DEF IInv, TypeOK
  <2> HIDE DEF Last
  <2>3. Last(bbROB)' = Last(bbROB) /\ Elements(bbROB)' = Elements(bbROB)
    BY <1>u
  <2> QED
    BY <1>u, <1>p, <2>1, <2>2, <2>3 DEF IInv, OnFetch, NoWin
<1>15. WindowLists'
  <2>1. w \notin Elements(availWin)
    <3>1. win[w] # << >>
      BY <1>2, EmptyQueue
    <3> QED
      BY <3>1 DEF IInv, WindowLists
  <2>2. \A v \in Elements(availWin) : win'[v] = << >>
    BY <1>9, <2>1 DEF IInv, WindowLists
  <2> QED
    BY <1>u, <2>2 DEF IInv, WindowLists, Wins, NoWin
<1>16. PendingWrites'
  <2>1. inFlight' = inFlight \cup {i} /\ i \notin inFlight
    BY <1>p, <1>2, <1>5 DEF inFlight
  <2>2. ASSUME NEW j \in inFlight \cup {i}, NEW r \in Wr(j)
        PROVE  busy(bbWinID[j], r)'
    <3>1. j \in Ids /\ bbWinID[j] \in Wins /\ r \in Regs
      BY <1>t, <1>2, ProgramFacts DEF IInv, inFlight, Dispatched
    <3>2. j \in inFlight => busy(bbWinID[j], r)
      BY DEF IInv, PendingWrites
    <3>3. \A v \in Wins : v = bbWinID[j] => busy(v, r)'
      BY <1>2, <1>8, <3>1, <3>2
    <3> QED
      BY <1>u, <3>1, <3>3 DEF busy
  <2>3. ASSUME NEW j \in inFlight \cup {i}, NEW m \in inFlight \cup {i},
               j # m, bbWinID[j] = bbWinID[m]
        PROVE  Wr(j) \cap Wr(m) = {}
    <3>1. \A h \in inFlight : bbWinID[h] = w => \A r \in Wr(h) : busy(w, r)
      BY DEF IInv, PendingWrites
    <3>2. \A h \in inFlight : bbWinID[h] = w => Wr(h) \cap Wr(i) = {}
      BY <1>3, <3>1
    <3>3. j \in inFlight /\ m \in inFlight => Wr(j) \cap Wr(m) = {}
      BY <2>3 DEF IInv, PendingWrites
    <3> QED
      BY <1>2, <2>3, <3>2, <3>3
  <2>4. ASSUME squashSN = 0, NEW v \in Wins, NEW r \in Regs, busy(v, r)'
        PROVE  \E j \in inFlight \cup {i} : bbWinID[j] = v /\ r \in Wr(j)
    <3>1. busy(v, r) \/ (v = w /\ r \in Wr(i))
      BY <1>8, <2>4
    <3>2. busy(v, r) => \E j \in inFlight : bbWinID[j] = v /\ r \in Wr(j)
      BY <2>4 DEF IInv, PendingWrites
    <3> QED
      BY <1>2, <3>1, <3>2
  <2> HIDE DEF busy
  <2> QED
    BY <1>u, <1>p, <2>1, <2>2, <2>3, <2>4 DEF PendingWrites, Wins
<1>17. ScanKnown'
  BY <1>u DEF IInv, ScanKnown, Wins
<1>18. LocalValuesHandedOver'
  <2> SUFFICES ASSUME ~runaheadEn
               PROVE  LocalReadsFollowWrites' /\ LocalWritesInOrder'
                      /\ DroppedOperandsAreWritten'
    BY <1>u DEF LocalValuesHandedOver
  <2>1. LocalReadsFollowWrites /\ LocalWritesInOrder /\ DroppedOperandsAreWritten
    BY DEF IInv, LocalValuesHandedOver
  <2>2. \A j \in Ids : /\ Started(j)' <=> j = i \/ Started(j)
                       /\ stage[j] = "COMPLETE" => stage'[j] = "COMPLETE"
                       /\ stage'[j] = "DISPATCH" => stage[j] = "DISPATCH"
    BY <1>2, <1>5 DEF Started
  <2>3. ASSUME NEW j \in Ids, j < i, SameBlock(i, j),
               Elements(Rd(i)) \cap Wr(j) # {} \/ Wr(i) \cap Wr(j) # {}
        PROVE  stage[j] = "COMPLETE"
    <3>1. PICK r : /\ r \in Wr(j)
                   /\ r \in Wr(i) \/ r \in Elements(Rd(i))
      BY <2>3
    <3>2. r \in Regs /\ BB(j) = BB(i)
      BY <1>t, <2>3, <3>1, ProgramFacts DEF SameBlock
    <3>3. CASE r \in Wr(i) \/ r \in Elements(waitList[i])
      <4>1. ~busy(w, r)
        BY <1>3, <3>3
      <4> QED
        BY <1>2, <2>3, <3>1, <3>2, <4>1
    <3>4. CASE r \in Elements(Rd(i)) /\ r \notin Elements(waitList[i])
      BY <1>2, <2>1, <2>3, <3>1, <3>4 DEF DroppedOperandsAreWritten
    <3> QED
      BY <3>1, <3>3, <3>4
  <2>4. LocalReadsFollowWrites'
    <3> SUFFICES ASSUME NEW h \in Ids, NEW j \in Ids, j < h, SameBlock(h, j), Started(h)',
                        Elements(Rd(h)) \cap Wr(j) # {}
                 PROVE  stage'[j] = "COMPLETE"
      BY <1>p DEF LocalReadsFollowWrites, SameBlock
    <3>1. h # i => stage[j] = "COMPLETE"
      BY <2>1, <2>2 DEF LocalReadsFollowWrites
    <3> QED
      BY <2>2, <2>3, <3>1
  <2>5. LocalWritesInOrder'
    <3> SUFFICES ASSUME NEW h \in Ids, NEW j \in Ids, j < h, SameBlock(h, j), Started(h)',
                        Wr(h) \cap Wr(j) # {}
                 PROVE  stage'[j] = "COMPLETE"
      BY <1>p DEF LocalWritesInOrder, SameBlock
    <3>1. h # i => stage[j] = "COMPLETE"
      BY <2>1, <2>2 DEF LocalWritesInOrder
    <3> QED
      BY <2>2, <2>3, <3>1
  <2>6. DroppedOperandsAreWritten'
    <3> SUFFICES ASSUME NEW h \in Ids, NEW j \in Ids, j < h, SameBlock(h, j),
                        stage'[h] = "DISPATCH",
                        (Elements(Rd(h)) \ Elements(waitList'[h])) \cap Wr(j) # {}
                 PROVE  stage'[j] = "COMPLETE"
      BY <1>p DEF DroppedOperandsAreWritten, SameBlock
    <3>1. PICK r : /\ r \in Elements(Rd(h)) /\ r \notin Elements(waitList'[h])
                   /\ r \in Wr(j)
      OBVIOUS
    <3>2. stage[j] = "COMPLETE"
      BY <1>7, <2>2, <3>1
    <3> QED
      BY <2>2, <3>2
  <2> QED
    BY <2>4, <2>5, <2>6
<1> QED
  BY <1>10, <1>11, <1>12, <1>13, <1>14, <1>15, <1>16, <1>17, <1>18 DEF IInv

-----------------------------------------------------------------------------
(* Every step of the windows preserves the invariant.                      *)
LEMMA Inductive == Spec => []IInv
<1>1. Init => IInv
  BY InitHolds
<1>2. IInv /\ [Next]_vars => IInv'
  <2> SUFFICES ASSUME IInv, [Next]_vars
               PROVE  IInv'
    OBVIOUS
  <2>1. CASE Next
    BY <2>1, CommitPreserves, MovesOnPreserves, CompletePreserves, SquashPreserves,
       SquashROBPreserves, NewBlockPreserves, WritePreserves, BeginSlotPreserves,
       PassOverPreserves, StallPreserves, IssuePreserves, ReadinessPreserves
    DEF Next
  <2>2. CASE UNCHANGED vars
    <3>1. UNCHANGED <<program, runaheadEn, nextIns, stage, bbWinID, permit, bbROB,
                      win, availWin, busyWin, onFetch, issueIndx, numIssues,
                      stallRd, stallWr, stallNow, stBypassed, bypassNow,
                      waitList, regState, axesed, turn, slot, toScan, scanned,
                      squashSN, squashes>>
      BY <2>2 DEF vars, progVars, winVars, countVars, stallVars, regVars, scanVars,
                  squashVars
    <3>2. Ids' = Ids /\ Blocks' = Blocks
      BY <3>1, SameProgram
    <3>3. TypeOK'
      BY <3>1, <3>2 DEF IInv, TypeOK, Wins
    <3>4. ScanKnown'
      BY <3>1 DEF IInv, ScanKnown, Wins
    <3>5. PendingWrites'
      BY <3>1, KeepRegisters DEF busy
    <3> QED
      BY <3>1, <3>3, <3>4, <3>5, KeepInstructions, KeepWindows, KeepBlocks,
         KeepFetch, KeepLists DEF IInv
  <2> QED
    BY <2>1, <2>2
<1> QED
  BY <1>1, <1>2, PTL DEF Spec

(* Windows are never lost or shared, whatever the order of dispatch,       *)
(* issue, flush and restart: each is available or busy, one in use holds   *)
(* instructions of one block in order, and an instruction of a block that  *)
(* is in bbROB finds its window on fetch (updatebbWindows,                 *)
(* manageBusyBBWin, bb_scheduler::squash).                                 *)
THEOREM WindowsAreConsistent == Spec => []WindowsConsistent
<1>1. IInv => WindowsConsistent
  <2> SUFFICES ASSUME IInv
               PROVE  WindowsConsistent
    OBVIOUS
  <2>1. TypeOK
    BY DEF IInv
  <2>2. WindowsPartitioned
    <3>1. availWin \in Seq(Wins) /\ Distinct(availWin)
      BY DEF IInv, TypeOK, WindowLists
    <3>2. Len(availWin) = Cardinality(Elements(availWin))
      BY <3>1, CountElements
    <3> QED
      BY <3>2 DEF IInv, WindowLists, WindowsPartitioned
  <2>3. ASSUME NEW w \in Wins, NEW m \in 1 .. Len(win[w]), NEW n \in 1 .. Len(win[w])
        PROVE  /\ BB(win[w][m]) = BB(win[w][n])
               /\ m < n => win[w][m] < win[w][n]
    <3>1. win[w][m] \in Elements(win[w]) /\ win[w][n] \in Elements(win[w])
      BY DEF Elements
    <3> QED
      BY <3>1 DEF IInv, WindowContents, Increasing
  <2>4. ASSUME NEW v \in Wins, NEW w \in Wins, v # w, win[v] # << >>, win[w] # << >>
        PROVE  BB(Head(win[v])) # BB(Head(win[w]))
    <3>1. \A u \in {v, w} : /\ Head(win[u]) = win[u][1]
                            /\ 1 \in 1 .. Len(win[u])
      BY <2>1, <2>4 DEF TypeOK
    <3>2. \A u \in {v, w} : /\ Head(win[u]) \in Ids
                            /\ stage[Head(win[u])] = "DISPATCH"
                            /\ bbWinID[Head(win[u])] = u
      BY <3>1, HeadReady
    <3> QED
      BY <2>4, <3>2 DEF IInv, WindowContents
  <2>5. OneBlockPerWindow
    BY <2>3, <2>4 DEF OneBlockPerWindow
  <2>6. BlockOnFetchHasWindow
    BY DEF BlockOnFetchHasWindow, detectNewBB, IInv, OnFetch
  <2> QED
    BY <2>1, <2>2, <2>5, <2>6 DEF WindowsConsistent
<1> QED
  BY <1>1, Inductive, PTL

(* A local register is busy exactly while one issued instruction is to     *)
(* write it, also when a window is reused with writes pending and after a  *)
(* recovery (reserveReg, updateReg, resetRF).                              *)
THEOREM LocalRegistersAreExact == Spec => []BusyRegistersExact
<1>1. IInv => BusyRegistersExact
  <2> SUFFICES ASSUME IInv, squashSN = 0, NEW w \in Wins, NEW r \in Regs
               PROVE  Cardinality({i \in inFlight : bbWinID[i] = w /\ r \in Wr(i)})
                        = IF busy(w, r) THEN 1 ELSE 0
    BY DEF BusyRegistersExact
  <2> DEFINE S == {i \in inFlight : bbWinID[i] = w /\ r \in Wr(i)}
  <2>1. \A i, j \in S : i = j
    BY DEF IInv, PendingWrites
  <2>2. busy(w, r) <=> S # {}
    BY DEF IInv, PendingWrites
  <2> HIDE DEF S
  <2>3. CASE busy(w, r)
    <3>1. PICK i \in S : TRUE
      BY <2>2, <2>3
    <3>2. S = {i}
      BY <2>1, <3>1
    <3>3. Cardinality(S) = 1
      BY <3>2, FS_Singleton
    <3> QED
      BY <2>3, <3>3 DEF S
  <2>4. CASE ~busy(w, r)
    <3>1. Cardinality(S) = 0
      BY <2>2, <2>4, FS_EmptySet
    <3> QED
      BY <2>4, <3>1 DEF S
  <2> QED
    BY <2>3, <2>4
<1> QED
  BY <1>1, Inductive, PTL

(* Without run-ahead issue the busy states alone hand a block's local      *)
(* values from writer to reader and from writer to writer (canReserveRF,   *)
(* reserveRF, writeToRF).                                                  *)
THEOREM LocalValuesAreHandedOver == Spec => []LocalValuesHandedOver
<1>1. IInv => LocalValuesHandedOver
  BY DEF IInv
<1> QED
  BY <1>1, Inductive, PTL
=============================================================================
