------------------------------ MODULE InoCore ------------------------------
(***************************************************************************)
(* The in-order pipeline of sysCore::runCore.  Instructions are issued in  *)
(* order against a scoreboard of busy registers and pass units and a       *)
(* memory buffer; the squash state machine is that of the out-of-order     *)
(* core, except that a culprit is looked for only in the normal state.     *)
(*                                                                         *)
(* A cycle runs the stages in the order of runCore, one action each.       *)
(* Stages do any amount their guards allow, but write-back does not: every *)
(* unit takes one cycle (exeUnitLat), so what holds an instruction back in *)
(* its unit is a full memory port or the write wires of the register file, *)
(* and both are counted.  Operand forwarding is disabled.                  *)
(***************************************************************************)
EXTENDS Integers, Sequences, FiniteSets, FiniteSetsExt, Queues

CONSTANTS
    Programs,       \* the programs the frontend may trace
    Width,          \* stage width, and number of execution units
    MemWidth,       \* width of the memory stage
    PortLen,        \* entries of a port between other stages
    MemPortLen,     \* entries of the port from execution to memory
    WinSize,        \* entries of the instruction window
    RobSize,        \* entries of iROB
    MemBuffLen,     \* entries of the memory buffer
    WrWires         \* write wires of the register file

(* Registers are numbers; an instruction writes a few of them. *)
ASSUME ProgramsAssumption ==
    /\ Programs \subseteq Seq([op : {"ALU", "LOAD", "STORE"}, rd : SUBSET Nat,
                               wr : SUBSET Nat, wrongPath : BOOLEAN])
    /\ \A p \in Programs : \A i \in 1 .. Len(p) : IsFiniteSet(p[i].wr)

ASSUME SizesAssumption ==
    {Width, MemWidth, PortLen, MemPortLen, WinSize, RobSize, MemBuffLen, WrWires}
      \subseteq Nat \ {0}

VARIABLES
    program,        \* the traced instructions
    supplied,       \* how many of them the frontend has handed over
    turn,           \* the stage that runs next
    codeCache,      \* g_codeCache: handed over, not fetched
    iQUE,           \* fetched, neither committed nor squashed
    fetchPort,      \* fetch to decode
    decodePort,     \* decode to scheduler
    iWindow,        \* dispatched, not issued
    issuePort,      \* scheduler to execution
    EU,             \* the instruction in each execution unit, or NoIns
    memPort,        \* execution to memory
    memBuff,        \* memory accesses under way
    iROB,
    stage,          \* the pipeline stage of every instruction
    busy,           \* the registers in WAIT_ON_WRITE_REG
    wires,          \* write wires of the register file left in this cycle
    pipe,           \* g_pipe_state
    squashSN,       \* g_squash_seq_num, 0 when there is none
    retired,        \* committed instructions, in commit order
    deleted         \* instructions destroyed by a squash

frontVars  == <<program, supplied, codeCache>>
memVars    == <<memPort, memBuff>>
backQueues == <<iWindow, issuePort, EU, iROB>>
queues     == <<iQUE, fetchPort, decodePort, backQueues, memVars>>
squashVars == <<pipe, squashSN>>
history    == <<retired, deleted>>
work == <<frontVars, queues, stage, busy, wires, squashVars, history>>
vars == <<turn, work>>

NoIns == 0
Ids == 1 .. Len(program)
Op(i) == program[i].op                \* "ALU", "LOAD" or "STORE"
rd(i) == program[i].rd
wr(i) == program[i].wr
WrongPath(i) == program[i].wrongPath
Regs == UNION {rd(i) \cup wr(i) : i \in Ids}

Stages == {"NO_STAGE", "FETCH", "DECODE", "DISPATCH", "ISSUE", "EXECUTE",
           "MEM_ACCESS", "COMPLETE"}

TypeOK ==
    /\ program \in Programs
    /\ supplied \in 0 .. Len(program)
    /\ turn \in {"COMMIT", "MEMORY", "EXECUTE", "SQUASH", "SCHEDULE", "DECODE",
                 "FETCH", "FRONTEND", "HALT"}
    /\ \A q \in {codeCache, iQUE, fetchPort, decodePort, iWindow, issuePort,
                 memPort, memBuff, iROB, retired} : q \in Seq(Ids)
    /\ EU \in [1 .. Width -> Ids \cup {NoIns}]
    /\ stage \in [Ids -> Stages]
    /\ busy \subseteq Regs
    /\ wires \in 0 .. WrWires
    /\ pipe \in {"NORMAL", "WAIT_FLUSH", "FLUSH", "DRAIN", "SQUASH_ROB"}
    /\ squashSN \in Ids \cup {0}
    /\ deleted \subseteq Ids
    /\ \A q \in {fetchPort, decodePort, issuePort} : Len(q) <= PortLen
    /\ Len(memPort) <= MemPortLen /\ Len(memBuff) <= MemBuffLen
    /\ Len(iWindow) <= WinSize /\ Len(iROB) <= RobSize

-----------------------------------------------------------------------------
(* Entries are taken from the back while they are sn or younger. *)
FlushBack(q, sn) == Take(q, Max({0} \cup {n \in 1 .. Len(q) : q[n] < sn}))

(* The instructions in S have reached a stage, the others are as in table. *)
AtStage(S, s, table) == [i \in DOMAIN table |-> IF i \in S THEN s ELSE table[i]]

(* The registers that the instructions in S write. *)
writtenBy(S) == UNION {wr(i) : i \in S}

(* The write wires that those of list q take. *)
NumWrAR(q) ==
    LET upTo[n \in 0 .. Len(q)] ==
          IF n = 0 THEN 0 ELSE upTo[n - 1] + Cardinality(wr(q[n]))
    IN upTo[Len(q)]

(* The backend is entered only while the frontend is not on the wrong path. *)
supplyPoints == {n \in Ids : n = Len(program) \/ ~WrongPath(n + 1)}

Init ==
    /\ program \in Programs
    /\ supplied \in supplyPoints
    /\ turn = "COMMIT"
    /\ codeCache = [i \in 1 .. supplied |-> i]
    /\ iQUE = << >> /\ fetchPort = << >> /\ decodePort = << >>
    /\ iWindow = << >> /\ issuePort = << >>
    /\ EU = [e \in 1 .. Width |-> NoIns]
    /\ memPort = << >> /\ memBuff = << >> /\ iROB = << >>
    /\ stage = [i \in Ids |-> "NO_STAGE"]
    /\ busy = {} /\ wires = WrWires
    /\ pipe = "NORMAL" /\ squashSN = 0
    /\ retired = << >> /\ deleted = {}

-----------------------------------------------------------------------------
(* Commit: completed instructions leave the front of iROB and of iQUE. *)

(* Fault: commit does not look at the wrong-path flag. *)
isCommittable_Blind(i) == stage[i] = "COMPLETE"

isCommittable(i) == stage[i] = "COMPLETE" /\ ~WrongPath(i)

commitImpl(k) ==
    /\ k <= Len(iROB)
    /\ \A i \in Elements(Take(iROB, k)) : isCommittable(i)
    /\ iROB' = Drop(iROB, k)
    /\ iQUE' = Drop(iQUE, k)
    /\ retired' = retired \o Take(iROB, k)

doCOMMIT ==
    /\ turn = "COMMIT"
    /\ turn' = "MEMORY"
    /\ \/ /\ pipe \in {"WAIT_FLUSH", "FLUSH"}
          /\ UNCHANGED <<iROB, iQUE, retired>>
       \/ /\ pipe \notin {"WAIT_FLUSH", "FLUSH"}
          /\ \E k \in 0 .. Width : commitImpl(k)
    /\ UNCHANGED <<frontVars, squashVars, memVars, fetchPort, decodePort, iWindow,
                   issuePort, EU, stage, busy, wires, deleted>>

-----------------------------------------------------------------------------
(* Memory: accesses complete in order, at any latency; the buffer is       *)
(* squashed; then accesses are started.  A store waits while the pipeline  *)
(* is being flushed; a started one has written the cache in the same cycle.*)

completeMemIns(k) ==
    LET out == Take(memBuff, k) IN
    /\ k <= Len(memBuff) /\ NumWrAR(out) <= WrWires
    /\ stage' = AtStage(Elements(out), "COMPLETE", stage)
    /\ busy' = busy \ writtenBy(Elements(out))
    /\ wires' = WrWires - NumWrAR(out)

memoryImpl(buff, m) ==
    LET started == Take(memPort, m) IN
    /\ m <= Len(memPort) /\ Len(buff) + m <= MemBuffLen
    /\ pipe \in {"WAIT_FLUSH", "FLUSH"} => \A i \in Elements(started) : Op(i) # "STORE"
    /\ memPort' = Drop(memPort, m)
    /\ memBuff' = buff \o started

doMEMORY ==
    /\ turn = "MEMORY"
    /\ turn' = "EXECUTE"
    /\ \E k, m \in 0 .. MemWidth :
         /\ completeMemIns(k)
         /\ memoryImpl(IF pipe = "FLUSH" THEN FlushBack(Drop(memBuff, k), squashSN)
                       ELSE Drop(memBuff, k), m)
    /\ UNCHANGED <<frontVars, squashVars, history, iQUE, fetchPort, decodePort,
                   backQueues>>

-----------------------------------------------------------------------------
(* Execution: units write back in the order of the units, free ones take   *)
(* issued instructions, the squash state machine moves.                    *)

(* One unit of the write-back loop: a memory access that finds the port    *)
(* full ends it, another instruction that finds too few wires stays.       *)
completeUnit(acc, i) ==
    IF acc.ended \/ i = NoIns THEN acc
    ELSE IF Op(i) # "ALU" /\ Len(acc.port) = MemPortLen
    THEN [acc EXCEPT !.ended = TRUE]
    ELSE IF Op(i) = "ALU" /\ acc.wires < Cardinality(wr(i)) THEN acc
    ELSE [acc EXCEPT
            !.done = @ \cup {i},
            !.port = IF Op(i) = "ALU" THEN @ ELSE Append(@, i),
            !.wires = IF Op(i) = "LOAD" THEN @ ELSE @ - Cardinality(wr(i)),
            !.bad = IF WrongPath(i) /\ pipe = "NORMAL" /\ (@ = NoIns \/ i < @)
                    THEN i ELSE @]

(* The units in turn: what has left them, the memory port, the write wires *)
(* that are free, and the culprit.                                         *)
completeIns ==
    LET after[e \in 0 .. Width] ==
          IF e = 0
          THEN [ended |-> pipe = "FLUSH", done |-> {}, port |-> memPort,
                wires |-> wires, bad |-> NoIns]
          ELSE completeUnit(after[e - 1], EU[e])
    IN after[Width]

setSquashSN(bad) ==
    IF bad # NoIns /\ (squashSN = 0 \/ bad < squashSN) THEN bad ELSE squashSN

(* The next state of the squash state machine, given the squash number,    *)
(* the units, the memory port and the busy registers after write-back.     *)
squashCtrl(sn, units, port, regs) ==
    IF pipe \in {"NORMAL", "SQUASH_ROB"} /\ sn # squashSN
    THEN /\ pipe' = "WAIT_FLUSH" /\ squashSN' = sn
         /\ memPort' = port /\ busy' = regs
    ELSE \/ /\ pipe = "NORMAL"
            /\ pipe' = pipe /\ squashSN' = 0
            /\ memPort' = port /\ busy' = regs
         \/ /\ pipe = "WAIT_FLUSH"
            /\ squashSN' = sn /\ busy' = regs
            /\ IF \A e \in 1 .. Width : units[e] = NoIns
               THEN pipe' = "FLUSH" /\ memPort' = FlushBack(port, sn)
               ELSE pipe' = pipe /\ memPort' = port
         \/ /\ pipe = "FLUSH"
            /\ pipe' = "DRAIN" /\ squashSN' = sn
            /\ memPort' = port /\ busy' = regs
         \/ /\ pipe = "DRAIN"
            /\ iROB # << >>
            /\ pipe' \in {"DRAIN"} \cup {p \in {"SQUASH_ROB"} : iROB[1] >= sn}
            /\ squashSN' = sn /\ memPort' = port /\ busy' = regs
         \/ /\ pipe = "SQUASH_ROB"
            /\ memPort' = port
            /\ IF iROB = << >>
               THEN pipe' = "NORMAL" /\ squashSN' = 0 /\ busy' = {}
               ELSE pipe' = pipe /\ squashSN' = sn /\ busy' = regs

doEXECUTION ==
    /\ turn = "EXECUTE"
    /\ \E k \in 0 .. Width :
         LET c == completeIns
             sn == setSquashSN(c.bad)
             alu == {i \in c.done : Op(i) = "ALU"}
             units == [e \in 1 .. Width |-> IF EU[e] \in c.done THEN NoIns ELSE EU[e]]
             free == {e \in 1 .. Width : units[e] = NoIns}
             nth(e) == Cardinality({f \in free : f <= e})
             started == Take(issuePort, k)
         IN
         /\ sn # squashSN \/ pipe \in {"WAIT_FLUSH", "FLUSH"} => k = 0
         /\ k <= Len(issuePort) /\ k <= Cardinality(free)
         /\ EU' = [e \in 1 .. Width |-> IF e \in free /\ nth(e) <= k
                                        THEN issuePort[nth(e)] ELSE units[e]]
         /\ issuePort' = Drop(issuePort, k)
         /\ stage' = AtStage(Elements(started), "EXECUTE",
                       AtStage(alu, "COMPLETE", AtStage(c.done, "MEM_ACCESS", stage)))
         /\ squashCtrl(sn, EU', c.port, busy \ writtenBy(alu))
    /\ wires' = WrWires
    /\ turn' = IF pipe' = "SQUASH_ROB" THEN "SQUASH" ELSE "SCHEDULE"
    /\ UNCHANGED <<frontVars, history, iQUE, fetchPort, decodePort, iWindow, iROB,
                   memBuff>>

-----------------------------------------------------------------------------
(* Squash of iROB and of iQUE: the wrong-path run that begins at the       *)
(* squash number is deleted, what follows it goes back to the front of the *)
(* code cache.                                                             *)
squash ==
    LET at == {n \in 1 .. Len(iQUE) : iQUE[n] = squashSN}
        start == IF at = {} THEN 1 ELSE Max(at)
        right == {n \in 1 .. Len(iQUE) : iQUE[n] > squashSN /\ ~WrongPath(iQUE[n])}
        stop == IF right = {} THEN Len(iQUE) ELSE Min(right) - 1
    IN
    /\ turn = "SQUASH"
    /\ turn' = "SCHEDULE"
    /\ IF iROB = << >>
       THEN UNCHANGED <<iROB, iQUE, codeCache, stage, deleted>>
       ELSE /\ iROB' = FlushBack(iROB, squashSN)
            /\ codeCache' = Drop(iQUE, stop) \o codeCache
            /\ stage' = AtStage(Elements(Drop(iQUE, stop)), "NO_STAGE", stage)
            /\ deleted' = deleted \cup {iQUE[n] : n \in start .. stop}
            /\ iQUE' = Take(iQUE, start - 1)
    /\ UNCHANGED <<program, supplied, retired, fetchPort, decodePort, iWindow,
                   issuePort, EU, memVars, busy, wires, squashVars>>

-----------------------------------------------------------------------------
(* Scheduling: decoded instructions enter the window and iROB; those at    *)
(* the front of the window are issued while their registers are free.      *)

(* Fault: the registers to be written are not looked at. *)
canIssue_AnyWrite(q, m, regs) ==
    \A n \in 1 .. m :
      rd(q[n]) \cap (regs \cup writtenBy(Elements(Take(q, n - 1)))) = {}

(* No operand of the first m instructions of the window is busy: not in    *)
(* the register file, and not reserved by one just issued.                 *)
canIssue(q, m, regs) ==
    \A n \in 1 .. m :
      (rd(q[n]) \cup wr(q[n])) \cap (regs \cup writtenBy(Elements(Take(q, n - 1)))) = {}

schedulerImpl(k, m) ==
    LET new == Take(decodePort, k)
        win == iWindow \o new
        issued == Take(win, m)
    IN
    /\ k <= Len(decodePort) /\ Len(iROB) + k <= RobSize /\ Len(win) <= WinSize
    /\ m <= Len(win) /\ Len(issuePort) + m <= PortLen
    /\ canIssue(win, m, busy)
    /\ decodePort' = Drop(decodePort, k)
    /\ iROB' = iROB \o new
    /\ iWindow' = Drop(win, m)
    /\ issuePort' = issuePort \o issued
    /\ busy' = busy \cup writtenBy(Elements(issued))
    /\ stage' = AtStage(Elements(issued), "ISSUE",
                        AtStage(Elements(new), "DISPATCH", stage))

doSCHEDULER ==
    /\ turn = "SCHEDULE"
    /\ turn' = "DECODE"
    /\ \/ /\ pipe = "WAIT_FLUSH"
          /\ UNCHANGED <<decodePort, iWindow, issuePort, iROB, busy, stage>>
       \/ /\ pipe = "FLUSH"
          /\ issuePort' = FlushBack(issuePort, squashSN)
          /\ iWindow' = Filter(iWindow, {i \in Ids : i < squashSN})
          /\ UNCHANGED <<decodePort, iROB, busy, stage>>
       \/ /\ pipe \notin {"WAIT_FLUSH", "FLUSH"}
          /\ \E k, m \in 0 .. Width : schedulerImpl(k, m)
    /\ UNCHANGED <<frontVars, squashVars, history, memVars, iQUE, fetchPort, EU,
                   wires>>

-----------------------------------------------------------------------------
(* Decode and fetch move instructions in order. *)

doDECODE ==
    /\ turn = "DECODE"
    /\ turn' = "FETCH"
    /\ \/ /\ pipe = "WAIT_FLUSH"
          /\ UNCHANGED <<fetchPort, decodePort, stage>>
       \/ /\ pipe = "FLUSH"
          /\ decodePort' = FlushBack(decodePort, squashSN)
          /\ UNCHANGED <<fetchPort, stage>>
       \/ /\ pipe \notin {"WAIT_FLUSH", "FLUSH"}
          /\ \E k \in 0 .. Width :
               /\ k <= Len(fetchPort) /\ Len(decodePort) + k <= PortLen
               /\ fetchPort' = Drop(fetchPort, k)
               /\ decodePort' = decodePort \o Take(fetchPort, k)
               /\ stage' = AtStage(Elements(Take(fetchPort, k)), "DECODE", stage)
    /\ UNCHANGED <<frontVars, squashVars, history, iQUE, backQueues, memVars, busy,
                   wires>>

(* When the code cache runs dry the core returns to the frontend for more, *)
(* or, when there is no more and nothing is in flight, for good.           *)
fetchImpl ==
    LET k == Min({Width, Len(codeCache), PortLen - Len(fetchPort)})
        new == Take(codeCache, k)
        dry == codeCache' = << >> /\ k < Width
    IN
    /\ codeCache' = Drop(codeCache, k)
    /\ iQUE' = iQUE \o new
    /\ fetchPort' = fetchPort \o new
    /\ stage' = AtStage(Elements(new), "FETCH", stage)
    /\ turn' = IF dry /\ supplied < Len(program) THEN "FRONTEND"
               ELSE IF dry /\ iQUE' = << >> /\ iROB = << >> THEN "HALT"
               ELSE "COMMIT"

doFETCH ==
    /\ turn = "FETCH"
    /\ \/ /\ pipe = "NORMAL"
          /\ fetchImpl
       \/ /\ pipe # "NORMAL"
          /\ turn' = "COMMIT"
          /\ fetchPort' = IF pipe = "FLUSH" THEN FlushBack(fetchPort, squashSN)
                         ELSE fetchPort
          /\ UNCHANGED <<codeCache, iQUE, stage>>
    /\ UNCHANGED <<program, supplied, squashVars, history, decodePort, backQueues,
                   memVars, busy, wires>>

(* The frontend hands over more of the program. *)
frontend ==
    /\ turn = "FRONTEND"
    /\ turn' = "COMMIT"
    /\ \E n \in {m \in supplyPoints : m > supplied} :
         /\ supplied' = n
         /\ codeCache' = codeCache \o [i \in 1 .. n - supplied |-> supplied + i]
    /\ UNCHANGED <<program, queues, stage, busy, wires, squashVars, history>>

halted == turn = "HALT" /\ UNCHANGED vars

Next ==
    \/ doCOMMIT
    \/ doMEMORY
    \/ doEXECUTION
    \/ squash
    \/ doSCHEDULER
    \/ doDECODE
    \/ doFETCH
    \/ frontend
    \/ halted

Spec == Init /\ [][Next]_vars

(* As for O3Core: runCore goes on, and what can move again and again does. *)
Progress == Next /\ work' # work
FairSpec == Spec /\ WF_vars(Next) /\ SF_vars(Progress)

-----------------------------------------------------------------------------
RightPathIds == {i \in Ids : ~WrongPath(i)}
RightPath(q) == Filter(q, RightPathIds)
TraceUpTo(n) == [i \in 1 .. n |-> i]

(* The core implements in-order commit of the right path: what is on the   *)
(* wrong path is squashed, everything else commits once and in order       *)
(* (commit::commitImpl, commit::squash, execution::squashCtrl).            *)
CommitOrder == INSTANCE InOrderCommit WITH
    rightPath <- RightPath(TraceUpTo(Len(program))), retired <- retired
ImplementsInOrderCommit == CommitOrder!Spec

(* A register is busy exactly while one instruction in flight, issued and  *)
(* not complete, is to write it, through every flush until the reset: what *)
(* registerFile::reserveReg and updateReg assert, and why the reset at the *)
(* end of a squash is enough.  Until then the flushed ones keep theirs.    *)
Outstanding ==
    {i \in Elements(iQUE) : stage[i] \in {"ISSUE", "EXECUTE", "MEM_ACCESS"}}

ScoreboardExact ==
    /\ pipe # "SQUASH_ROB" => busy = writtenBy(Outstanding)
    /\ \A i, j \in Outstanding : i # j => wr(i) \cap wr(j) = {}

(* A wrong-path store is detected in the cycle it leaves its unit and held *)
(* from then on, and the flush takes it out of the memory port, so that    *)
(* the memory stage starts none (the assertion of memory::memoryImpl).     *)
(* What can still be started while the pipe drains is older than the       *)
(* squash number or in front of an older access, which means that an older *)
(* instruction was held in its unit by a full memory port.                 *)
WrongPathStoresHeld ==
    turn = "MEMORY" /\ pipe \notin {"WAIT_FLUSH", "FLUSH"} =>
      \A i \in Elements(memPort) : Op(i) = "STORE" /\ WrongPath(i) =>
        /\ pipe = "DRAIN"
        /\ i < squashSN \/ \E j \in Elements(memPort) : j < i

(* The stages keep the tables within their sizes and the scoreboard right. *)
PipelineConsistent == TypeOK /\ ScoreboardExact /\ WrongPathStoresHeld

(* The core does not stop committing while the right path has more, which  *)
(* commit::verifySim asserts as "No commit for too long".                  *)
KeepsCommitting ==
    \A n \in 0 .. Max({Len(p) : p \in Programs}) :
      (Len(retired) = n /\ n < Len(RightPath(TraceUpTo(Len(program)))))
        ~> Len(retired) > n
=============================================================================
