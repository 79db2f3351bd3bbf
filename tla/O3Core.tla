------------------------------- MODULE O3Core -------------------------------
(***************************************************************************)
(* The out-of-order pipeline of o3_sysCore::runCore: fetch, decode,        *)
(* dispatch and issue, execution, memory and commit, the queues between    *)
(* them, and the squash state machine they share.                          *)
(*                                                                         *)
(* A cycle runs the stages in the order of runCore, one action each; turn  *)
(* is the stage to run next.  How much a stage does in a cycle depends in  *)
(* the code on wires, port delays, unit and cache latencies; here it does  *)
(* any amount its other guards allow, so every latency is covered.         *)
(*                                                                         *)
(* An instruction is its sequence number, an index of the program that the *)
(* frontend traces, wrong-path instructions included.                      *)
(***************************************************************************)
EXTENDS Naturals, Sequences, FiniteSets, FiniteSetsExt, SequencesExt, Queues

CONSTANTS
    Programs,       \* the programs the frontend may trace
    MemModel,       \* "PERFECT" or "NAIVE_SPECUL", the setting each is run under
    Width,          \* stage width, and number of execution units
    MemWidth,       \* width of the memory stage
    PortLen,        \* entries of a port
    ResStnSize,     \* entries of the reservation station
    RobSize,        \* entries of the reorder buffer
    LQSize, SQSize, \* entries of the load and the store queue
    RenameRegs      \* rename registers (r_size)

(* Registers and addresses are numbers. *)
ASSUME ProgramsAssumption ==
    Programs \subseteq Seq([op : {"ALU", "LOAD", "STORE"}, addr : Nat,
                            rd : SUBSET Nat, wr : SUBSET Nat, wrongPath : BOOLEAN])

ASSUME SizesAssumption ==
    /\ {Width, MemWidth, PortLen, ResStnSize, RobSize, LQSize, SQSize,
        RenameRegs} \subseteq Nat \ {0}
    /\ MemModel \in [Programs -> {"PERFECT", "NAIVE_SPECUL"}]

VARIABLES
    program,        \* the traced instructions
    supplied,       \* how many of them the frontend has handed over
    turn,           \* the stage that runs next
    codeCache,      \* g_codeCache: handed over, not fetched
    iQUE,           \* fetched, neither committed nor squashed
    fetchPort,      \* fetch to decode
    decodePort,     \* decode to scheduler
    resStn,         \* the reservation station
    issuePort,      \* scheduler to execution
    EU,             \* the instruction in each execution unit, or NoIns
    ROB, LQ, SQ,
    ins,            \* the pipeline state of every instruction
    pipe,           \* g_pipe_state
    squashSN,       \* g_squash_seq_num, 0 when there is none
    squashType,     \* g_squash_type
    badInsID,       \* the static of completeIns
    retired,        \* committed instructions, in commit order
    deleted         \* instructions destroyed by a squash

frontVars  == <<program, supplied, codeCache>>
queues     == <<iQUE, fetchPort, decodePort, resStn, issuePort, EU, ROB, LQ, SQ>>
squashVars == <<pipe, squashSN, squashType, badInsID>>
history    == <<retired, deleted>>
work == <<frontVars, queues, ins, squashVars, history>>
vars == <<turn, work>>

NoIns == 0
Ids == 1 .. Len(program)
Op(i) == program[i].op                \* "ALU", "LOAD" or "STORE"
LoadIds == {i \in Ids : Op(i) = "LOAD"}
StoreIds == {i \in Ids : Op(i) = "STORE"}
Addr(i) == program[i].addr
WrongPath(i) == program[i].wrongPath

PipeState == {"NORMAL", "WAIT_FLUSH", "FLUSH", "DRAIN", "SQUASH_ROB"}
SquashType == {"NO_MISPRED", "BP_MISPRED", "MEM_MISPRED"}
Stage == {"NO_STAGE", "FETCH", "DECODE", "DISPATCH", "ISSUE", "EXECUTE",
          "MEM_ACCESS", "COMPLETE", "COMMIT"}
LsqState == {"NO_STATE", "ADDR_WAIT", "PENDING_CACHE_DISPATCH", "FWD_FROM_SQ",
             "CACHE_WAIT", "COMPLETE", "COMMIT", "CACHE_DISPATCH"}

NewIns == [stage |-> "NO_STAGE", lsq |-> "NO_STATE", memViolation |-> FALSE,
           cacheAxes |-> FALSE]

isMemOrBrViolation(i) == ins[i].memViolation \/ WrongPath(i)

TypeOK ==
    /\ program \in Programs
    /\ supplied \in 0 .. Len(program)
    /\ turn \in {"COMMIT", "MEMORY", "EXECUTE", "SQUASH", "SCHEDULE", "DECODE",
                 "FETCH", "FRONTEND", "HALT"}
    /\ \A q \in {codeCache, iQUE, fetchPort, decodePort, resStn, issuePort, ROB,
                 LQ, SQ, retired} : q \in Seq(Ids)
    /\ EU \in [1 .. Width -> Ids \cup {NoIns}]
    /\ ins \in [Ids -> [stage : Stage, lsq : LsqState,
                        memViolation : BOOLEAN, cacheAxes : BOOLEAN]]
    /\ pipe \in PipeState
    /\ squashSN \in Ids \cup {0}
    /\ squashType \in SquashType
    /\ badInsID \in Ids \cup {0}
    /\ deleted \subseteq Ids
    /\ \A q \in {fetchPort, decodePort, issuePort} : Len(q) <= PortLen
    /\ Len(resStn) <= ResStnSize /\ Len(ROB) <= RobSize
    /\ Len(LQ) <= LQSize /\ Len(SQ) <= SQSize

-----------------------------------------------------------------------------
(* Queue operations. *)

(* Fault: the squashed entry itself is kept. *)
FlushBack_KeepsCulprit(q, sn) ==
    Take(q, Max({0} \cup {n \in 1 .. Len(q) : q[n] <= sn}))

(* Entries are taken from the back while they are sn or younger            *)
(* (port::flushPort, o3_lsqCAM::squash, the ROB in o3_commit).             *)
FlushBack(q, sn) == Take(q, Max({0} \cup {n \in 1 .. Len(q) : q[n] < sn}))

(* Every entry that is sn or younger is searched for and taken out. *)
SearchAndFlush(q, sn) == Filter(q, {i \in Ids : i < sn})

Without(q, S) == Filter(q, Ids \ S)

(* The table with some of its entries replaced. *)
Replace(table, new) ==
    [i \in DOMAIN table |-> IF i \in DOMAIN new THEN new[i] ELSE table[i]]

(* The instructions in S have reached a stage, the others are as in table. *)
AtStage(S, s, table) == Replace(table, [i \in S |-> [table[i] EXCEPT !.stage = s]])

(* The backend is entered only while the frontend is not on the wrong path. *)
supplyPoints == {n \in Ids : n = Len(program) \/ ~WrongPath(n + 1)}

Init ==
    /\ program \in Programs
    /\ supplied \in supplyPoints
    /\ turn = "COMMIT"
    /\ codeCache = [i \in 1 .. supplied |-> i]
    /\ iQUE = << >> /\ fetchPort = << >> /\ decodePort = << >>
    /\ resStn = << >> /\ issuePort = << >>
    /\ EU = [e \in 1 .. Width |-> NoIns]
    /\ ROB = << >> /\ LQ = << >> /\ SQ = << >>
    /\ ins = [i \in Ids |-> NewIns]
    /\ pipe = "NORMAL" /\ squashSN = 0 /\ squashType = "NO_MISPRED"
    /\ badInsID = 0
    /\ retired = << >> /\ deleted = {}

-----------------------------------------------------------------------------
(* Commit: completed instructions leave the front of the ROB in order; a   *)
(* committed store stays in the store queue until the cache has it.        *)

(* Fault: violations are not looked at. *)
isCommittable_Violating(i) == ins[i].stage = "COMPLETE"

isCommittable(i) == ins[i].stage = "COMPLETE" /\ ~isMemOrBrViolation(i)

commitImpl(k) ==
    LET out == Elements(Take(ROB, k))
        stores == out \cap StoreIds
    IN
    /\ k <= Len(ROB)
    /\ \A i \in out : isCommittable(i)
    /\ ROB' = Drop(ROB, k)
    /\ iQUE' = Drop(iQUE, k)
    /\ LQ' = Drop(LQ, Cardinality(out \cap LoadIds))
    /\ ins' = Replace(ins, [i \in stores |-> [ins[i] EXCEPT !.stage = "COMMIT",
                                                          !.lsq = "COMMIT"]])
    /\ retired' = retired \o Take(ROB, k)

doCOMMIT ==
    /\ turn = "COMMIT"
    /\ turn' = "MEMORY"
    /\ \/ /\ pipe \in {"WAIT_FLUSH", "FLUSH"}
          /\ UNCHANGED <<ROB, iQUE, LQ, ins, retired>>
       \/ /\ pipe \notin {"WAIT_FLUSH", "FLUSH"}
          /\ \E k \in 0 .. Width : commitImpl(k)
    /\ UNCHANGED <<frontVars, squashVars, fetchPort, decodePort, resStn,
                   issuePort, EU, SQ, deleted>>

-----------------------------------------------------------------------------
(* Memory: loads whose latency is over complete, the queues are squashed,  *)
(* then pending loads and committed stores go to the memory hierarchy and  *)
(* stores the cache has taken leave the queue.                             *)

(* Fault: perfect disambiguation waits for addresses as well. *)
hasMemAddr_Naive(stores, i) ==
    \E s \in Elements(stores) :
      s < i /\ Addr(s) = Addr(i) /\ ins[s].stage \in {"COMPLETE", "COMMIT"}

(* A load is served by an older store to its address; under naive          *)
(* speculation only by one that has computed its address.                  *)
hasMemAddr(stores, i) ==
    \E s \in Elements(stores) :
      /\ s < i
      /\ Addr(s) = Addr(i)
      /\ MemModel[program] = "NAIVE_SPECUL" => ins[s].stage \in {"COMPLETE", "COMMIT"}

getAxesLatency(stores, i) ==
    IF hasMemAddr(stores, i)
    THEN [ins[i] EXCEPT !.lsq = "FWD_FROM_SQ"]
    ELSE [ins[i] EXCEPT !.lsq = "CACHE_WAIT", !.cacheAxes = TRUE]

PendingLoads(q) ==
    Filter(q, {i \in Ids : /\ ins[i].stage = "MEM_ACCESS"
                           /\ ins[i].lsq = "PENDING_CACHE_DISPATCH"})
PendingStores(q) ==
    Filter(q, {i \in Ids : ins[i].stage = "COMMIT" /\ ins[i].lsq = "COMMIT"})
WaitingLoads(q) == {i \in Elements(q) : ins[i].lsq \in {"FWD_FROM_SQ", "CACHE_WAIT"}}
DispatchedStores(q) == {i \in Elements(q) : ins[i].lsq = "CACHE_DISPATCH"}

(* Fault: a flush empties the queues. *)
squashLSQ_All(q) == IF pipe = "FLUSH" THEN << >> ELSE q

(* The queue as the memory stage leaves it in a flush cycle. *)
squashLSQ(q) == IF pipe = "FLUSH" THEN FlushBack(q, squashSN) ELSE q

doMEMORY ==
    LET loads == squashLSQ(LQ)
        stores == squashLSQ(SQ)
    IN
    /\ turn = "MEMORY"
    /\ turn' = "EXECUTE"
    /\ \E done \in SUBSET WaitingLoads(LQ), k, m \in 0 .. MemWidth,
          taken \in SUBSET DispatchedStores(stores) :
         /\ Cardinality(done) <= MemWidth /\ Cardinality(taken) <= MemWidth
         /\ k <= Len(PendingLoads(loads)) /\ m <= Len(PendingStores(stores))
         /\ LET issued == Elements(Take(PendingLoads(loads), k))
                sent == Elements(Take(PendingStores(stores), m))
                finished == [i \in done |-> [ins[i] EXCEPT !.stage = "COMPLETE",
                                                           !.lsq = "COMPLETE"]]
                reading == [i \in issued |-> getAxesLatency(stores, i)]
                writing == [i \in sent |-> [ins[i] EXCEPT !.lsq = "CACHE_DISPATCH"]]
            IN ins' = Replace(Replace(Replace(ins, writing), reading), finished)
         /\ SQ' = Without(stores, taken)
    /\ LQ' = loads
    /\ UNCHANGED <<frontVars, squashVars, history, iQUE, fetchPort, decodePort,
                   resStn, issuePort, EU, ROB>>

-----------------------------------------------------------------------------
(* Execution: finished units write back and detect mis-speculation, free   *)
(* units take the issued instructions, the squash state machine moves.     *)

(* The youngest completed load that read the cache at the address of store *)
(* st, bounded above by the next completed store to that address.  The     *)
(* scan stops short of the entry at the front of the load queue.           *)
isLQviolation(table, st) ==
    LET waw == Filter(SQ, {i \in Ids : /\ i > st
                                       /\ table[i].lsq = "COMPLETE"
                                       /\ Addr(i) = Addr(st)})
        hi == IF waw = << >> THEN Len(program) ELSE Head(waw)
        found == {LQ[n] : n \in {m \in 2 .. Len(LQ) :
                     /\ st < LQ[m] /\ LQ[m] <= hi
                     /\ Addr(LQ[m]) = Addr(st)
                     /\ table[LQ[m]].lsq = "COMPLETE"
                     /\ table[LQ[m]].cacheAxes}}
    IN IF found = {} THEN NoIns ELSE Max(found)

(* What instruction i does when its unit is done. *)
writeBack(table, i) ==
    CASE Op(i) = "LOAD"  -> [table EXCEPT ![i].stage = "MEM_ACCESS",
                                          ![i].lsq = "PENDING_CACHE_DISPATCH"]
      [] Op(i) = "STORE" -> [table EXCEPT ![i].stage = "COMPLETE",
                                          ![i].lsq = "COMPLETE"]
      [] Op(i) = "ALU"   -> [table EXCEPT ![i].stage = "COMPLETE"]

(* Fault: a violating load is squashed though an older culprit is known.   *)
completeUnit_Newest(acc, i) ==
    LET t == writeBack(acc.ins, i)
        ld == IF Op(i) = "STORE" THEN isLQviolation(t, i) ELSE NoIns
        table == IF ld = NoIns THEN t ELSE [t EXCEPT ![ld].memViolation = TRUE]
    IN IF ld # NoIns
       THEN [ins |-> table, bad |-> ld, badInsID |-> ld, type |-> "MEM_MISPRED"]
       ELSE IF WrongPath(i) /\ (acc.badInsID = 0 \/ i < acc.badInsID)
       THEN [ins |-> table, bad |-> i, badInsID |-> i, type |-> "BP_MISPRED"]
       ELSE [acc EXCEPT !.ins = table]

(* One iteration of the write-back loop: it keeps the oldest culprit seen  *)
(* in this episode, and with it the kind of the squash.                    *)
completeUnit(acc, i) ==
    LET t == writeBack(acc.ins, i)
        ld == IF Op(i) = "STORE" THEN isLQviolation(t, i) ELSE NoIns
        table == IF ld = NoIns THEN t ELSE [t EXCEPT ![ld].memViolation = TRUE]
        older(j) == acc.badInsID = 0 \/ j < acc.badInsID
    IN IF (WrongPath(i) \/ table[i].memViolation) /\ older(i)
       THEN [ins |-> table, bad |-> i, badInsID |-> i, type |-> "BP_MISPRED"]
       ELSE IF ld # NoIns /\ older(ld)
       THEN [ins |-> table, bad |-> ld, badInsID |-> ld, type |-> "MEM_MISPRED"]
       ELSE [acc EXCEPT !.ins = table]

completeIns(done) ==
    LET after[e \in 0 .. Width] ==
          IF e = 0
          THEN [ins |-> ins, bad |-> NoIns, type |-> squashType,
                badInsID |-> IF pipe = "NORMAL" THEN 0 ELSE badInsID]
          ELSE IF EU[e] \in done THEN completeUnit(after[e - 1], EU[e])
          ELSE after[e - 1]
    IN after[Width]

setSquashSN(bad) ==
    IF bad # NoIns /\ (squashSN = 0 \/ bad < squashSN) THEN bad ELSE squashSN

(* Fault: the flush does not wait for the units. *)
squashCtrl_NoWait(sn, type, units) ==
    IF sn # squashSN
    THEN pipe' = "WAIT_FLUSH" /\ squashSN' = sn /\ squashType' = type
    ELSE IF pipe = "NORMAL" \/ (pipe = "SQUASH_ROB" /\ ROB = << >>)
    THEN pipe' = "NORMAL" /\ squashSN' = 0 /\ squashType' = "NO_MISPRED"
    ELSE /\ pipe' = CASE pipe = "WAIT_FLUSH" -> "FLUSH"
                      [] pipe = "FLUSH" -> "DRAIN"
                      [] pipe = "DRAIN" /\ ROB[1] >= sn -> "SQUASH_ROB"
                      [] OTHER -> pipe
         /\ squashSN' = sn /\ squashType' = type

(* The next state of the squash state machine, given the squash number and *)
(* the units after write-back.                                             *)
squashCtrl(sn, type, units) ==
    IF sn # squashSN
    THEN pipe' = "WAIT_FLUSH" /\ squashSN' = sn /\ squashType' = type
    ELSE IF pipe = "NORMAL" \/ (pipe = "SQUASH_ROB" /\ ROB = << >>)
    THEN pipe' = "NORMAL" /\ squashSN' = 0 /\ squashType' = "NO_MISPRED"
    ELSE /\ \/ /\ pipe = "WAIT_FLUSH"
               /\ pipe' = IF \A e \in 1 .. Width : units[e] = NoIns
                          THEN "FLUSH" ELSE "WAIT_FLUSH"
            \/ /\ pipe = "FLUSH"
               /\ pipe' = "DRAIN"
            \/ /\ pipe = "DRAIN"
               /\ ROB # << >> /\ ROB[1] >= sn
               /\ pipe' = "SQUASH_ROB"
            \/ /\ pipe \in {"DRAIN", "SQUASH_ROB"}    \* older front, or no wire
               /\ pipe' = pipe
         /\ squashSN' = sn /\ squashType' = type

doEXECUTION ==
    /\ turn = "EXECUTE"
    /\ \E done \in SUBSET (Elements(EU) \ {NoIns}), k \in 0 .. Width :
         LET c == completeIns(done)
             sn == setSquashSN(c.bad)
             units == [e \in 1 .. Width |-> IF EU[e] \in done THEN NoIns ELSE EU[e]]
             free == {e \in 1 .. Width : units[e] = NoIns}
             nth(e) == Cardinality({f \in free : f <= e})
         IN
         /\ pipe = "FLUSH" => done = {}
         /\ sn # squashSN \/ pipe \in {"WAIT_FLUSH", "FLUSH"} => k = 0
         /\ k <= Len(issuePort) /\ k <= Cardinality(free)
         /\ EU' = [e \in 1 .. Width |-> IF e \in free /\ nth(e) <= k
                                        THEN issuePort[nth(e)] ELSE units[e]]
         /\ issuePort' = Drop(issuePort, k)
         /\ ins' = AtStage(Elements(Take(issuePort, k)), "EXECUTE", c.ins)
         /\ badInsID' = c.badInsID
         /\ squashCtrl(sn, c.type, EU')
    /\ turn' = IF pipe' = "SQUASH_ROB" THEN "SQUASH" ELSE "SCHEDULE"
    /\ UNCHANGED <<frontVars, history, iQUE, fetchPort, decodePort, resStn, ROB,
                   LQ, SQ>>

-----------------------------------------------------------------------------
(* Squash of the ROB and of iQUE, once everything older has committed.     *)

(* The instructions in list q go back to the front of the code cache.      *)
PutBack(q) ==
    /\ codeCache' = q \o codeCache
    /\ ins' = Replace(ins, [i \in Elements(q) |-> NewIns])

(* Fault: one instruction too many is destroyed. *)
bpMispredSquash_OneMore ==
    LET start == CHOOSE n \in 1 .. Len(iQUE) : iQUE[n] = squashSN
        right == {n \in start .. Len(iQUE) : ~isMemOrBrViolation(iQUE[n])}
        stop == IF right = {} THEN Len(iQUE) ELSE Min(right)
    IN
    /\ PutBack(Drop(iQUE, stop))
    /\ deleted' = deleted \cup {iQUE[n] : n \in start .. stop}
    /\ iQUE' = Take(iQUE, start - 1)

(* Branch misprediction: from the squashed instruction to the first younger *)
(* one that is neither wrong-path nor violating, instructions are deleted;  *)
(* what follows is put back.                                                *)
bpMispredSquash ==
    LET at == {n \in 1 .. Len(iQUE) : iQUE[n] = squashSN}
        start == IF at = {} THEN 1 ELSE Max(at)
        right == {n \in 1 .. Len(iQUE) :
                    iQUE[n] > squashSN /\ ~isMemOrBrViolation(iQUE[n])}
        stop == IF right = {} THEN Len(iQUE) ELSE Min(right) - 1
    IN
    /\ PutBack(Drop(iQUE, stop))
    /\ deleted' = deleted \cup {iQUE[n] : n \in start .. stop}
    /\ iQUE' = Take(iQUE, start - 1)

(* Memory mis-speculation: the load and everything younger is put back.    *)
memMispredSquash ==
    LET kept == FlushBack(iQUE, squashSN) IN
    /\ PutBack(Drop(iQUE, Len(kept)))
    /\ iQUE' = kept
    /\ UNCHANGED deleted

squash ==
    /\ turn = "SQUASH"
    /\ turn' = "SCHEDULE"
    /\ \/ /\ ROB = << >>
          /\ UNCHANGED <<ROB, iQUE, codeCache, ins, deleted, squashType>>
       \/ /\ ROB # << >>
          /\ ROB' = FlushBack(ROB, squashSN)
          /\ \/ squashType = "BP_MISPRED" /\ bpMispredSquash
             \/ squashType = "MEM_MISPRED" /\ memMispredSquash
          /\ squashType' = "NO_MISPRED"
    /\ UNCHANGED <<program, supplied, retired, fetchPort, decodePort, resStn,
                   issuePort, EU, LQ, SQ, pipe, squashSN, badInsID>>

-----------------------------------------------------------------------------
(* Scheduling: decoded instructions are renamed and dispatched in order,   *)
(* ready ones leave the reservation station out of order.                  *)

Writes(S) == MapThenSumSet(LAMBDA i : Cardinality(program[i].wr), S)

(* The first k decoded instructions find room in every table. *)
canDispatch(k) ==
    LET new == Elements(Take(decodePort, k)) IN
    /\ Len(ROB) + k <= RobSize
    /\ Len(resStn) + k <= ResStnSize
    /\ Len(LQ) + Cardinality(new \cap LoadIds) <= LQSize
    /\ Len(SQ) + Cardinality(new \cap StoreIds) <= SQSize
    /\ Writes(Elements(ROB) \cup new) <= RenameRegs

(* Every source of i is produced: its register was last written, among the *)
(* instructions in flight before i, by one that has completed.             *)
isReady(i, rob) ==
    \A a \in program[i].rd :
      LET writers == {j \in Elements(rob) : j < i /\ a \in program[j].wr}
      IN writers = {} \/ ins[Max(writers)].stage = "COMPLETE"

schedulerImpl(k, m) ==
    LET new == Take(decodePort, k)
        rob == ROB \o new
        stn == resStn \o new
        ready == Filter(stn, {i \in Elements(stn) : isReady(i, rob)})
        issued == Take(ready, m)
    IN
    /\ k <= Len(decodePort) /\ canDispatch(k)
    /\ m <= Len(ready) /\ Len(issuePort) + m <= PortLen
    /\ decodePort' = Drop(decodePort, k)
    /\ ROB' = rob
    /\ LQ' = LQ \o Filter(new, LoadIds)
    /\ SQ' = SQ \o Filter(new, StoreIds)
    /\ resStn' = Without(stn, Elements(issued))
    /\ issuePort' = issuePort \o issued
    /\ ins' = AtStage(Elements(issued), "ISSUE",
                 Replace(ins, [i \in Elements(new) |->
                    [ins[i] EXCEPT !.stage = "DISPATCH",
                                   !.lsq = IF Op(i) = "ALU" THEN "NO_STATE"
                                           ELSE "ADDR_WAIT"]]))

doSCHEDULER ==
    /\ turn = "SCHEDULE"
    /\ turn' = "DECODE"
    /\ \/ /\ pipe = "WAIT_FLUSH"
          /\ UNCHANGED <<decodePort, resStn, issuePort, ROB, LQ, SQ, ins>>
       \/ /\ pipe = "FLUSH"
          /\ issuePort' = SearchAndFlush(issuePort, squashSN)
          /\ resStn' = SearchAndFlush(resStn, squashSN)
          /\ UNCHANGED <<decodePort, ROB, LQ, SQ, ins>>
       \/ /\ pipe \notin {"WAIT_FLUSH", "FLUSH"}
          /\ \E k, m \in 0 .. Width : schedulerImpl(k, m)
    /\ UNCHANGED <<frontVars, squashVars, history, iQUE, fetchPort, EU>>

-----------------------------------------------------------------------------
(* Decode and fetch move instructions in order. *)

doDECODE ==
    /\ turn = "DECODE"
    /\ turn' = "FETCH"
    /\ \/ /\ pipe = "WAIT_FLUSH"
          /\ UNCHANGED <<fetchPort, decodePort, ins>>
       \/ /\ pipe = "FLUSH"
          /\ decodePort' = FlushBack(decodePort, squashSN)
          /\ UNCHANGED <<fetchPort, ins>>
       \/ /\ pipe \notin {"WAIT_FLUSH", "FLUSH"}
          /\ \E k \in 0 .. Width :
               /\ k <= Len(fetchPort) /\ Len(decodePort) + k <= PortLen
               /\ fetchPort' = Drop(fetchPort, k)
               /\ decodePort' = decodePort \o Take(fetchPort, k)
               /\ ins' = AtStage(Elements(Take(fetchPort, k)), "DECODE", ins)
    /\ UNCHANGED <<frontVars, squashVars, history, iQUE, resStn, issuePort, EU,
                   ROB, LQ, SQ>>

(* Fetch has no wires: it moves all it can.  When the code cache runs dry  *)
(* in the normal state the core returns to the frontend for more, or, when *)
(* there is no more and the pipeline is empty, for good.                   *)
fetchImpl ==
    LET k == Min({Width, Len(codeCache), PortLen - Len(fetchPort)})
        new == Take(codeCache, k)
        dry == codeCache' = << >> /\ k < Width
    IN
    /\ codeCache' = Drop(codeCache, k)
    /\ iQUE' = iQUE \o new
    /\ fetchPort' = fetchPort \o new
    /\ ins' = AtStage(Elements(new), "FETCH", ins)
    /\ turn' = IF dry /\ supplied < Len(program) THEN "FRONTEND"
               ELSE IF dry /\ iQUE' = << >> /\ ROB = << >> THEN "HALT"
               ELSE "COMMIT"

doFETCH ==
    /\ turn = "FETCH"
    /\ \/ /\ pipe = "NORMAL"
          /\ fetchImpl
       \/ /\ pipe # "NORMAL"
          /\ turn' = "COMMIT"
          /\ fetchPort' = IF pipe = "FLUSH" THEN FlushBack(fetchPort, squashSN)
                         ELSE fetchPort
          /\ UNCHANGED <<codeCache, iQUE, ins>>
    /\ UNCHANGED <<program, supplied, squashVars, history, decodePort, resStn,
                   issuePort, EU, ROB, LQ, SQ>>

(* The frontend hands over more of the program. *)
frontend ==
    /\ turn = "FRONTEND"
    /\ turn' = "COMMIT"
    /\ \E n \in {m \in supplyPoints : m > supplied} :
         /\ supplied' = n
         /\ codeCache' = codeCache \o [i \in 1 .. n - supplied |-> supplied + i]
    /\ UNCHANGED <<program, queues, ins, squashVars, history>>

halted == turn = "HALT" /\ UNCHANGED vars

Next ==
    \/ doCOMMIT
    \/ doMEMORY
    \/ doEXECUTION
    \/ squash
    \/ doSCHEDULER
    \/ doDECODE
    \/ doFETCH
    \/ frontend
    \/ halted

Spec == Init /\ [][Next]_vars

(* runCore never stops running the stages.  Wires are free again in the    *)
(* next cycle and every latency is finite, so a core that can again and    *)
(* again move something does move it.                                      *)
Progress == Next /\ work' # work
Fairness == WF_vars(Next) /\ SF_vars(Progress)
FairSpec == Spec /\ Fairness

-----------------------------------------------------------------------------
RightPathIds == {i \in Ids : ~WrongPath(i)}
RightPath(q) == Filter(q, RightPathIds)
TraceUpTo(n) == [i \in 1 .. n |-> i]
Loads(q) == Filter(q, LoadIds)
Stores(q) == Filter(q, StoreIds)

(* The core implements in-order commit of the right path: whatever is      *)
(* speculated, squashed, deleted, put back and fetched again, and however  *)
(* late anything is, every right-path instruction commits once, in order   *)
(* (o3_commit, the squash machinery of o3_execution).                      *)
CommitOrder == INSTANCE InOrderCommit WITH
    rightPath <- RightPath(TraceUpTo(Len(program))), retired <- retired
ImplementsInOrderCommit == CommitOrder!Spec

(* Nothing is lost or duplicated: what has committed, then what is in      *)
(* flight, then what waits in the code cache is, wrong-path instructions   *)
(* aside, exactly what the frontend has supplied, in order, at every       *)
(* moment of a squash (iQUE, g_codeCache).                                 *)
EveryInstructionAccountedFor ==
    retired \o RightPath(iQUE \o codeCache) = RightPath(TraceUpTo(supplied))

(* The ROB and the front-end ports hold the in-flight window in order and  *)
(* without a gap, but for the cycle in which stage after stage is flushed: *)
(* the commit stage pops iQUE and ROB together and asserts that they agree.*)
WindowContiguous ==
    /\ (pipe = "FLUSH" /\ turn \in {"SCHEDULE", "DECODE", "FETCH"})
         \/ IsPrefix(ROB \o decodePort \o fetchPort, iQUE)
    /\ pipe = "NORMAL" => iQUE = ROB \o decodePort \o fetchPort

(* An instruction known to be on the wrong path or to have read too early. *)
Detected(i) ==
    \/ ins[i].memViolation
    \/ WrongPath(i) /\ ins[i].stage \in {"MEM_ACCESS", "COMPLETE"}

(* The squash number names the oldest culprit detected, and the squash     *)
(* type is that culprit's; so commit, which stops at any culprit, always   *)
(* reaches the squash number while draining (completeIns, squashCtrl).     *)
SquashesOldestCulprit ==
    /\ \A i \in Elements(ROB) : Detected(i) => pipe # "NORMAL" /\ squashSN <= i
    /\ (pipe # "NORMAL" /\ ROB # << >>) =>
         /\ squashSN \in Elements(ROB)
         /\ Detected(squashSN)
         /\ squashType = IF WrongPath(squashSN) THEN "BP_MISPRED"
                         ELSE "MEM_MISPRED"
    /\ pipe = "DRAIN" => ROB # << >>

(* When the ROB is squashed nothing younger than the squash number is left *)
(* anywhere else, and nothing older is unfinished: the register tables can *)
(* be reset and the ROB dropped whole.                                     *)
QuiescentAtRecovery ==
    pipe = "SQUASH_ROB" =>
      /\ fetchPort \o decodePort \o resStn \o issuePort \o LQ = << >>
      /\ \A e \in 1 .. Width : EU[e] = NoIns
      /\ \A i \in Elements(SQ) : ins[i].stage = "COMMIT"
      /\ \A i \in Elements(iQUE) : ins[i].stage # "EXECUTE" /\ i >= squashSN

(* The load queue holds the loads of the ROB and the store queue those of  *)
(* its stores, behind committed ones on their way to the cache, in order:  *)
(* the commit stage pops the front of the load queue for the front of the  *)
(* ROB.  During a squash the queues may already have lost the young end.   *)
LSQMatchesROB ==
    LET draining == Filter(SQ, {i \in Ids : ins[i].stage = "COMMIT"})
        inflight == Drop(SQ, Len(draining))
    IN
    /\ IsPrefix(LQ, Loads(ROB))
    /\ IsPrefix(draining, SQ)
    /\ IsPrefix(inflight, Stores(ROB))
    /\ pipe = "NORMAL" => LQ = Loads(ROB) /\ inflight = Stores(ROB)

(* Both views of the window agree at every moment of a squash, and no      *)
(* queue holds more than it has entries.                                   *)
QueuesAgree == TypeOK /\ WindowContiguous /\ LSQMatchesROB

(* A committed store leaves the store queue only because the cache took    *)
(* it: no squash removes it.                                               *)
CommittedStoresReachTheCache ==
    [][\A i \in Elements(SQ) :
         (ins[i].stage = "COMMIT" /\ i \notin Elements(SQ')) =>
           ins[i].lsq = "CACHE_DISPATCH"]_vars

(* With perfect memory disambiguation no load is ever squashed: one that   *)
(* has an older store to its address in the queue is served by it.         *)
PerfectMemoryNeverSquashes ==
    MemModel[program] = "PERFECT" =>
      squashType # "MEM_MISPRED" /\ \A i \in Ids : ~ins[i].memViolation

(* o3_commit::bpMispredSquash, "DELETE INS THAT ARE ON WRONG PATH": only   *)
(* wrong-path instructions are destroyed by a squash.                      *)
OnlyWrongPathDeleted == \A i \in deleted : WrongPath(i)
=============================================================================
