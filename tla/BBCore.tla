------------------------------- MODULE BBCore -------------------------------
(***************************************************************************)
(* The CG-OoO pipeline of bb_sysCore::runCore.  Blocks are fetched, enter  *)
(* the block ROB, commit and are squashed as a whole; the instructions in  *)
(* between pass decode, windows, units and memory one by one.              *)
(*                                                                         *)
(* As in O3Core a cycle runs the stages in the order of runCore, one       *)
(* action each, and a stage does any amount of work its guards allow.      *)
(* What BBWindow and BBRename model in detail, the windows and the         *)
(* register files, is one set of dispatched instructions here and the      *)
(* youngest earlier writer in flight.                                      *)
(***************************************************************************)
EXTENDS Naturals, Sequences, FiniteSets, FiniteSetsExt, SequencesExt, Queues

CONSTANTS
    Programs,       \* the programs the frontend may trace
    MemModel,       \* "PERFECT" or "NAIVE_SPECUL"
    Width,          \* stage width, and number of execution units
    MemWidth,       \* width of the memory stage
    PortLen,        \* entries of a port
    RobSize,        \* blocks in bbROB
    LQSize, SQSize, \* entries of the load and the store queue
    NearEmpty       \* BB_NEAR_EMPTY_SIZE

(* Blocks are numbered in the order in which they are traced. *)
ASSUME ProgramsAssumption ==
    /\ Programs \subseteq Seq([op : {"ALU", "LOAD", "STORE"}, addr : Nat,
                               rd : SUBSET Nat, wr : SUBSET Nat,
                               wrongPath : BOOLEAN, bb : Nat \ {0}])
    /\ \A p \in Programs :
         /\ p # << >>
         /\ \A m, n \in 1 .. Len(p) : m < n => p[m].bb <= p[n].bb
         /\ {p[n].bb : n \in 1 .. Len(p)} = 1 .. p[Len(p)].bb

ASSUME SizesAssumption ==
    /\ {Width, MemWidth, PortLen, RobSize, LQSize, SQSize} \subseteq Nat \ {0}
    /\ NearEmpty \in Nat
    /\ MemModel \in {"PERFECT", "NAIVE_SPECUL"}

VARIABLES
    program,        \* the traced instructions, with the block each is in
    supplied,       \* how many blocks the frontend has handed over
    turn,           \* the stage that runs next
    bbCache,        \* g_bbCache: blocks handed over, not fetched
    bbQUE,          \* blocks fetched, neither committed nor squashed
    currentBB,      \* _current_bb of fetch
    blk,            \* the state of every dynBasicblock
    fetchPort,      \* fetch to decode
    decodePort,     \* decode to scheduler
    windows,        \* dispatched, not issued
    issuePort,      \* scheduler to execution
    EU,             \* the instruction in each execution unit, or NoIns
    bbROB, LQ, SQ,
    ins,            \* the pipeline state of every instruction; overtook
                    \* says that it left a window before an older store of its block
    pipe,           \* g_pipe_state
    squashSN,       \* g_squash_seq_num, 0 when there is none
    squashType,     \* g_squash_type
    badInsID,       \* the static of completeIns
    retired,        \* committed blocks, in commit order
    deleted         \* blocks destroyed by a squash

frontVars  == <<program, supplied, bbCache, currentBB>>
queues     == <<bbQUE, fetchPort, decodePort, windows, issuePort, EU, bbROB, LQ, SQ>>
insVars    == <<blk, ins>>
squashVars == <<pipe, squashSN, squashType, badInsID>>
history    == <<retired, deleted>>
work == <<frontVars, queues, insVars, squashVars, history>>
vars == <<turn, work>>

NoIns == 0
NoBB == 0
Ids == 1 .. Len(program)
Op(i) == program[i].op                \* "ALU", "LOAD" or "STORE"
Addr(i) == program[i].addr
WrongPath(i) == program[i].wrongPath
BB(i) == program[i].bb
LastBlock == BB(Len(program))
Blocks == 1 .. LastBlock
BlockIns(b) == {i \in Ids : BB(i) = b}
BBsize(b) == Cardinality(BlockIns(b))
BBheadID(b) == Min(BlockIns(b))
LoadIds == {i \in Ids : Op(i) = "LOAD"}
StoreIds == {i \in Ids : Op(i) = "STORE"}
HeadIds == {i \in Ids : i = BBheadID(BB(i))}

isOnWrongPath(b) == \E i \in BlockIns(b) : WrongPath(i)
hasCorrectPathIns(b) == \E i \in BlockIns(b) : ~WrongPath(i)
isMemOrBrViolation(b) == blk[b].memViolation \/ isOnWrongPath(b)
isBBcomplete(b) == blk[b].completed = BBsize(b)

(* A block whose instructions have all been popped (EMPTY_BUFF). *)
allFetched(table, b) == table[b].fetched = BBsize(b)

Stage == {"NO_STAGE", "FETCH", "DECODE", "DISPATCH", "ISSUE", "EXECUTE",
          "MEM_ACCESS", "COMPLETE", "COMMIT"}
LsqState == {"NO_STATE", "ADDR_WAIT", "PENDING_CACHE_DISPATCH", "FWD_FROM_SQ",
             "CACHE_WAIT", "COMPLETE", "COMMIT", "CACHE_DISPATCH"}

NewIns == [stage |-> "NO_STAGE", lsq |-> "NO_STATE", memViolation |-> FALSE,
           cacheAxes |-> FALSE, overtook |-> FALSE]
NewBlock == [fetched |-> 0, doneFetch |-> FALSE, completed |-> 0,
             memViolation |-> FALSE, permit |-> TRUE]

TypeOK ==
    /\ program \in Programs
    /\ supplied \in Blocks
    /\ turn \in {"COMMIT", "MEMORY", "EXECUTE", "SQUASH", "SCHEDULE", "DECODE",
                 "FETCH", "FRONTEND", "HALT"}
    /\ \A q \in {bbCache, bbQUE, bbROB, retired} : q \in Seq(Blocks)
    /\ currentBB \in Blocks \cup {NoBB}
    /\ blk \in [Blocks -> [fetched : Nat, doneFetch : BOOLEAN, completed : Nat,
                           memViolation : BOOLEAN, permit : BOOLEAN]]
    /\ \A b \in Blocks : blk[b].fetched <= BBsize(b) /\ blk[b].completed <= BBsize(b)
    /\ \A q \in {fetchPort, decodePort, windows, issuePort, LQ, SQ} : q \in Seq(Ids)
    /\ EU \in [1 .. Width -> Ids \cup {NoIns}]
    /\ ins \in [Ids -> [stage : Stage, lsq : LsqState,
                        memViolation : BOOLEAN, cacheAxes : BOOLEAN,
                        overtook : BOOLEAN]]
    /\ pipe \in {"NORMAL", "WAIT_FLUSH", "FLUSH", "DRAIN", "SQUASH_ROB"}
    /\ squashSN \in HeadIds \cup {0}
    /\ squashType \in {"NO_MISPRED", "BP_MISPRED", "MEM_MISPRED"}
    /\ badInsID \in Ids \cup {0}
    /\ deleted \subseteq Blocks
    /\ \A q \in {fetchPort, decodePort, issuePort} : Len(q) <= PortLen
    /\ Len(bbROB) <= RobSize /\ Len(LQ) <= LQSize /\ Len(SQ) <= SQSize

-----------------------------------------------------------------------------
(* Queue operations. *)

Without(q, S) == Filter(q, Ids \ S)

(* Entries are taken from the back while they are sn or younger. *)
FlushBack(q, sn) == Take(q, Max({0} \cup {n \in 1 .. Len(q) : q[n] < sn}))

(* Every entry that is sn or younger is searched for and taken out. *)
SearchAndFlush(q, sn) == Filter(q, {i \in Ids : i < sn})

(* Blocks are taken from the back while their heads are sn or younger. *)
FlushBlocks(q, sn) ==
    Take(q, Max({0} \cup {n \in 1 .. Len(q) : BBheadID(q[n]) < sn}))

(* The table with some of its entries replaced. *)
Replace(table, new) ==
    [i \in DOMAIN table |-> IF i \in DOMAIN new THEN new[i] ELSE table[i]]

AtStage(S, s, table) == Replace(table, [i \in S |-> [table[i] EXCEPT !.stage = s]])

(* Each block counts those of its instructions that complete. *)
incCompletedInsCntr(table, done) ==
    [b \in DOMAIN table |->
       [table[b] EXCEPT !.completed = @ + Cardinality({i \in done : BB(i) = b})]]

(* The backend is entered only while the frontend is not on the wrong path: *)
(* the next block then begins on the right path, and keeps that instruction *)
(* when the frontend turns to the wrong path within it.                     *)
supplyPoints == {b \in Blocks : b + 1 \in Blocks => hasCorrectPathIns(b + 1)}

(* FRONTEND_RUNNING. *)
frontendRunning == supplied < LastBlock

(* It is entered with more blocks than make the cache look nearly empty    *)
(* (BB_CNT_THR), or with all there are.                                    *)
handedOver == ~frontendRunning \/ Len(bbCache) > NearEmpty

Init ==
    /\ program \in Programs
    /\ supplied \in supplyPoints
    /\ turn = "COMMIT"
    /\ bbCache = [b \in 1 .. supplied |-> b] /\ handedOver
    /\ bbQUE = << >> /\ currentBB = NoBB
    /\ blk = [b \in Blocks |-> NewBlock]
    /\ fetchPort = << >> /\ decodePort = << >>
    /\ windows = << >> /\ issuePort = << >>
    /\ EU = [e \in 1 .. Width |-> NoIns]
    /\ bbROB = << >> /\ LQ = << >> /\ SQ = << >>
    /\ ins = [i \in Ids |-> NewIns]
    /\ pipe = "NORMAL" /\ squashSN = 0 /\ squashType = "NO_MISPRED"
    /\ badInsID = 0
    /\ retired = << >> /\ deleted = {}

-----------------------------------------------------------------------------
(* Commit: a block that is complete leaves bbROB and bbQUE whole; its      *)
(* stores stay in the store queue until the cache has them.                *)

(* Fault: violations are not looked at. *)
isCommittable_Violating(b) == allFetched(blk, b) /\ isBBcomplete(b)

isCommittable(b) ==
    ~isMemOrBrViolation(b) /\ allFetched(blk, b) /\ isBBcomplete(b)

commitImpl(k) ==
    LET out == Elements(Take(bbROB, k))
        committing == {i \in Ids : BB(i) \in out}
    IN
    /\ k <= Len(bbROB)
    /\ \A b \in out : isCommittable(b)
    /\ bbROB' = Drop(bbROB, k)
    /\ bbQUE' = Drop(bbQUE, k)
    /\ LQ' = Drop(LQ, Cardinality(committing \cap LoadIds))
    /\ ins' = Replace(ins, [i \in committing \cap StoreIds |->
                              [ins[i] EXCEPT !.stage = "COMMIT", !.lsq = "COMMIT"]])
    /\ retired' = retired \o Take(bbROB, k)

doCOMMIT ==
    /\ turn = "COMMIT"
    /\ turn' = "MEMORY"
    /\ \/ /\ pipe \in {"WAIT_FLUSH", "FLUSH"}
          /\ UNCHANGED <<bbROB, bbQUE, LQ, ins, retired>>
       \/ /\ pipe \notin {"WAIT_FLUSH", "FLUSH"}
          /\ \E k \in 0 .. Width : commitImpl(k)
    /\ UNCHANGED <<frontVars, squashVars, blk, fetchPort, decodePort, windows,
                   issuePort, EU, SQ, deleted>>

-----------------------------------------------------------------------------
(* Memory: loads whose latency is over complete, the queues are squashed,  *)
(* then pending loads and committed stores go to the memory hierarchy and  *)
(* stores the cache has taken leave the queue.                             *)

(* A load is served by an older store to its address; under naive          *)
(* speculation only by one that has computed its address.                  *)
hasMemAddr(stores, i) ==
    \E s \in Elements(stores) :
      /\ s < i
      /\ Addr(s) = Addr(i)
      /\ MemModel = "NAIVE_SPECUL" => ins[s].stage \in {"COMPLETE", "COMMIT"}

getAxesLatency(stores, i) ==
    IF hasMemAddr(stores, i)
    THEN [ins[i] EXCEPT !.lsq = "FWD_FROM_SQ"]
    ELSE [ins[i] EXCEPT !.lsq = "CACHE_WAIT", !.cacheAxes = TRUE]

findPendingLoads(q) ==
    Filter(q, {i \in Ids : /\ ins[i].stage = "MEM_ACCESS"
                           /\ ins[i].lsq = "PENDING_CACHE_DISPATCH"})
findPendingStores(q) ==
    Filter(q, {i \in Ids : ins[i].stage = "COMMIT" /\ ins[i].lsq = "COMMIT"})
DispatchedStores(q) == {i \in Elements(q) : ins[i].lsq = "CACHE_DISPATCH"}

(* Loads whose data may have come.  In a block that lost its permit, a     *)
(* load that left the window no earlier than the stores before it has      *)
(* their addresses by then: address computation takes equally long, and    *)
(* the load takes another memory latency.                                  *)
hasFinishedIns ==
    {i \in Elements(LQ) :
       /\ ins[i].lsq \in {"FWD_FROM_SQ", "CACHE_WAIT"}
       /\ ~blk[BB(i)].permit /\ ~ins[i].overtook =>
            \A s \in BlockIns(BB(i)) \cap StoreIds : s < i => ins[s].stage = "COMPLETE"}

(* The queue as the memory stage leaves it in a flush cycle. *)
squashLSQ(q) == IF pipe = "FLUSH" THEN FlushBack(q, squashSN) ELSE q

doMEMORY ==
    LET loads == squashLSQ(LQ)
        stores == squashLSQ(SQ)
    IN
    /\ turn = "MEMORY"
    /\ turn' = "EXECUTE"
    /\ \E done \in SUBSET hasFinishedIns, k, m \in 0 .. MemWidth,
          taken \in SUBSET DispatchedStores(stores) :
         /\ Cardinality(done) <= MemWidth /\ Cardinality(taken) <= MemWidth
         /\ k <= Len(findPendingLoads(loads)) /\ m <= Len(findPendingStores(stores))
         /\ LET issued == Elements(Take(findPendingLoads(loads), k))
                sent == Elements(Take(findPendingStores(stores), m))
                finished == [i \in done |-> [ins[i] EXCEPT !.stage = "COMPLETE",
                                                           !.lsq = "COMPLETE"]]
                reading == [i \in issued |-> getAxesLatency(stores, i)]
                writing == [i \in sent |-> [ins[i] EXCEPT !.lsq = "CACHE_DISPATCH"]]
            IN ins' = Replace(Replace(Replace(ins, writing), reading), finished)
         /\ blk' = incCompletedInsCntr(blk, done)
         /\ SQ' = Without(stores, taken)
    /\ LQ' = loads
    /\ UNCHANGED <<frontVars, squashVars, history, bbQUE, fetchPort, decodePort,
                   windows, issuePort, EU, bbROB>>

-----------------------------------------------------------------------------
(* Execution: finished units write back and detect mis-speculation, free   *)
(* units take the issued instructions, the squash state machine moves.     *)

(* The youngest completed load that read the cache at the address of store *)
(* st, bounded above by the next completed store to that address.  The     *)
(* scan stops short of the entry at the front of the load queue.           *)
isLQviolation(table, st) ==
    LET waw == Filter(SQ, {i \in Ids : /\ i > st
                                       /\ table[i].lsq = "COMPLETE"
                                       /\ Addr(i) = Addr(st)})
        hi == IF waw = << >> THEN Len(program) ELSE Head(waw)
        found == {LQ[n] : n \in {m \in 2 .. Len(LQ) :
                     /\ st < LQ[m] /\ LQ[m] <= hi
                     /\ Addr(LQ[m]) = Addr(st)
                     /\ table[LQ[m]].lsq = "COMPLETE"
                     /\ table[LQ[m]].cacheAxes}}
    IN IF found = {} THEN NoIns ELSE Max(found)

(* What instruction i does when its unit is done. *)
writeBack(table, i) ==
    CASE Op(i) = "LOAD"  -> [table EXCEPT ![i].stage = "MEM_ACCESS",
                                          ![i].lsq = "PENDING_CACHE_DISPATCH"]
      [] Op(i) = "STORE" -> [table EXCEPT ![i].stage = "COMPLETE",
                                          ![i].lsq = "COMPLETE"]
      [] Op(i) = "ALU"   -> [table EXCEPT ![i].stage = "COMPLETE"]

(* Fault: the kind of the squash follows the last culprit, older or not.   *)
completeUnit_LastKind(acc, i) ==
    LET t == writeBack(acc.ins, i)
        ld == IF Op(i) = "STORE" THEN isLQviolation(t, i) ELSE NoIns
        table == IF ld = NoIns THEN t ELSE [t EXCEPT ![ld].memViolation = TRUE]
        counted == incCompletedInsCntr(acc.blk, {i} \ LoadIds)
        blks == IF ld = NoIns THEN counted
                ELSE [counted EXCEPT ![BB(ld)].memViolation = TRUE]
        after == [acc EXCEPT !.ins = table, !.blk = blks]
        older(j) == acc.badInsID = 0 \/ BBheadID(BB(j)) < acc.badInsID
    IN IF ld # NoIns
       THEN [after EXCEPT !.bad = IF older(ld) THEN ld ELSE @, !.type = "MEM_MISPRED",
                          !.badInsID = IF older(ld) THEN ld ELSE @]
       ELSE IF WrongPath(i) \/ table[i].memViolation
       THEN [after EXCEPT !.bad = IF older(i) THEN i ELSE @, !.type = "BP_MISPRED",
                          !.badInsID = IF older(i) THEN i ELSE @]
       ELSE after

(* One iteration of the write-back loop.  A load found to violate is       *)
(* looked at before the instruction that completes; either replaces the    *)
(* known culprit if its block starts before that culprit, so that another  *)
(* culprit in the same block may take over, with its own kind of squash.   *)
completeUnit(acc, i) ==
    LET t == writeBack(acc.ins, i)
        ld == IF Op(i) = "STORE" THEN isLQviolation(t, i) ELSE NoIns
        table == IF ld = NoIns THEN t ELSE [t EXCEPT ![ld].memViolation = TRUE]
        counted == incCompletedInsCntr(acc.blk, {i} \ LoadIds)
        blks == IF ld = NoIns THEN counted
                ELSE [counted EXCEPT ![BB(ld)].memViolation = TRUE]
        after == [acc EXCEPT !.ins = table, !.blk = blks]
        older(j) == acc.badInsID = 0 \/ BBheadID(BB(j)) < acc.badInsID
    IN IF ld # NoIns /\ older(ld)
       THEN [after EXCEPT !.bad = ld, !.badInsID = ld, !.type = "MEM_MISPRED"]
       ELSE IF (WrongPath(i) \/ table[i].memViolation) /\ older(i)
       THEN [after EXCEPT !.bad = i, !.badInsID = i, !.type = "BP_MISPRED"]
       ELSE after

completeIns(done) ==
    LET after[e \in 0 .. Width] ==
          IF e = 0
          THEN [ins |-> ins, blk |-> blk, bad |-> NoIns, type |-> squashType,
                badInsID |-> IF pipe = "NORMAL" THEN 0 ELSE badInsID]
          ELSE IF EU[e] \in done THEN completeUnit(after[e - 1], EU[e])
          ELSE after[e - 1]
    IN after[Width]

(* The squash number is the head of the culprit's block. *)
setSquashSN(bad) ==
    IF bad # NoIns /\ (squashSN = 0 \/ BBheadID(BB(bad)) < squashSN)
    THEN BBheadID(BB(bad)) ELSE squashSN

(* The next state of the squash state machine, given the squash number and *)
(* the units after write-back and issue.                                   *)
squashCtrl(sn, type, units) ==
    IF sn # squashSN
    THEN pipe' = "WAIT_FLUSH" /\ squashSN' = sn /\ squashType' = type
    ELSE IF pipe = "NORMAL" \/ (pipe = "SQUASH_ROB" /\ bbROB = << >>)
    THEN pipe' = "NORMAL" /\ squashSN' = 0 /\ squashType' = "NO_MISPRED"
    ELSE /\ \/ /\ pipe = "WAIT_FLUSH"
               /\ pipe' = IF \A e \in 1 .. Width : units[e] = NoIns
                          THEN "FLUSH" ELSE "WAIT_FLUSH"
            \/ /\ pipe = "FLUSH"
               /\ pipe' = "DRAIN"
            \/ /\ pipe = "DRAIN"
               /\ bbROB # << >> /\ BBheadID(bbROB[1]) >= sn
               /\ pipe' = "SQUASH_ROB"
            \/ /\ pipe \in {"DRAIN", "SQUASH_ROB"}    \* older front, or no wire
               /\ pipe' = pipe
         /\ squashSN' = sn /\ squashType' = type

(* A port gives its entries in the order in which their delays end. *)
doEXECUTION ==
    /\ turn = "EXECUTE"
    /\ \E done \in SUBSET (Elements(EU) \ {NoIns}), start \in SUBSET Elements(issuePort) :
         LET c == completeIns(done)
             sn == setSquashSN(c.bad)
             units == [e \in 1 .. Width |-> IF EU[e] \in done THEN NoIns ELSE EU[e]]
             free == {e \in 1 .. Width : units[e] = NoIns}
             nth(e) == Cardinality({f \in free : f <= e})
             next == Filter(issuePort, start)
         IN
         /\ pipe = "FLUSH" => done = {}
         /\ sn # squashSN \/ pipe \in {"WAIT_FLUSH", "FLUSH"} => start = {}
         /\ Len(next) <= Cardinality(free)
         /\ EU' = [e \in 1 .. Width |-> IF e \in free /\ nth(e) <= Len(next)
                                        THEN next[nth(e)] ELSE units[e]]
         /\ issuePort' = Without(issuePort, start)
         /\ ins' = AtStage(start, "EXECUTE", c.ins)
         /\ blk' = c.blk
         /\ badInsID' = c.badInsID
         /\ squashCtrl(sn, c.type, EU')
    /\ turn' = IF pipe' = "SQUASH_ROB" THEN "SQUASH" ELSE "SCHEDULE"
    /\ UNCHANGED <<frontVars, history, bbQUE, fetchPort, decodePort, windows,
                   bbROB, LQ, SQ>>

-----------------------------------------------------------------------------
(* Squash of bbROB and of bbQUE, once everything older has committed.      *)

(* Fault: the count of completed instructions is not reset. *)
resetStates_KeepsCount(b) == [NewBlock EXCEPT !.permit = blk[b].permit,
                                              !.completed = blk[b].completed]

(* A block that is put back starts again, but for its permit. *)
resetStates(b) == [NewBlock EXCEPT !.permit = blk[b].permit]

(* The blocks in list q go back to the front of the cache. *)
insertFrontBBcache(q) ==
    /\ bbCache' = q \o bbCache
    /\ ins' = Replace(ins, [i \in {j \in Ids : BB(j) \in Elements(q)} |-> NewIns])

endsWrongPath(b) == ~isMemOrBrViolation(b) \/ hasCorrectPathIns(b)

(* Branch misprediction: the blocks from the squashed one to the first     *)
(* younger one that has right-path instructions are deleted; what follows  *)
(* is put back.                                                            *)
bpMispredSquash ==
    LET at == {n \in 1 .. Len(bbQUE) : BBheadID(bbQUE[n]) = squashSN}
        start == IF at = {} THEN 1 ELSE Max(at)
        right == {n \in 1 .. Len(bbQUE) :
                    BBheadID(bbQUE[n]) > squashSN /\ endsWrongPath(bbQUE[n])}
        stop == IF right = {} THEN Len(bbQUE) ELSE Min(right) - 1
        back == Drop(bbQUE, stop)
    IN
    /\ insertFrontBBcache(back)
    /\ blk' = Replace(blk, [b \in Elements(back) |-> resetStates(b)])
    /\ deleted' = deleted \cup {bbQUE[n] : n \in start .. stop}
    /\ bbQUE' = Take(bbQUE, start - 1)

(* Memory mis-speculation: the block and everything younger is put back;   *)
(* the block itself loses its permit to issue out of order.                *)
memMispredSquash ==
    LET kept == FlushBlocks(bbQUE, squashSN)
        back == Drop(bbQUE, Len(kept))
    IN
    /\ insertFrontBBcache(back)
    /\ blk' = Replace(blk, [b \in Elements(back) |->
                              [resetStates(b) EXCEPT !.permit = @ /\ b # Head(back)]])
    /\ bbQUE' = kept
    /\ UNCHANGED deleted

(* runCore in PIPE_SQUASH_ROB: fetch forgets its block, then commit.squash. *)
squash ==
    /\ turn = "SQUASH"
    /\ turn' = "SCHEDULE"
    /\ currentBB' = NoBB
    /\ \/ /\ bbROB = << >>
          /\ UNCHANGED <<bbROB, bbQUE, bbCache, insVars, deleted, squashType>>
       \/ /\ bbROB # << >>
          /\ bbROB' = FlushBlocks(bbROB, squashSN)
          /\ \/ squashType = "BP_MISPRED" /\ bpMispredSquash
             \/ squashType = "MEM_MISPRED" /\ memMispredSquash
          /\ squashType' = "NO_MISPRED"
    /\ UNCHANGED <<program, supplied, retired, fetchPort, decodePort, windows,
                   issuePort, EU, LQ, SQ, pipe, squashSN, badInsID>>

-----------------------------------------------------------------------------
(* Scheduling: decoded instructions are dispatched in order into windows,  *)
(* the first of a block bringing the block into bbROB; ready ones leave    *)
(* the windows.                                                            *)

(* The first k decoded instructions find room in every table. *)
canDispatch(k) ==
    LET new == Elements(Take(decodePort, k))
        newBlocks == {BB(i) : i \in new} \ Elements(bbROB)
    IN
    /\ Len(bbROB) + Cardinality(newBlocks) <= RobSize
    /\ Len(LQ) + Cardinality(new \cap LoadIds) <= LQSize
    /\ Len(SQ) + Cardinality(new \cap StoreIds) <= SQSize

updateBBROB(new) ==
    LET heads == Filter(new, HeadIds)
    IN  bbROB \o [n \in 1 .. Len(heads) |-> BB(heads[n])]

(* Every source of i is produced: its register was last written, among the *)
(* instructions in flight before i, by one that has completed.             *)
isReady(i, rob) ==
    \A a \in program[i].rd :
      LET writers == {j \in Ids : /\ j < i /\ a \in program[j].wr
                                  /\ BB(j) \in Elements(rob)}
      IN writers # {} => ins[Max(writers)].stage = "COMPLETE"

(* Fault: the permit to run ahead is not looked at. *)
runaheadPermit_Ignored(i, waiting) == TRUE

(* Without its block's permit an instruction waits for all before it.      *)
runaheadPermit(i, waiting) ==
    blk[BB(i)].permit \/ \A j \in waiting : BB(j) = BB(i) => j >= i

schedulerImpl(k, issued) ==
    LET new == Take(decodePort, k)
        rob == updateBBROB(new)
        win == windows \o new
    IN
    /\ canDispatch(k)
    /\ issued \subseteq Elements(win)
    /\ \A i \in issued : isReady(i, rob) /\ runaheadPermit(i, Elements(win) \ issued)
    /\ Len(issuePort) + Cardinality(issued) <= PortLen
    /\ decodePort' = Drop(decodePort, k)
    /\ bbROB' = rob
    /\ LQ' = LQ \o Filter(new, LoadIds)
    /\ SQ' = SQ \o Filter(new, StoreIds)
    /\ windows' = Without(win, issued)
    /\ issuePort' = issuePort \o Filter(win, issued)
    /\ ins' = Replace(ins, [i \in Elements(new) \cup issued |->
                 [ins[i] EXCEPT
                    !.stage = IF i \in issued THEN "ISSUE" ELSE "DISPATCH",
                    !.lsq = IF Op(i) = "ALU" THEN "NO_STATE" ELSE "ADDR_WAIT",
                    !.overtook = /\ i \in issued \cap LoadIds
                                 /\ \E s \in Elements(win) \ issued :
                                      s \in StoreIds /\ s < i /\ BB(s) = BB(i)]])

doSCHEDULER ==
    /\ turn = "SCHEDULE"
    /\ turn' = "DECODE"
    /\ \/ /\ pipe = "WAIT_FLUSH"
          /\ UNCHANGED <<decodePort, windows, issuePort, bbROB, LQ, SQ, ins>>
       \/ /\ pipe = "FLUSH"
          /\ issuePort' = SearchAndFlush(issuePort, squashSN)
          /\ windows' = SearchAndFlush(windows, squashSN)
          /\ UNCHANGED <<decodePort, bbROB, LQ, SQ, ins>>
       \/ /\ pipe \notin {"WAIT_FLUSH", "FLUSH"}
          /\ \E k \in 0 .. Min({Width, Len(decodePort)}) :
               \E issued \in SUBSET Elements(windows \o Take(decodePort, k)) :
                 Cardinality(issued) <= Width /\ schedulerImpl(k, issued)
    /\ UNCHANGED <<frontVars, squashVars, history, blk, bbQUE, fetchPort, EU>>

-----------------------------------------------------------------------------
(* Decode moves instructions in order. *)
doDECODE ==
    /\ turn = "DECODE"
    /\ turn' = "FETCH"
    /\ \/ /\ pipe = "WAIT_FLUSH"
          /\ UNCHANGED <<fetchPort, decodePort, ins>>
       \/ /\ pipe = "FLUSH"
          /\ decodePort' = FlushBack(decodePort, squashSN)
          /\ UNCHANGED <<fetchPort, ins>>
       \/ /\ pipe \notin {"WAIT_FLUSH", "FLUSH"}
          /\ \E k \in 0 .. Width :
               /\ k <= Len(fetchPort) /\ Len(decodePort) + k <= PortLen
               /\ fetchPort' = Drop(fetchPort, k)
               /\ decodePort' = decodePort \o Take(fetchPort, k)
               /\ ins' = AtStage(Elements(Take(fetchPort, k)), "DECODE", ins)
    /\ UNCHANGED <<frontVars, squashVars, history, blk, bbQUE, windows, issuePort,
                   EU, bbROB, LQ, SQ>>

-----------------------------------------------------------------------------
(* Fetch takes blocks from the cache one after the other and pops their    *)
(* instructions, in program order, into the free slots of the cycle.       *)

(* Blocks fetch may take: when the cache is nearly empty the core returns  *)
(* to the frontend instead.  Past the end of the program fetch goes on     *)
(* with blocks that are not followed here.                                 *)
takeable == IF ~frontendRunning THEN Len(bbCache)
            ELSE Max({Len(bbCache), NearEmpty}) - NearEmpty

(* The instructions not popped of the current block and the next n.        *)
unfetched(n) ==
    {i \in Ids : /\ BB(i) \in Elements(Take(bbCache, n)) \cup {currentBB}
                 /\ i >= BBheadID(BB(i)) + blk[BB(i)].fetched}

(* Fetch takes a block when the cycle begins, and when a slot is left,     *)
(* with none to pop from; moving on marks the block before it done.        *)
fetchImpl ==
    LET slots == Min({Width, PortLen - Len(fetchPort)})
        enough(n) == Cardinality(unfetched(n)) >= Max({slots, 1})
        taken == Take(bbCache, Min({n \in 0 .. takeable : enough(n)} \cup {takeable}))
        dry == ~enough(Len(taken))
        at == (IF currentBB = NoBB THEN << >> ELSE <<currentBB>>) \o taken
        past == IF dry /\ ~frontendRunning THEN at ELSE Take(at, Max({Len(at), 1}) - 1)
        popped == {i \in unfetched(Len(taken)) :
                     Cardinality({j \in unfetched(Len(taken)) : j < i}) < slots}
    IN
    /\ bbCache' = Drop(bbCache, Len(taken))
    /\ bbQUE' = bbQUE \o taken
    /\ currentBB' = IF past = at THEN NoBB ELSE Last(at)
    /\ blk' = [b \in Blocks |->
                 [blk[b] EXCEPT !.fetched = @ + Cardinality(popped \cap BlockIns(b)),
                                !.doneFetch = @ \/ b \in Elements(past)]]
    /\ fetchPort' = fetchPort \o Ascending(popped)
    /\ ins' = AtStage(popped, "FETCH", ins)
    /\ turn' = IF dry /\ frontendRunning THEN "FRONTEND"
               ELSE IF ~frontendRunning /\ bbCache' = << >>
                       /\ bbQUE' = << >> /\ bbROB = << >> THEN "HALT"
               ELSE "COMMIT"

doFETCH ==
    /\ turn = "FETCH"
    /\ \/ /\ pipe = "NORMAL"
          /\ fetchImpl
       \/ /\ pipe # "NORMAL"
          /\ turn' = "COMMIT"
          /\ fetchPort' = IF pipe = "FLUSH" THEN FlushBack(fetchPort, squashSN)
                         ELSE fetchPort
          /\ UNCHANGED <<bbCache, bbQUE, currentBB, insVars>>
    /\ UNCHANGED <<program, supplied, squashVars, history, decodePort, windows,
                   issuePort, EU, bbROB, LQ, SQ>>

(* The frontend hands over more of the program. *)
frontend ==
    /\ turn = "FRONTEND"
    /\ turn' = "COMMIT"
    /\ \E n \in {m \in supplyPoints : m > supplied} :
         /\ supplied' = n
         /\ bbCache' = bbCache \o [b \in 1 .. n - supplied |-> supplied + b]
    /\ UNCHANGED <<program, currentBB, queues, insVars, squashVars, history>>
    /\ handedOver'

halted == turn = "HALT" /\ UNCHANGED vars

Next ==
    \/ doCOMMIT
    \/ doMEMORY
    \/ doEXECUTION
    \/ squash
    \/ doSCHEDULER
    \/ doDECODE
    \/ doFETCH
    \/ frontend
    \/ halted

Spec == Init /\ [][Next]_vars

(* As for O3Core: runCore goes on, and what can move again and again does. *)
Progress == Next /\ work' # work
FairSpec == Spec /\ WF_vars(Next) /\ SF_vars(Progress)

-----------------------------------------------------------------------------
(* The blocks that are wholly on the right path.  A block with instructions *)
(* of both paths, as a mispredicted branch makes of the block it ends,      *)
(* counts as one of the wrong path (wrongPathCheck): it never commits, is   *)
(* deleted by the squash, and its right-path instructions go with it.       *)
RightPath(q) == Filter(q, {b \in Blocks : ~isOnWrongPath(b)})
BlocksUpTo(n) == [b \in 1 .. n |-> b]

(* The core implements in-order commit, block by block: every block that   *)
(* is wholly on the right path commits once, whole and in order, and no    *)
(* other block does, whatever is speculated, squashed, put back and        *)
(* fetched again (bb_commit, the squash machinery of bb_execution).        *)
CommitOrder == INSTANCE InOrderCommit WITH
    rightPath <- RightPath(BlocksUpTo(LastBlock)), retired <- retired
ImplementsInOrderCommit == CommitOrder!Spec

(* A block loses its permit to run ahead at most once, as the assertion of *)
(* revokeRunaheadPermit has it: when it comes again nothing older is in    *)
(* flight, and its own stores cannot be overtaken by its loads any more.   *)
PermitRevokedOnce ==
    (turn = "SQUASH" /\ bbROB # << >> /\ squashType = "MEM_MISPRED") =>
        LET back == Drop(bbQUE, Len(FlushBlocks(bbQUE, squashSN)))
        IN  back # << >> /\ blk[Head(back)].permit

(* The squash number is the head of a block in flight that holds a culprit *)
(* found, no block with one is older, and a branch squash starts at a      *)
(* wrong-path block (the assertions of bpMispredSquash); the drain reaches *)
(* that block because commit stops at any violation.  A wrong-path store   *)
(* that finds a violating load is itself passed over when it completes,    *)
(* and its block may then be older than the squash: commit waits there     *)
(* until the mispredicted branch is found as well.                         *)
Detected(i) ==
    \/ ins[i].memViolation
    \/ WrongPath(i) /\ ins[i].stage \in {"MEM_ACCESS", "COMPLETE"}

SquashesOldestBlock ==
    /\ \A i \in Ids : (BB(i) \in Elements(bbROB) /\ Detected(i)) =>
         /\ pipe # "NORMAL"
         /\ squashSN <= BBheadID(BB(i)) \/ (WrongPath(i) /\ i \in StoreIds)
    /\ (pipe # "NORMAL" /\ bbROB # << >>) =>
         \E b \in Elements(bbROB) :
            /\ squashSN = BBheadID(b)
            /\ \E i \in BlockIns(b) : Detected(i)
            /\ squashType = "BP_MISPRED" => isOnWrongPath(b)
            /\ squashType = "MEM_MISPRED" => blk[b].memViolation
    /\ pipe = "DRAIN" => bbROB # << >>

(* Commit takes the two queues' fronts together: bbROB is the front of     *)
(* bbQUE, a block's count says how many of its instructions have completed *)
(* since it was last fetched, and one that can commit is done with fetch   *)
(* (the assertions of commitImpl, incCompletedInsCntr and commitBB); no    *)
(* queue holds more than it has entries.                                   *)
CommitAgrees ==
    /\ TypeOK
    /\ IsPrefix(bbROB, bbQUE)
    /\ \A b \in Elements(bbQUE) :
         blk[b].completed = Cardinality({i \in BlockIns(b) : ins[i].stage = "COMPLETE"})
    /\ (turn = "COMMIT" /\ bbROB # << >> /\ isCommittable(Head(bbROB)))
         => blk[Head(bbROB)].doneFetch
=============================================================================
