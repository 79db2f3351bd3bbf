---------------------------- MODULE BBCore_proofs ----------------------------
(***************************************************************************)
(* The inductive invariant of the CG-OoO pipeline, for every program,      *)
(* queue size and width, the proof that every stage keeps it, and what     *)
(* follows from it.                                                        *)
(*                                                                         *)
(* IInv speaks of the sets of the blocks and of the instructions in each   *)
(* queue and of the order between them: a queue in program order is        *)
(* determined by its elements (Queues_proofs).                             *)
(***************************************************************************)
EXTENDS BBCore, Queues_proofs, SequenceTheorems

(* What is in flight: blocks, and the instructions of fetched ones. *)
Units == Elements(EU) \ {NoIns}
Fetched == Elements(bbQUE)
InROB == Elements(bbROB)
Traced == Fetched \cup Elements(bbCache)
FetchedIns == {i \in Ids : BB(i) \in Fetched}
Popped == {i \in FetchedIns : ins[i].stage # "NO_STAGE"}
Dispatched == {i \in Popped : ins[i].stage \notin {"FETCH", "DECODE"}}
Window == Dispatched \cup Elements(decodePort) \cup Elements(fetchPort)
Waiting == Elements(windows) \cup Elements(issuePort) \cup Units

(* The flush has reached the queues of the stages that have had their turn *)
(* in the flush cycle; those that still have it are in turns.              *)
FlushedIn(turns) ==
    pipe \in {"DRAIN", "SQUASH_ROB"} \/ (pipe = "FLUSH" /\ turn \in turns)

(* Every queue but issuePort is in program order; nothing is there twice.  *)
InOrder ==
    /\ Increasing(bbCache) /\ Increasing(bbQUE) /\ Increasing(bbROB)
    /\ Increasing(retired) /\ Increasing(fetchPort) /\ Increasing(decodePort)
    /\ Increasing(windows) /\ Increasing(LQ) /\ Increasing(SQ)
    /\ Distinct(issuePort)
    /\ \A d, e \in 1 .. Width : EU[d] = EU[e] /\ EU[d] # NoIns => d = e

(* Retired blocks, those in flight and those not fetched follow one        *)
(* another, and from the oldest in flight on nothing is missing.           *)
TraceOrder ==
    /\ Before(Elements(retired), Traced)
    /\ Before(Fetched, Elements(bbCache))
    /\ Elements(retired) \cup Traced \subseteq 1 .. supplied
    /\ \A b \in Elements(retired) : ~isOnWrongPath(b)
    /\ \A b \in Traced : b .. supplied \subseteq Traced

(* A block that waits has its permit, or none, left of what it went        *)
(* through.                                                                *)
Fresh(b) ==
    /\ blk[b] = [NewBlock EXCEPT !.permit = blk[b].permit]
    /\ \A i \in BlockIns(b) : ins[i] = NewIns

(* Fetch goes through the blocks in order: all but the last are done, and  *)
(* a block's count says which of its instructions have been popped.        *)
Fetching ==
    /\ \A b \in Blocks : b \in Elements(bbCache) \/ b > supplied => Fresh(b)
    /\ \A i \in FetchedIns :
         ins[i].stage # "NO_STAGE" <=> i < BBheadID(BB(i)) + blk[BB(i)].fetched
    /\ currentBB # NoBB =>
         /\ currentBB \in Fetched
         /\ \A b \in Fetched : b <= currentBB
         /\ ~blk[currentBB].doneFetch
    /\ \A b \in Fetched \ {currentBB} : allFetched(blk, b) /\ blk[b].doneFetch

(* Fetch has moved on from a block by the time its last instruction        *)
(* completes: it can take another, or the frontend hands over more first.  *)
MovesOn ==
    (pipe = "NORMAL" /\ currentBB # NoBB) =>
      LET canMove == ~frontendRunning \/ takeable > 0
      IN \A i \in BlockIns(currentBB) :
           (ins[i].stage # "NO_STAGE" /\ \A j \in BlockIns(currentBB) : j <= i) =>
             \/ i \in Elements(fetchPort)
             \/ i \in Elements(decodePort) /\ (canMove \/ turn \in {"FETCH", "FRONTEND"})
             \/ canMove /\ turn \in {"DECODE", "FETCH"}

(* The ROB and the front-end ports hold the oldest instructions fetched.   *)
WindowOrder ==
    /\ Before(Dispatched, Elements(decodePort) \cup Elements(fetchPort))
    /\ Before(Elements(decodePort), Elements(fetchPort))
    /\ Window \subseteq FetchedIns
    /\ InROB = {BB(i) : i \in Dispatched}
    /\ DownClosed(Dispatched, FetchedIns)
    /\ ~(pipe = "FLUSH" /\ turn = "FETCH") => DownClosed(Window, FetchedIns)
    /\ pipe = "NORMAL" => Popped \subseteq Window
    /\ FlushedIn({"FETCH", "COMMIT", "MEMORY", "EXECUTE"}) => decodePort = << >>
    /\ FlushedIn({"COMMIT", "MEMORY", "EXECUTE"}) => fetchPort = << >>

(* The states of the instructions of each operation that are dispatched.   *)
Lifecycle(i) ==
    /\ Op(i) = "ALU" => ins[i].stage \in {"DISPATCH", "ISSUE", "EXECUTE", "COMPLETE"}
    /\ Op(i) = "LOAD" =>
         \/ /\ ins[i].stage \in {"DISPATCH", "ISSUE", "EXECUTE"}
            /\ ins[i].lsq = "ADDR_WAIT"
         \/ /\ ins[i].stage = "MEM_ACCESS"
            /\ ins[i].lsq \in {"PENDING_CACHE_DISPATCH", "FWD_FROM_SQ", "CACHE_WAIT"}
         \/ ins[i].stage = "COMPLETE" /\ ins[i].lsq = "COMPLETE"
    /\ Op(i) = "STORE" =>
         \/ /\ ins[i].stage \in {"DISPATCH", "ISSUE", "EXECUTE"}
            /\ ins[i].lsq = "ADDR_WAIT"
         \/ ins[i].stage = "COMPLETE" /\ ins[i].lsq = "COMPLETE"

(* Where an instruction is, and the stage it says it is at. *)
Stages ==
    /\ \A i \in Elements(fetchPort) : ins[i].stage = "FETCH"
    /\ \A i \in Elements(decodePort) : ins[i].stage = "DECODE"
    /\ \A i \in FetchedIns \ Dispatched :
         /\ ins[i].lsq = "NO_STATE" /\ ~ins[i].memViolation
         /\ ~ins[i].cacheAxes /\ ~ins[i].overtook
    /\ \A i \in Elements(windows) : i \in Dispatched /\ ins[i].stage = "DISPATCH"
    /\ \A i \in Elements(issuePort) : i \in Dispatched /\ ins[i].stage = "ISSUE"
    /\ \A i \in Units : i \in Dispatched /\ ins[i].stage = "EXECUTE"
    /\ \A i \in Dispatched :
         /\ Lifecycle(i)
         /\ ins[i].stage = "EXECUTE" => i \in Units
         /\ ins[i].memViolation =>
              i \in LoadIds /\ ins[i].lsq = "COMPLETE" /\ blk[BB(i)].memViolation

(* A block counts its complete instructions. *)
Completed(b) == {i \in BlockIns(b) : ins[i].stage = "COMPLETE"}
Counting == \A b \in Fetched : blk[b].completed = Cardinality(Completed(b))

(* The load queue holds the oldest dispatched loads, the store queue the   *)
(* oldest stores behind committed ones.                                    *)
LSQ ==
    /\ Elements(LQ) \subseteq Dispatched \cap LoadIds
    /\ DownClosed(Elements(LQ), Dispatched \cap LoadIds)
    /\ Elements(SQ) \subseteq StoreIds
    /\ DownClosed(Elements(SQ), Dispatched \cap StoreIds)
    /\ \A i \in Elements(SQ) \ Dispatched :
         /\ BB(i) \in Elements(retired)
         /\ ins[i].stage = "COMMIT" /\ ins[i].lsq \in {"COMMIT", "CACHE_DISPATCH"}
    /\ \A i \in Dispatched : (pipe = "NORMAL" \/ i < squashSN \/ i \in Waiting) =>
         /\ i \in LoadIds => i \in Elements(LQ)
         /\ i \in StoreIds => i \in Elements(SQ)

(* The squash number is the head of the block of the culprit, which no     *)
(* block with a culprit precedes, until the blocks are squashed.           *)
squashBB == BB(badInsID)
Culprit ==
    /\ badInsID \in Dispatched
    /\ Detected(badInsID)
    /\ \/ squashType = "BP_MISPRED" /\ WrongPath(badInsID)
       \/ squashType = "MEM_MISPRED" /\ ins[badInsID].memViolation

Squashing ==
    /\ pipe = "NORMAL" => squashSN = 0
    /\ pipe # "NORMAL" => badInsID \in Ids /\ squashSN = BBheadID(squashBB)
    /\ pipe \in {"WAIT_FLUSH", "FLUSH", "DRAIN"} => Culprit
    /\ pipe = "SQUASH_ROB" /\ turn = "SQUASH" =>
         Culprit /\ \A b \in Fetched : squashBB <= b
    /\ pipe = "SQUASH_ROB" /\ turn # "SQUASH" => bbROB = << >> /\ bbQUE = << >>
    /\ turn = "SQUASH" => pipe = "SQUASH_ROB"
    /\ turn \in {"FRONTEND", "HALT"} => pipe = "NORMAL"
    /\ \A i \in Dispatched : Detected(i) =>
         /\ pipe # "NORMAL"
         /\ squashBB <= BB(i) \/ (WrongPath(i) /\ i \in StoreIds)

(* How far a flush has come. *)
Flushing ==
    /\ FlushedIn({"DECODE", "FETCH", "COMMIT", "MEMORY", "EXECUTE"}) =>
         \A i \in Elements(windows) \cup Elements(issuePort) : i < squashSN
    /\ pipe = "FLUSH" => Units = {}
    /\ pipe \in {"DRAIN", "SQUASH_ROB"} => \A i \in Units : i < squashSN
    /\ FlushedIn({"EXECUTE"}) =>
         \A i \in Elements(LQ) \cup Elements(SQ) : i < squashSN

(* A block without its permit is the oldest there is, and its loads never  *)
(* complete before the stores that precede them in it.                     *)
Permits ==
    /\ \A b \in Blocks : b > supplied => blk[b].permit
    /\ \A b \in Traced : ~blk[b].permit =>
         /\ \A c \in Traced : b <= c
         /\ ~blk[b].memViolation
         /\ \A i \in BlockIns(b) : ~ins[i].overtook
         /\ \A l \in BlockIns(b) \cap LoadIds, s \in BlockIns(b) \cap StoreIds :
              s < l /\ ins[l].stage = "COMPLETE" => ins[s].stage = "COMPLETE"

IInv == /\ TypeOK /\ InOrder /\ TraceOrder /\ Fetching /\ MovesOn /\ WindowOrder
        /\ Stages /\ Counting /\ LSQ /\ Squashing /\ Flushing /\ Permits

-----------------------------------------------------------------------------
(* Programs and their blocks. *)

LEMMA ProgramNumbers ==
  ASSUME program \in Programs
  PROVE  /\ Len(program) \in Nat \ {0} /\ Ids = 1 .. Len(program)
         /\ Ids \in SUBSET Nat /\ NoIns \notin Ids /\ IsFiniteSet(Ids)
         /\ LastBlock \in Nat \ {0} /\ Blocks = 1 .. LastBlock
         /\ Blocks \in SUBSET Nat /\ NoBB \notin Blocks
         /\ \A i \in Ids : /\ Op(i) \in {"ALU", "LOAD", "STORE"}
                           /\ Addr(i) \in Nat /\ WrongPath(i) \in BOOLEAN
                           /\ BB(i) \in Blocks
         /\ LoadIds \subseteq Ids /\ StoreIds \subseteq Ids /\ HeadIds \subseteq Ids
         /\ \A i, j \in Ids : i < j => BB(i) <= BB(j)
         /\ \A b \in Blocks : \E i \in Ids : BB(i) = b
<1> DEFINE R == [op : {"ALU", "LOAD", "STORE"}, addr : Nat,
                 rd : SUBSET Nat, wr : SUBSET Nat,
                 wrongPath : BOOLEAN, bb : Nat \ {0}]
<1>1. /\ program \in Seq(R) /\ program # << >>
      /\ \A m, n \in 1 .. Len(program) : m < n => program[m].bb <= program[n].bb
      /\ \A b : b \in 1 .. program[Len(program)].bb
                 <=> \E n \in 1 .. Len(program) : b = program[n].bb
  <2> HIDE DEF R
  <2>1. program \in Programs
    OBVIOUS
  <2>2. Programs \subseteq Seq(R)
    BY ProgramsAssumption DEF R
  <2>3. \A p \in Programs :
          /\ p # << >>
          /\ \A m, n \in 1 .. Len(p) : m < n => p[m].bb <= p[n].bb
          /\ {p[n].bb : n \in 1 .. Len(p)} = 1 .. p[Len(p)].bb
    BY ProgramsAssumption
  <2>4. {program[n].bb : n \in 1 .. Len(program)} = 1 .. program[Len(program)].bb
    BY <2>1, <2>3
  <2>5. \A b : b \in {program[n].bb : n \in 1 .. Len(program)}
                 <=> \E n \in 1 .. Len(program) : b = program[n].bb
    OBVIOUS
  <2>6. \A b : b \in 1 .. program[Len(program)].bb
                 <=> \E n \in 1 .. Len(program) : b = program[n].bb
    BY <2>4, <2>5, Zenon
  <2> QED BY <2>1, <2>2, <2>3, <2>6
<1>2. Len(program) \in Nat \ {0} /\ \A i \in 1 .. Len(program) : program[i] \in R
  <2> HIDE DEF R
  <2>1. Len(program) \in Nat /\ \A i \in 1 .. Len(program) : program[i] \in R
    BY <1>1
  <2>2. Len(program) # 0
    BY <1>1, EmptySeq
  <2> QED BY <2>1, <2>2
<1>3. Ids = 1 .. Len(program) /\ Ids \in SUBSET Nat /\ NoIns \notin Ids
  BY <1>2 DEF Ids, NoIns
<1>4. IsFiniteSet(Ids)
  BY <1>2, <1>3, FS_Interval
<1>5. \A i \in Ids : /\ program[i].op \in {"ALU", "LOAD", "STORE"}
                     /\ program[i].addr \in Nat /\ program[i].wrongPath \in BOOLEAN
                     /\ program[i].bb \in Nat \ {0}
  BY <1>2, <1>3
<1>6. LastBlock = program[Len(program)].bb /\ LastBlock \in Nat \ {0}
  BY <1>2, <1>3, <1>5 DEF LastBlock, BB
<1>7. \A i \in Ids : BB(i) \in 1 .. LastBlock
  BY <1>1, <1>3, <1>6 DEF BB
<1>8. \A b \in 1 .. LastBlock : \E i \in Ids : BB(i) = b
  BY <1>1, <1>3, <1>6 DEF BB
<1>9. \A i, j \in Ids : i < j => BB(i) <= BB(j)
  BY <1>1, <1>3 DEF BB
<1>10. Blocks = 1 .. LastBlock /\ Blocks \in SUBSET Nat /\ NoBB \notin Blocks
  BY <1>6 DEF Blocks, NoBB
<1>11. \A i \in Ids : /\ Op(i) \in {"ALU", "LOAD", "STORE"}
                      /\ Addr(i) \in Nat /\ WrongPath(i) \in BOOLEAN
  BY <1>5 DEF Op, Addr, WrongPath
<1>12. LoadIds \subseteq Ids /\ StoreIds \subseteq Ids /\ HeadIds \subseteq Ids
  BY DEF LoadIds, StoreIds, HeadIds
<1> QED BY <1>2, <1>3, <1>4, <1>6, <1>7, <1>8, <1>9, <1>10, <1>11, <1>12

LEMMA Numbers ==
  ASSUME TypeOK
  PROVE  /\ Len(program) \in Nat \ {0} /\ Ids = 1 .. Len(program)
         /\ Ids \in SUBSET Nat /\ NoIns \notin Ids /\ IsFiniteSet(Ids)
         /\ LastBlock \in Nat \ {0} /\ Blocks = 1 .. LastBlock
         /\ Blocks \in SUBSET Nat /\ NoBB \notin Blocks
         /\ \A i \in Ids : /\ Op(i) \in {"ALU", "LOAD", "STORE"}
                           /\ Addr(i) \in Nat /\ WrongPath(i) \in BOOLEAN
                           /\ BB(i) \in Blocks
         /\ LoadIds \subseteq Ids /\ StoreIds \subseteq Ids /\ HeadIds \subseteq Ids
         /\ \A i, j \in Ids : i < j => BB(i) <= BB(j)
         /\ \A b \in Blocks : \E i \in Ids : BB(i) = b
BY ProgramNumbers DEF TypeOK

(* A block is an interval of the program, and the blocks follow one        *)
(* another.                                                                *)
LEMMA BlockShape ==
  ASSUME TypeOK, NEW b \in Blocks
  PROVE  /\ BlockIns(b) \subseteq Ids /\ IsFiniteSet(BlockIns(b))
         /\ BBsize(b) \in Nat \ {0} /\ BBheadID(b) \in Nat
         /\ BBheadID(b) \in BlockIns(b) /\ BBheadID(b) \in HeadIds
         /\ BlockIns(b) = BBheadID(b) .. BBheadID(b) + BBsize(b) - 1
         /\ \A i \in Ids : i < BBheadID(b) <=> BB(i) < b
<1> DEFINE S == BlockIns(b)
           h == BBheadID(b)
<1>1. /\ Ids \in SUBSET Nat /\ IsFiniteSet(Ids) /\ Ids = 1 .. Len(program)
      /\ Len(program) \in Nat /\ Blocks \in SUBSET Nat
      /\ \A i \in Ids : BB(i) \in Blocks
      /\ \A i, j \in Ids : i < j => BB(i) <= BB(j)
      /\ \E i \in Ids : BB(i) = b
  BY Numbers
<1>2. S \subseteq Ids /\ S # {} /\ IsFiniteSet(S) /\ \A i \in Ids : i \in S <=> BB(i) = b
  <2>1. S \subseteq Ids /\ S # {} /\ \A i \in Ids : i \in S <=> BB(i) = b
    BY <1>1 DEF BlockIns
  <2> QED BY <2>1, <1>1, FS_Subset
<1>3. h \in S /\ \A i \in S : h <= i
  <2> HIDE DEF S
  <2>1. \E n \in S : \A m \in S : n <= m
    BY <1>1, <1>2, LeastNat
  <2>2. h = Min(S)
    BY DEF BBheadID, S
  <2> QED BY <2>1, <2>2 DEF Min
<1>4. PICK t \in S : \A i \in S : i <= t
  <2> HIDE DEF S
  <2>1. S \in SUBSET Nat /\ \A i \in S : i <= Len(program)
    BY <1>1, <1>2
  <2> QED BY <2>1, <1>1, <1>2, GreatestNat
<1> HIDE DEF S, h
<1>5. S = h .. t
  <2>1. ASSUME NEW i \in h .. t PROVE i \in S
    <3>1. i \in Ids /\ h \in Ids /\ t \in Ids /\ BB(h) = b /\ BB(t) = b
      BY <1>1, <1>2, <1>3, <1>4
    <3>2. BB(h) <= BB(i) /\ BB(i) <= BB(t)
      <4>1. CASE i = h
        BY <4>1, <3>1, <1>1
      <4>2. CASE i = t
        BY <4>2, <3>1, <1>1
      <4>3. CASE h < i /\ i < t
        BY <4>3, <3>1, <1>1
      <4> QED BY <4>1, <4>2, <4>3, <3>1, <1>1
    <3>3. BB(i) = b
      <4>1. BB(i) \in Nat /\ b \in Nat /\ b <= BB(i) /\ BB(i) <= b
        BY <3>1, <3>2, <1>1
      <4> QED BY <4>1
    <3> QED BY <3>1, <3>3, <1>2
  <2>2. ASSUME NEW i \in S PROVE i \in h .. t
    BY <1>1, <1>2, <1>3, <1>4
  <2> QED BY <2>1, <2>2
<1>6. Cardinality(S) = t - h + 1 /\ h \in Nat /\ t \in Nat /\ h <= t
  <2>1. h \in Nat /\ t \in Nat /\ h <= t
    BY <1>1, <1>2, <1>3, <1>4
  <2> QED BY <2>1, <1>5, FS_Interval
<1>7. BBsize(b) \in Nat \ {0} /\ t = h + BBsize(b) - 1
  <2>1. BBsize(b) = Cardinality(S)
    BY DEF BBsize, S
  <2> QED BY <2>1, <1>6
<1>8. h \in HeadIds
  <2>1. h \in Ids /\ BB(h) = b
    BY <1>2, <1>3
  <2> QED BY <2>1 DEF HeadIds, h
<1>9. ASSUME NEW i \in Ids PROVE i < h <=> BB(i) < b
  <2>1. h \in Ids /\ BB(h) = b /\ i \in Nat /\ BB(i) \in Nat /\ b \in Nat
    BY <1>1, <1>2, <1>3
  <2>2. i < h => BB(i) < b
    <3>1. i < h => BB(i) <= b /\ BB(i) # b
      BY <2>1, <1>1, <1>2, <1>3, <1>6
    <3> QED BY <3>1, <2>1
  <2>3. BB(i) < b => i < h
    <3>1. h < i => b <= BB(i)
      BY <2>1, <1>1
    <3>2. h = i => b = BB(i)
      BY <2>1
    <3> QED BY <3>1, <3>2, <2>1, <1>6
  <2> QED BY <2>2, <2>3
<1> QED BY <1>2, <1>3, <1>5, <1>6, <1>7, <1>8, <1>9 DEF S, h

(* Heads and instructions compare as their blocks do. *)
LEMMA BlockOrder ==
  ASSUME TypeOK, NEW i \in Ids, NEW j \in Ids
  PROVE  /\ BB(i) \in Nat /\ BB(j) \in Nat /\ i \in Nat /\ j \in Nat
         /\ BBheadID(BB(i)) \in Ids /\ BBheadID(BB(i)) \in Nat
         /\ BB(BBheadID(BB(i))) = BB(i)
         /\ BBheadID(BB(i)) <= i
         /\ i < BBheadID(BB(j)) <=> BB(i) < BB(j)
         /\ BBheadID(BB(i)) < BBheadID(BB(j)) <=> BB(i) < BB(j)
         /\ BBheadID(BB(i)) = BBheadID(BB(j)) <=> BB(i) = BB(j)
         /\ BB(i) < BB(j) => i < j
         /\ i <= j => BB(i) <= BB(j)
<1>1. /\ Ids \in SUBSET Nat /\ Blocks \in SUBSET Nat
      /\ BB(i) \in Blocks /\ BB(j) \in Blocks
  BY Numbers
<1> DEFINE h == BBheadID(BB(i))
           g == BBheadID(BB(j))
<1>2. /\ h \in BlockIns(BB(i)) /\ BlockIns(BB(i)) \subseteq Ids /\ h \in Nat
      /\ \A k \in Ids : k < h <=> BB(k) < BB(i)
  BY <1>1, BlockShape
<1>3. /\ g \in BlockIns(BB(j)) /\ BlockIns(BB(j)) \subseteq Ids /\ g \in Nat
      /\ \A k \in Ids : k < g <=> BB(k) < BB(j)
  BY <1>1, BlockShape
<1>4. h \in Ids /\ BB(h) = BB(i) /\ g \in Ids /\ BB(g) = BB(j)
  BY <1>2, <1>3 DEF BlockIns
<1> HIDE DEF h, g
<1>5. BB(i) \in Nat /\ BB(j) \in Nat /\ i \in Nat /\ j \in Nat
  BY <1>1
<1>6. /\ i < h <=> BB(i) < BB(i)
      /\ i < g <=> BB(i) < BB(j)
      /\ h < g <=> BB(i) < BB(j)
      /\ g < h <=> BB(j) < BB(i)
      /\ j < h <=> BB(j) < BB(i)
      /\ j < g <=> BB(j) < BB(j)
  BY <1>2, <1>3, <1>4
<1> QED BY <1>2, <1>3, <1>4, <1>5, <1>6 DEF h, g

(* The program stays, and what is defined from it. *)
LEMMA ProgramStays ==
  ASSUME program' = program
  PROVE  /\ Ids' = Ids /\ LoadIds' = LoadIds /\ StoreIds' = StoreIds
         /\ HeadIds' = HeadIds /\ LastBlock' = LastBlock /\ Blocks' = Blocks
         /\ supplyPoints' = supplyPoints
         /\ \A i : /\ Op(i)' = Op(i) /\ Addr(i)' = Addr(i) /\ BB(i)' = BB(i)
                   /\ WrongPath(i)' = WrongPath(i)
         /\ \A b : /\ BlockIns(b)' = BlockIns(b) /\ BBsize(b)' = BBsize(b)
                   /\ BBheadID(b)' = BBheadID(b)
                   /\ isOnWrongPath(b)' = isOnWrongPath(b)
                   /\ hasCorrectPathIns(b)' = hasCorrectPathIns(b)
<1> USE DEF Ids, Op, Addr, BB, WrongPath, BlockIns
<1>1. LastBlock' = LastBlock /\ Ids' = Ids /\ Blocks' = Blocks
      /\ LoadIds' = LoadIds /\ StoreIds' = StoreIds
  BY DEF LastBlock, Blocks, LoadIds, StoreIds
<1>2. \A b : BlockIns(b)' = BlockIns(b) /\ BBheadID(b)' = BBheadID(b)
             /\ BBsize(b)' = BBsize(b)
  BY DEF BBheadID, BBsize
<1>3. \A b : isOnWrongPath(b)' = isOnWrongPath(b)
             /\ hasCorrectPathIns(b)' = hasCorrectPathIns(b)
  BY DEF isOnWrongPath, hasCorrectPathIns
<1>4. HeadIds' = HeadIds
  BY DEF HeadIds, BBheadID
<1>5. supplyPoints' = supplyPoints
  BY DEF supplyPoints, Blocks, LastBlock, hasCorrectPathIns
<1> QED BY <1>1, <1>2, <1>3, <1>4, <1>5

-----------------------------------------------------------------------------
(* Types. *)

LEMMA QueueTypes ==
  ASSUME TypeOK
  PROVE  /\ bbCache \in Seq(Blocks) /\ bbQUE \in Seq(Blocks) /\ bbROB \in Seq(Blocks)
         /\ retired \in Seq(Blocks)
         /\ fetchPort \in Seq(Ids) /\ decodePort \in Seq(Ids) /\ windows \in Seq(Ids)
         /\ issuePort \in Seq(Ids) /\ LQ \in Seq(Ids) /\ SQ \in Seq(Ids)
BY DEF TypeOK

LEMMA Sizes ==
  ASSUME TypeOK
  PROVE  /\ {Width, MemWidth, PortLen, RobSize, LQSize, SQSize} \subseteq Nat
         /\ Width # 0 /\ NearEmpty \in Nat
         /\ Len(fetchPort) <= PortLen /\ Len(decodePort) <= PortLen
         /\ Len(issuePort) <= PortLen
         /\ Len(bbROB) <= RobSize /\ Len(LQ) <= LQSize /\ Len(SQ) <= SQSize
BY SizesAssumption DEF TypeOK

(* The pipeline state of an instruction and of a block. *)
InsState == [stage : Stage, lsq : LsqState, memViolation : BOOLEAN,
             cacheAxes : BOOLEAN, overtook : BOOLEAN]
BlkState == [fetched : Nat, doneFetch : BOOLEAN, completed : Nat,
             memViolation : BOOLEAN, permit : BOOLEAN]

LEMMA Tables ==
  ASSUME TypeOK
  PROVE  /\ ins \in [Ids -> InsState] /\ blk \in [Blocks -> BlkState]
         /\ NewIns \in InsState /\ NewBlock \in BlkState
         /\ \A b \in Blocks : blk[b].fetched <= BBsize(b) /\ blk[b].completed <= BBsize(b)
         /\ supplied \in Blocks /\ supplied \in Nat
BY Numbers DEF TypeOK, InsState, BlkState, NewIns, NewBlock, Stage, LsqState

LEMMA UnitsType ==
  ASSUME TypeOK
  PROVE  /\ Units \subseteq Ids
         /\ Units = {EU[e] : e \in 1 .. Width} \ {NoIns}
         /\ EU \in [1 .. Width -> Ids \cup {NoIns}]
<1>1. EU \in [1 .. Width -> Ids \cup {NoIns}] /\ Width \in Nat
  BY SizesAssumption DEF TypeOK
<1>2. Len(EU) = Width
  BY <1>1
<1> QED BY <1>1, <1>2 DEF Units, Elements

LEMMA ElementTypes ==
  ASSUME TypeOK
  PROVE  /\ Elements(bbCache) \subseteq Blocks /\ Fetched \subseteq Blocks
         /\ InROB \subseteq Blocks /\ Elements(retired) \subseteq Blocks
         /\ Elements(fetchPort) \subseteq Ids /\ Elements(decodePort) \subseteq Ids
         /\ Elements(windows) \subseteq Ids /\ Elements(issuePort) \subseteq Ids
         /\ Elements(LQ) \subseteq Ids /\ Elements(SQ) \subseteq Ids
         /\ Units \subseteq Ids /\ Traced \subseteq Blocks
BY QueueTypes, ElementsIn, UnitsType DEF Fetched, InROB, Traced

(* The instructions in flight are among those of the fetched blocks. *)
LEMMA Flight ==
  ASSUME IInv
  PROVE  /\ FetchedIns \subseteq Ids /\ Popped \subseteq FetchedIns
         /\ Dispatched \subseteq Popped /\ Window \subseteq FetchedIns
         /\ Waiting \subseteq Dispatched
         /\ InROB \subseteq Fetched /\ Fetched \subseteq Blocks
         /\ Dispatched \subseteq Ids
         /\ Dispatched = {i \in FetchedIns :
                            ins[i].stage \notin {"NO_STAGE", "FETCH", "DECODE"}}
<1>1. Fetched \subseteq Blocks
  BY ElementTypes DEF IInv
<1>2. Waiting \subseteq Dispatched /\ Window \subseteq FetchedIns
      /\ InROB = {BB(i) : i \in Dispatched}
  BY DEF IInv, WindowOrder, Stages, Waiting
<1>3. \A i \in Dispatched : BB(i) \in Fetched
  BY DEF Dispatched, Popped, FetchedIns
<1> QED BY <1>1, <1>2, <1>3 DEF FetchedIns, Popped, Dispatched

LEMMA FlushBackElements ==
  ASSUME NEW D \in SUBSET Nat, NEW q \in Seq(D), Increasing(q), NEW sn \in Nat
  PROVE  /\ FlushBack(q, sn) \in Seq(D)
         /\ Increasing(FlushBack(q, sn))
         /\ Len(FlushBack(q, sn)) <= Len(q)
         /\ Elements(FlushBack(q, sn)) = {i \in Elements(q) : i < sn}
<1> DEFINE M == {0} \cup {n \in 1 .. Len(q) : q[n] < sn}
           k == Max(M)
<1>0. Len(q) \in Nat /\ \A n \in 1 .. Len(q) : q[n] \in Nat
  BY ElementsIn
<1>1. k \in M /\ \A n \in M : k >= n
  <2>1. M \in SUBSET Nat /\ M # {} /\ \A n \in M : n <= Len(q)
    BY <1>0
  <2> HIDE DEF M
  <2>2. \E n \in M : \A m \in M : m <= n
    BY <2>1, <1>0, GreatestNat
  <2>3. \E n \in M : \A m \in M : n >= m
    BY <2>1, <2>2
  <2> QED BY <2>3 DEF Max
<1>2. FlushBack(q, sn) = Take(q, k)
  BY DEF FlushBack
<1>3. k \in 0 .. Len(q)
  BY <1>0, <1>1
<1> HIDE DEF k
<1>4. \A n \in 1 .. Len(q) : q[n] < sn <=> n <= k
  <2> TAKE n \in 1 .. Len(q)
  <2>1. q[n] < sn => n <= k
    BY <1>1, <1>3
  <2>2. ASSUME n <= k PROVE q[n] < sn
    <3>1. k \in 1 .. Len(q) /\ q[k] < sn
      BY <1>0, <1>1, <1>3, <2>2
    <3>2. CASE n = k
      BY <3>1, <3>2
    <3>3. CASE n < k
      <4>1. q[n] < q[k]
        BY <3>1, <3>3 DEF Increasing
      <4> QED BY <4>1, <3>1, <1>0
    <3> QED BY <3>2, <3>3, <2>2, <1>3
  <2> QED BY <2>1, <2>2
<1>5. {q[n] : n \in 1 .. k} = {i \in Elements(q) : i < sn}
  BY <1>4, <1>3 DEF Elements
<1>6. Take(q, k) \in Seq(D) /\ Len(Take(q, k)) = k
  BY <1>3, TakeDrop
<1>7. Increasing(Take(q, k))
  BY <1>3, IncreasingTakeDrop
<1>8. Elements(Take(q, k)) = {q[n] : n \in 1 .. k}
  BY <1>3, TakeDropElements
<1> QED BY <1>2, <1>3, <1>5, <1>6, <1>7, <1>8

LEMMA ReplaceTable ==
  ASSUME NEW D, NEW T, NEW S \in SUBSET D, NEW table \in [D -> T], NEW new \in [S -> T]
  PROVE  /\ Replace(table, new) \in [D -> T]
         /\ \A i \in D \ S : Replace(table, new)[i] = table[i]
         /\ \A i \in S : Replace(table, new)[i] = new[i]
<1>1. Replace(table, new) = [i \in D |-> IF i \in S THEN new[i] ELSE table[i]]
  BY DEF Replace
<1> QED BY <1>1

LEMMA AtStageTable ==
  ASSUME NEW D, NEW S \in SUBSET D, NEW table \in [D -> InsState], NEW s \in Stage
  PROVE  /\ AtStage(S, s, table) \in [D -> InsState]
         /\ \A i \in D \ S : AtStage(S, s, table)[i] = table[i]
         /\ \A i \in S : AtStage(S, s, table)[i].stage = s
         /\ \A i \in D : /\ AtStage(S, s, table)[i].lsq = table[i].lsq
                         /\ AtStage(S, s, table)[i].memViolation = table[i].memViolation
                         /\ AtStage(S, s, table)[i].cacheAxes = table[i].cacheAxes
                         /\ AtStage(S, s, table)[i].overtook = table[i].overtook
<1>1. AtStage(S, s, table) =
        [i \in D |-> IF i \in S THEN [table[i] EXCEPT !.stage = s] ELSE table[i]]
  BY DEF AtStage, Replace
<1>2. ASSUME NEW i \in D
      PROVE  LET t == [table[i] EXCEPT !.stage = s]
             IN /\ t \in InsState /\ t.stage = s /\ t.lsq = table[i].lsq
                /\ t.memViolation = table[i].memViolation
                /\ t.cacheAxes = table[i].cacheAxes
                /\ t.overtook = table[i].overtook
  <2>1. table[i] \in InsState
    OBVIOUS
  <2> QED BY <2>1 DEF InsState
<1> QED BY <1>1, <1>2
LEMMA MaxOfTwo ==
  ASSUME NEW a \in Nat, NEW b \in Nat
  PROVE  Max({a, b}) = IF a >= b THEN a ELSE b
<1>1. \E x \in {a, b} : \A y \in {a, b} : x >= y
  OBVIOUS
<1>2. Max({a, b}) \in {a, b} /\ \A y \in {a, b} : Max({a, b}) >= y
  BY <1>1 DEF Max
<1> QED BY <1>2

LEMMA MinOfTwo ==
  ASSUME NEW a \in Nat, NEW b \in Nat
  PROVE  Min({a, b}) = IF a <= b THEN a ELSE b
<1>1. \E x \in {a, b} : \A y \in {a, b} : x <= y
  OBVIOUS
<1>2. Min({a, b}) \in {a, b} /\ \A y \in {a, b} : Min({a, b}) <= y
  BY <1>1 DEF Min
<1> QED BY <1>2

(* How many blocks fetch may take. *)
LEMMA Takeable ==
  ASSUME TypeOK
  PROVE  /\ Len(bbCache) \in Nat /\ takeable \in 0 .. Len(bbCache)
         /\ ~frontendRunning => takeable = Len(bbCache)
         /\ handedOver => ~frontendRunning \/ takeable > 0
<1>1. Len(bbCache) \in Nat /\ NearEmpty \in Nat
  BY QueueTypes, ElementsIn, Sizes
<1>2. Max({Len(bbCache), NearEmpty}) = IF Len(bbCache) >= NearEmpty THEN Len(bbCache) ELSE NearEmpty
  BY <1>1, MaxOfTwo
<1>3. takeable = IF ~frontendRunning \/ Len(bbCache) >= NearEmpty
                 THEN IF ~frontendRunning THEN Len(bbCache) ELSE Len(bbCache) - NearEmpty
                 ELSE 0
  BY <1>1, <1>2 DEF takeable
<1> QED BY <1>1, <1>3 DEF handedOver

(* Whether fetch can go on to another block. *)
canMove == ~frontendRunning \/ takeable > 0

LEMMA HandedOverMoves == TypeOK /\ handedOver => canMove
BY Takeable DEF canMove

LEMMA HandedOverMovesNext == TypeOK' /\ handedOver' => canMove'
BY HandedOverMoves, PTL

(* Sets that depend on the program, on bbQUE and on the stages alone. *)
LEMMA SetsStay ==
  ASSUME UNCHANGED <<program, bbQUE>>, IInv, ins' = ins
  PROVE  /\ Fetched' = Fetched /\ FetchedIns' = FetchedIns /\ Popped' = Popped
         /\ Dispatched' = Dispatched
         /\ \A b : Completed(b)' = Completed(b)
         /\ \A i : Detected(i)' = Detected(i)
<1> USE DEF Fetched, FetchedIns
<1>1. Ids' = Ids /\ \A i : BB(i)' = BB(i)
  BY ProgramStays
<1>2. FetchedIns' = FetchedIns
  BY <1>1
<1> QED BY <1>1, <1>2, ProgramStays DEF Popped, Dispatched, Completed, Detected

-----------------------------------------------------------------------------
(* The frontend hands over more of the program. *)

LEMMA FrontendStep ==
  ASSUME IInv, frontend
  PROVE  IInv'
<1> USE DEF queues, squashVars, history, insVars
<1>u. UNCHANGED <<program, currentBB, bbQUE, fetchPort, decodePort, windows, issuePort,
                  EU, bbROB, LQ, SQ, blk, ins, pipe, squashSN, squashType, badInsID,
                  retired, deleted>>
  BY DEF frontend
<1>1. PICK n \in {m \in supplyPoints : m > supplied} :
        /\ supplied' = n
        /\ bbCache' = bbCache \o [b \in 1 .. n - supplied |-> supplied + b]
  BY DEF frontend
<1>2. turn = "FRONTEND" /\ turn' = "COMMIT" /\ pipe = "NORMAL" /\ handedOver'
  BY DEF frontend, IInv, Squashing
<1>3. TypeOK /\ Blocks \in SUBSET Nat /\ Blocks = 1 .. LastBlock /\ LastBlock \in Nat
  BY Numbers DEF IInv
<1>t. /\ Ids' = Ids /\ Blocks' = Blocks /\ LoadIds' = LoadIds /\ StoreIds' = StoreIds
      /\ HeadIds' = HeadIds /\ LastBlock' = LastBlock
      /\ \A i : Op(i)' = Op(i) /\ BB(i)' = BB(i) /\ WrongPath(i)' = WrongPath(i)
      /\ \A b : /\ BlockIns(b)' = BlockIns(b) /\ BBsize(b)' = BBsize(b)
                /\ BBheadID(b)' = BBheadID(b) /\ isOnWrongPath(b)' = isOnWrongPath(b)
  BY <1>u, ProgramStays
<1>4. n \in Blocks /\ n \in Nat /\ supplied \in Nat /\ supplied < n
      /\ 1 .. n \subseteq Blocks
  <2>1. n \in Blocks /\ supplied < n
    BY <1>1 DEF supplyPoints
  <2>2. supplied \in Nat
    BY <1>3, Tables
  <2> QED BY <2>1, <2>2, <1>3
<1> DEFINE new == [b \in 1 .. n - supplied |-> supplied + b]
<1>5. /\ new \in Seq(Blocks) /\ Len(new) = n - supplied
      /\ \A b \in 1 .. n - supplied : new[b] = supplied + b
  BY <1>4
<1> HIDE DEF new
<1>6. Elements(new) = supplied + 1 .. n
  <2>1. \A j \in supplied + 1 .. n : j - supplied \in 1 .. n - supplied /\ j = new[j - supplied]
    BY <1>4, <1>5
  <2>2. \A i \in 1 .. n - supplied : new[i] \in supplied + 1 .. n
    BY <1>4, <1>5
  <2> QED BY <1>5, <2>1, <2>2 DEF Elements
<1>7. Increasing(new)
  BY <1>4, <1>5 DEF Increasing
<1>8. bbCache' = bbCache \o new
  BY <1>1 DEF new
<1>9. /\ Elements(bbCache) \subseteq 1 .. supplied
      /\ bbCache \in Seq(Blocks) /\ Increasing(bbCache)
  BY <1>3, QueueTypes DEF IInv, TraceOrder, Traced, InOrder
<1>10. Before(Elements(bbCache), Elements(new))
  BY <1>4, <1>6, <1>9 DEF Before
<1>11. /\ bbCache' \in Seq(Blocks) /\ Increasing(bbCache')
       /\ Elements(bbCache') = Elements(bbCache) \cup (supplied + 1 .. n)
  <2> DEFINE cc == bbCache \o new
  <2>1. cc \in Seq(Blocks) /\ Elements(cc) = Elements(bbCache) \cup Elements(new)
    BY <1>5, <1>9, Concat
  <2>2. Increasing(cc)
    BY <1>3, <1>5, <1>7, <1>9, <1>10, Concat
  <2> QED BY <2>1, <2>2, <1>6, <1>8
<1>s. /\ Fetched' = Fetched /\ FetchedIns' = FetchedIns /\ Popped' = Popped
      /\ Dispatched' = Dispatched /\ InROB' = InROB /\ Units' = Units
      /\ Window' = Window /\ Waiting' = Waiting
      /\ \A b : Completed(b)' = Completed(b)
      /\ \A i : Detected(i)' = Detected(i)
  BY <1>u, SetsStay DEF InROB, Units, Window, Waiting
<1> USE <1>2, <1>t, <1>u, <1>s
<1>12. TypeOK'
  <2>2. \A q \in {bbCache', bbQUE', bbROB', retired'} : q \in Seq(Blocks')
    BY <1>3, <1>11, QueueTypes
  <2>3. supplied' \in Blocks'
    BY <1>1, <1>4
  <2> QED BY <1>3, <2>2, <2>3 DEF TypeOK
<1>13. InOrder'
  BY <1>11 DEF IInv, InOrder
<1>14. TraceOrder'
  <2>1. TraceOrder
    BY DEF IInv
  <2>2. /\ Elements(retired) \cup Fetched \cup Elements(bbCache) \subseteq 1 .. supplied
        /\ Traced' = Traced \cup (supplied + 1 .. n)
    BY <2>1, <1>11 DEF TraceOrder, Traced
  <2>3. Before(Elements(retired'), Traced') /\ Before(Fetched', Elements(bbCache'))
    BY <2>1, <2>2, <1>4, <1>11 DEF TraceOrder, Traced, Before
  <2>4. Elements(retired') \cup Traced' \subseteq 1 .. supplied'
    BY <2>2, <1>1, <1>4 DEF Traced
  <2>5. \A i \in Traced' : i .. supplied' \subseteq Traced'
    <3> SUFFICES ASSUME NEW i \in Traced', NEW j \in i .. n PROVE j \in Traced'
      BY <1>1
    <3>1. i \in Nat
      BY <2>4, <1>1, <1>4
    <3>2. CASE j <= supplied
      <4>1. i \in Traced /\ j \in i .. supplied
        BY <3>1, <3>2, <2>2, <1>4
      <4> QED BY <4>1, <2>1, <2>2 DEF TraceOrder
    <3>3. CASE j > supplied
      BY <3>1, <3>3, <2>2, <1>4
    <3> QED BY <3>1, <3>2, <3>3, <1>4
  <2> QED BY <2>1, <2>3, <2>4, <2>5 DEF TraceOrder
<1>15. Fetching'
  <2>1. Fetching
    BY DEF IInv
  <2>2. \A b \in Blocks : Fresh(b)' = Fresh(b)
    BY DEF Fresh
  <2>3. \A b \in Blocks : b \in Elements(bbCache') \/ b > supplied' => Fresh(b)'
    <3> SUFFICES ASSUME NEW b \in Blocks, b \in Elements(bbCache') \/ b > supplied'
                 PROVE  Fresh(b)
      BY <2>2
    <3>1. b \in Elements(bbCache) \/ b > supplied
      BY <1>1, <1>3, <1>4, <1>11
    <3> QED BY <3>1, <2>1 DEF Fetching
  <2> QED BY <2>1, <2>3 DEF Fetching, allFetched
<1>16. MovesOn'
  <2>1. canMove'
    BY <1>12, HandedOverMovesNext
  <2> QED BY <2>1 DEF IInv, MovesOn, canMove
<1>17. WindowOrder'
  BY DEF IInv, WindowOrder, FlushedIn
<1>18. Stages'
  BY DEF IInv, Stages, Lifecycle
<1>19. Counting'
  BY DEF IInv, Counting
<1>20. LSQ'
  BY DEF IInv, LSQ
<1>21. Squashing'
  BY DEF IInv, Squashing, Culprit, squashBB
<1>22. Flushing'
  BY DEF IInv, Flushing, FlushedIn
<1>23. Permits'
  <2>1. Traced' = Traced \cup (supplied + 1 .. n)
    BY <1>11 DEF Traced
  <2>a. \A b \in Blocks : b > supplied' => blk[b].permit
    BY <1>1, <1>3, <1>4 DEF IInv, Permits
  <2> SUFFICES ASSUME NEW b \in Traced', ~blk[b].permit
               PROVE  /\ \A c \in Traced' : b <= c
                      /\ b \in Traced
    BY <2>a DEF IInv, Permits
  <2>2. b \in Traced
    <3> SUFFICES ASSUME b \in supplied + 1 .. n PROVE FALSE
      BY <2>1
    <3>1. b \in Blocks /\ b > supplied
      BY <1>4
    <3> QED BY <3>1 DEF IInv, Permits
  <2>3. \A c \in Traced : b <= c
    BY <2>2 DEF IInv, Permits
  <2>4. b <= supplied /\ b \in Nat
    BY <2>2, <1>4 DEF IInv, TraceOrder
  <2>5. \A c \in supplied + 1 .. n : b <= c
    BY <2>4, <1>4
  <2> QED BY <2>1, <2>2, <2>3, <2>5
<1> QED BY <1>12, <1>13, <1>14, <1>15, <1>16, <1>17, <1>18, <1>19, <1>20, <1>21,
           <1>22, <1>23 DEF IInv


-----------------------------------------------------------------------------
(* What a step leaves alone. *)

(* Which instructions are popped and dispatched depends on whether they    *)
(* are at the stages of the front end.                                     *)
FrontStage == {"NO_STAGE", "FETCH", "DECODE"}

LEMMA SameSets ==
  ASSUME UNCHANGED <<program, bbQUE>>,
         \A i \in FetchedIns :
           /\ ins'[i].stage = "NO_STAGE" <=> ins[i].stage = "NO_STAGE"
           /\ ins'[i].stage \in FrontStage <=> ins[i].stage \in FrontStage
  PROVE  /\ Fetched' = Fetched /\ FetchedIns' = FetchedIns /\ Popped' = Popped
         /\ Dispatched' = Dispatched
<1>1. Ids' = Ids /\ \A i : BB(i)' = BB(i)
  BY ProgramStays
<1>2. Fetched' = Fetched
  BY DEF Fetched
<1>3. FetchedIns' = FetchedIns
  BY <1>1, <1>2 DEF FetchedIns
<1>4. Popped' = Popped
  BY <1>3 DEF Popped
<1>5. Dispatched = {i \in FetchedIns : ins[i].stage \notin FrontStage}
  BY DEF Dispatched, Popped, FrontStage
<1>6. Dispatched' = {i \in FetchedIns' : ins'[i].stage \notin FrontStage}
  BY DEF Dispatched, Popped, FrontStage
<1> QED BY <1>2, <1>3, <1>4, <1>5, <1>6

(* The blocks that wait, and those of them not handed over.                *)
LEMMA FreshApart ==
  ASSUME IInv, NEW b \in Blocks, b \in Elements(bbCache) \/ b > supplied
  PROVE  /\ b \notin Fetched /\ b \notin Elements(retired) /\ Fresh(b)
         /\ \A i \in BlockIns(b) : i \in Ids /\ BB(i) = b /\ i \notin FetchedIns
<1>1. /\ Blocks \in SUBSET Nat /\ supplied \in Nat
      /\ Fetched \subseteq Blocks /\ Elements(retired) \subseteq Blocks
  BY Numbers, Tables, ElementTypes DEF IInv
<1>2. /\ Before(Elements(retired), Traced) /\ Before(Fetched, Elements(bbCache))
      /\ Elements(retired) \cup Traced \subseteq 1 .. supplied
  BY DEF IInv, TraceOrder
<1>3. b \notin Fetched
  BY <1>1, <1>2 DEF Before, Traced
<1>4. b \notin Elements(retired)
  BY <1>1, <1>2 DEF Before, Traced
<1>5. Fresh(b)
  BY DEF IInv, Fetching
<1> QED BY <1>3, <1>4, <1>5 DEF BlockIns, FetchedIns

LEMMA FreshStays ==
  ASSUME IInv, UNCHANGED <<program, supplied, bbCache>>,
         \A i \in Ids : BB(i) \notin Fetched \cup Elements(retired) => ins'[i] = ins[i],
         \A b \in Blocks : b \notin Fetched => blk'[b] = blk[b]
  PROVE  \A b \in Blocks' : b \in Elements(bbCache') \/ b > supplied' => Fresh(b)'
<1>t. Ids' = Ids /\ Blocks' = Blocks /\ \A b : BlockIns(b)' = BlockIns(b)
  BY ProgramStays
<1> SUFFICES ASSUME NEW b \in Blocks, b \in Elements(bbCache) \/ b > supplied
             PROVE  Fresh(b)'
  BY <1>t
<1>1. /\ b \notin Fetched /\ b \notin Elements(retired) /\ Fresh(b)
      /\ \A i \in BlockIns(b) : i \in Ids /\ BB(i) = b
  BY FreshApart
<1>2. blk'[b] = blk[b] /\ \A i \in BlockIns(b) : ins'[i] = ins[i]
  BY <1>1
<1> QED BY <1>1, <1>2, <1>t DEF Fresh

(* While there is a culprit nothing in the front-end ports is older.       *)
LEMMA CulpritFirst ==
  ASSUME IInv, pipe \in {"WAIT_FLUSH", "FLUSH", "DRAIN"}
  PROVE  /\ badInsID \in Dispatched /\ badInsID \in Ids /\ badInsID \in Nat
         /\ squashSN \in Nat /\ squashSN = BBheadID(squashBB)
         /\ squashBB \in Nat /\ squashBB \in InROB /\ squashSN <= badInsID
         /\ \A i \in Ids : i < squashSN <=> BB(i) < squashBB
         /\ \A i \in Elements(decodePort) \cup Elements(fetchPort) :
              i \in Nat /\ ~(i < squashSN)
<1>1. TypeOK /\ Ids \in SUBSET Nat
  BY Numbers DEF IInv
<1>2. badInsID \in Dispatched /\ squashSN = BBheadID(squashBB) /\ badInsID \in Ids
  BY DEF IInv, Squashing, Culprit
<1>3. /\ badInsID \in Nat /\ squashBB \in Nat /\ BBheadID(squashBB) \in Nat
      /\ BBheadID(squashBB) <= badInsID
      /\ \A i \in Ids : i < BBheadID(squashBB) <=> BB(i) < squashBB
  BY <1>1, <1>2, BlockOrder DEF squashBB
<1>4. \A i \in Elements(decodePort) \cup Elements(fetchPort) :
         badInsID < i /\ i \in Nat
  BY <1>1, <1>2, ElementTypes DEF IInv, WindowOrder, Before
<1>5. squashBB \in InROB
  BY <1>2 DEF IInv, WindowOrder, squashBB
<1> QED BY <1>2, <1>3, <1>4, <1>5

-----------------------------------------------------------------------------
(* A stage that does nothing in this state of the pipeline. *)

LEMMA Stalled ==
  ASSUME IInv, UNCHANGED work,
         \/ /\ pipe = "WAIT_FLUSH"
            /\ turn \in {"SCHEDULE", "DECODE", "COMMIT"}
            /\ turn' \in {"DECODE", "FETCH", "MEMORY"}
         \/ pipe = "FLUSH" /\ turn = "COMMIT" /\ turn' = "MEMORY"
  PROVE  IInv'
<1> USE DEF work, frontVars, queues, squashVars, history, insVars
<1>u. UNCHANGED <<program, supplied, bbCache, currentBB, pipe, squashSN, squashType,
                  badInsID, ins, blk, retired, deleted, bbQUE, fetchPort, decodePort,
                  windows, issuePort, EU, bbROB, LQ, SQ>>
  OBVIOUS
<1>t. /\ Ids' = Ids /\ Blocks' = Blocks /\ LoadIds' = LoadIds /\ StoreIds' = StoreIds
      /\ HeadIds' = HeadIds /\ LastBlock' = LastBlock
      /\ \A i : Op(i)' = Op(i) /\ BB(i)' = BB(i) /\ WrongPath(i)' = WrongPath(i)
      /\ \A b : /\ BlockIns(b)' = BlockIns(b) /\ BBsize(b)' = BBsize(b)
                /\ BBheadID(b)' = BBheadID(b) /\ isOnWrongPath(b)' = isOnWrongPath(b)
  BY <1>u, ProgramStays
<1>s. /\ Fetched' = Fetched /\ FetchedIns' = FetchedIns /\ Popped' = Popped
      /\ Dispatched' = Dispatched /\ InROB' = InROB /\ Units' = Units
      /\ Window' = Window /\ Waiting' = Waiting /\ Traced' = Traced
      /\ \A b : Completed(b)' = Completed(b)
      /\ \A i : Detected(i)' = Detected(i)
  BY <1>u, SetsStay DEF InROB, Units, Window, Waiting, Traced
<1> USE <1>u, <1>t, <1>s
<1>1. TypeOK'
  BY DEF IInv, TypeOK
<1>2. InOrder' /\ TraceOrder'
  BY DEF IInv, InOrder, TraceOrder
<1>3. Fetching' /\ MovesOn'
  BY DEF IInv, Fetching, MovesOn, Fresh, allFetched
<1>4. WindowOrder'
  BY DEF IInv, WindowOrder, FlushedIn
<1>5. Stages' /\ Counting'
  BY DEF IInv, Stages, Lifecycle, Counting
<1>6. LSQ'
  BY DEF IInv, LSQ
<1>7. Squashing'
  BY DEF IInv, Squashing, Culprit, squashBB
<1>8. Flushing'
  BY DEF IInv, Flushing, FlushedIn
<1>9. Permits'
  BY DEF IInv, Permits
<1> QED BY <1>1, <1>2, <1>3, <1>4, <1>5, <1>6, <1>7, <1>8, <1>9 DEF IInv

-----------------------------------------------------------------------------
(* Decode. *)

LEMMA DecodeFlush ==
  ASSUME IInv, doDECODE, pipe = "FLUSH"
  PROVE  IInv'
<1> USE DEF frontVars, squashVars, history
<1>u. UNCHANGED <<program, supplied, bbCache, currentBB, pipe, squashSN, squashType,
                  badInsID, ins, blk, retired, deleted, bbQUE, fetchPort, windows,
                  issuePort, EU, bbROB, LQ, SQ>>
  BY DEF doDECODE
<1>2. turn = "DECODE" /\ turn' = "FETCH"
  BY DEF doDECODE
<1>t. /\ Ids' = Ids /\ Blocks' = Blocks /\ LoadIds' = LoadIds /\ StoreIds' = StoreIds
      /\ HeadIds' = HeadIds /\ LastBlock' = LastBlock
      /\ \A i : Op(i)' = Op(i) /\ BB(i)' = BB(i) /\ WrongPath(i)' = WrongPath(i)
      /\ \A b : /\ BlockIns(b)' = BlockIns(b) /\ BBsize(b)' = BBsize(b)
                /\ BBheadID(b)' = BBheadID(b) /\ isOnWrongPath(b)' = isOnWrongPath(b)
  BY <1>u, ProgramStays
<1>s. /\ Fetched' = Fetched /\ FetchedIns' = FetchedIns /\ Popped' = Popped
      /\ Dispatched' = Dispatched /\ InROB' = InROB /\ Units' = Units
      /\ Waiting' = Waiting /\ Traced' = Traced
      /\ \A b : Completed(b)' = Completed(b)
      /\ \A i : Detected(i)' = Detected(i)
  BY <1>u, SetsStay DEF InROB, Units, Waiting, Traced
<1>3. TypeOK /\ Ids \in SUBSET Nat
  BY Numbers DEF IInv
<1>4. decodePort' = << >> /\ Elements(decodePort') = {}
  <2>1. decodePort' = FlushBack(decodePort, squashSN)
    BY DEF doDECODE
  <2>2. /\ squashSN \in Nat
        /\ \A i \in Elements(decodePort) : i \in Nat /\ ~(i < squashSN)
    BY CulpritFirst
  <2>4. /\ FlushBack(decodePort, squashSN) \in Seq(Ids)
        /\ Elements(FlushBack(decodePort, squashSN)) =
             {i \in Elements(decodePort) : i < squashSN}
    BY <1>3, <2>2, QueueTypes, FlushBackElements DEF IInv, InOrder
  <2>5. Elements(FlushBack(decodePort, squashSN)) = {}
    BY <2>2, <2>4
  <2> QED BY <2>1, <2>4, <2>5, ElementsIn
<1> USE <1>u, <1>2, <1>t, <1>s, <1>4
<1>7. TypeOK'
  <2>1. decodePort' \in Seq(Ids) /\ Len(decodePort') <= PortLen
    BY EmptyQueue, SizesAssumption
  <2> QED BY <1>3, <2>1, ZenonT(60) DEF TypeOK
<1>8. InOrder' /\ TraceOrder'
  BY EmptyQueue DEF IInv, InOrder, TraceOrder
<1>9. Fetching' /\ MovesOn'
  BY DEF IInv, Fetching, MovesOn, Fresh, allFetched
<1>10. WindowOrder'
  <2>1. Window' = Dispatched \cup Elements(fetchPort)
    BY DEF Window
  <2> QED BY <2>1 DEF IInv, WindowOrder, FlushedIn, Before, Window
<1>11. Stages' /\ Counting'
  BY DEF IInv, Stages, Lifecycle, Counting
<1>12. LSQ'
  BY DEF IInv, LSQ
<1>13. Squashing'
  BY DEF IInv, Squashing, Culprit, squashBB
<1>14. Flushing'
  BY DEF IInv, Flushing, FlushedIn
<1>15. Permits'
  BY DEF IInv, Permits
<1> QED BY <1>7, <1>8, <1>9, <1>10, <1>11, <1>12, <1>13, <1>14, <1>15 DEF IInv

LEMMA DecodeNormal ==
  ASSUME IInv, doDECODE, pipe \notin {"WAIT_FLUSH", "FLUSH"}
  PROVE  IInv'
<1> USE DEF frontVars, squashVars, history
<1>u. UNCHANGED <<program, supplied, bbCache, currentBB, pipe, squashSN, squashType,
                  badInsID, blk, retired, deleted, bbQUE, windows,
                  issuePort, EU, bbROB, LQ, SQ>>
  BY DEF doDECODE
<1>2. turn = "DECODE" /\ turn' = "FETCH"
  BY DEF doDECODE
<1>t. /\ Ids' = Ids /\ Blocks' = Blocks /\ LoadIds' = LoadIds /\ StoreIds' = StoreIds
      /\ HeadIds' = HeadIds /\ LastBlock' = LastBlock
      /\ \A i : Op(i)' = Op(i) /\ BB(i)' = BB(i) /\ WrongPath(i)' = WrongPath(i)
      /\ \A b : /\ BlockIns(b)' = BlockIns(b) /\ BBsize(b)' = BBsize(b)
                /\ BBheadID(b)' = BBheadID(b) /\ isOnWrongPath(b)' = isOnWrongPath(b)
  BY <1>u, ProgramStays
<1>3. TypeOK /\ Ids \in SUBSET Nat
  BY Numbers DEF IInv
<1>1. PICK k \in 0 .. Width :
          /\ k <= Len(fetchPort) /\ Len(decodePort) + k <= PortLen
          /\ fetchPort' = Drop(fetchPort, k)
          /\ decodePort' = decodePort \o Take(fetchPort, k)
          /\ ins' = AtStage(Elements(Take(fetchPort, k)), "DECODE", ins)
  BY DEF doDECODE
<1> DEFINE new == Elements(Take(fetchPort, k))
<1>4. fetchPort \in Seq(Ids) /\ Increasing(fetchPort) /\ k \in 0 .. Len(fetchPort)
      /\ decodePort \in Seq(Ids) /\ Increasing(decodePort)
  <2>1. Width \in Nat
    BY SizesAssumption
  <2> QED BY <1>1, <1>3, <2>1, QueueTypes, ElementsIn DEF IInv, InOrder
<1>5. /\ Take(fetchPort, k) \in Seq(Ids) /\ Len(Take(fetchPort, k)) = k
      /\ Drop(fetchPort, k) \in Seq(Ids) /\ Len(Drop(fetchPort, k)) = Len(fetchPort) - k
  BY <1>4, TakeDrop
<1>6. /\ Increasing(Take(fetchPort, k)) /\ Increasing(Drop(fetchPort, k))
      /\ Before(new, Elements(Drop(fetchPort, k)))
      /\ Elements(Drop(fetchPort, k)) = Elements(fetchPort) \ new
      /\ Elements(fetchPort) = new \cup Elements(Drop(fetchPort, k))
  BY <1>3, <1>4, IncreasingTakeDrop, TakeDropElements
<1>7. Before(Elements(decodePort), Elements(fetchPort))
  BY DEF IInv, WindowOrder
<1>8. Before(Elements(decodePort), new)
  BY <1>6, <1>7 DEF Before
<1>9. /\ decodePort' \in Seq(Ids) /\ Increasing(decodePort')
      /\ Len(decodePort') = Len(decodePort) + k
      /\ Elements(decodePort') = Elements(decodePort) \cup new
  <2> DEFINE t == Take(fetchPort, k)
  <2>1. t \in Seq(Ids) /\ Increasing(t) /\ Elements(t) = new /\ Len(t) = k
    BY <1>5, <1>6
  <2>2. decodePort' = decodePort \o t
    BY <1>1
  <2> HIDE DEF t, new
  <2>3. /\ decodePort \o t \in Seq(Ids) /\ Len(decodePort \o t) = Len(decodePort) + k
        /\ Elements(decodePort \o t) = Elements(decodePort) \cup new
    BY <1>4, <2>1, Concat, ZenonT(60)
  <2>4. Increasing(decodePort \o t)
    BY <1>4, <1>8, <2>1, Concat
  <2> QED BY <2>2, <2>3, <2>4
<1>10. new \subseteq Elements(fetchPort) /\ new \subseteq Ids
  BY <1>5, <1>6, ElementsIn
<1>11. /\ Elements(fetchPort') = Elements(fetchPort) \ new
       /\ fetchPort' \in Seq(Ids) /\ Increasing(fetchPort')
  BY <1>1, <1>5, <1>6
<1>12. /\ ins' \in [Ids -> InsState]
       /\ \A i \in new : ins'[i].stage = "DECODE"
       /\ \A i \in Ids : /\ ins'[i].lsq = ins[i].lsq
                         /\ ins'[i].memViolation = ins[i].memViolation
                         /\ ins'[i].cacheAxes = ins[i].cacheAxes
                         /\ ins'[i].overtook = ins[i].overtook
       /\ \A i \in Ids \ new : ins'[i] = ins[i]
  <2>1. ins \in [Ids -> InsState] /\ "DECODE" \in Stage
    BY <1>3, Tables DEF Stage
  <2> HIDE DEF new
  <2> DEFINE t == AtStage(new, "DECODE", ins)
  <2>2. /\ t \in [Ids -> InsState]
        /\ \A i \in new : t[i].stage = "DECODE"
        /\ \A i \in Ids : /\ t[i].lsq = ins[i].lsq
                          /\ t[i].memViolation = ins[i].memViolation
                          /\ t[i].cacheAxes = ins[i].cacheAxes
                          /\ t[i].overtook = ins[i].overtook
        /\ \A i \in Ids \ new : t[i] = ins[i]
    <3> HIDE DEF t
    <3>1. new \in SUBSET Ids
      BY <1>10
    <3> QED BY <2>1, <3>1, AtStageTable DEF t
  <2>3. ins' = t
    BY <1>1 DEF new
  <2> QED BY <2>2, <2>3
<1> HIDE DEF new
<1>13. \A i \in new : ins[i].stage = "FETCH" /\ i \in FetchedIns /\ i \notin Dispatched
  <2>1. \A i \in new : ins[i].stage = "FETCH" /\ i \in FetchedIns
    BY <1>10 DEF IInv, Stages, WindowOrder, Window
  <2> QED BY <2>1 DEF Dispatched
<1>s. /\ Fetched' = Fetched /\ FetchedIns' = FetchedIns /\ Popped' = Popped
      /\ Dispatched' = Dispatched
  <2>1. \A i \in FetchedIns :
           /\ ins'[i].stage = "NO_STAGE" <=> ins[i].stage = "NO_STAGE"
           /\ ins'[i].stage \in FrontStage <=> ins[i].stage \in FrontStage
    BY <1>12, <1>13, Flight DEF FrontStage
  <2> QED BY <1>u, <2>1, SameSets
<1>e. /\ InROB' = InROB /\ Units' = Units /\ Waiting' = Waiting /\ Traced' = Traced
      /\ Window' = Window
  BY <1>u, <1>s, <1>9, <1>10, <1>11 DEF InROB, Units, Waiting, Traced, Window
<1>16. \A i \in Dispatched : ins'[i] = ins[i]
  BY <1>12, <1>13, Flight
<1>17. \A i \in Ids : ins'[i].stage = "COMPLETE" <=> ins[i].stage = "COMPLETE"
  BY <1>12, <1>13
<1>18. \A b \in Blocks : Completed(b)' = Completed(b)
  BY <1>17, <1>t DEF Completed, BlockIns
<1>19. \A i \in Dispatched : Detected(i)' = Detected(i)
  BY <1>16, <1>t DEF Detected
<1> USE <1>u, <1>2, <1>t, <1>s, <1>e
<1>20. TypeOK'
  <2>0. /\ PortLen \in Nat /\ Len(fetchPort) <= PortLen /\ Len(fetchPort) \in Nat
        /\ k \in Nat
    BY <1>4, <1>3, Sizes, ElementsIn
  <2>1. Len(fetchPort') <= PortLen
    BY <1>1, <1>5, <2>0
  <2>2. Len(decodePort') <= PortLen
    BY <1>1, <1>9
  <2>3. ins' \in [Ids' -> [stage : Stage, lsq : LsqState, memViolation : BOOLEAN,
                           cacheAxes : BOOLEAN, overtook : BOOLEAN]]
    BY <1>12 DEF InsState
  <2> QED BY <1>3, <1>9, <1>11, <2>1, <2>2, <2>3, ZenonT(60) DEF TypeOK
<1>21. InOrder' /\ TraceOrder'
  BY <1>9, <1>11 DEF IInv, InOrder, TraceOrder
<1>22. Fetching'
  <2>1. \A i \in Ids : BB(i) \notin Fetched \cup Elements(retired) => ins'[i] = ins[i]
    BY <1>12, <1>13 DEF FetchedIns
  <2>2. \A b \in Blocks' : b \in Elements(bbCache') \/ b > supplied' => Fresh(b)'
    BY <2>1, FreshStays
  <2>3. \A i \in FetchedIns : ins'[i].stage = "NO_STAGE" <=> ins[i].stage = "NO_STAGE"
    BY <1>12, <1>13, Flight
  <2> QED BY <2>2, <2>3 DEF IInv, Fetching, allFetched
<1>23. MovesOn'
  <2>1. \A i \in Ids : ins'[i].stage = "NO_STAGE" <=> ins[i].stage = "NO_STAGE"
    BY <1>12, <1>13
  <2>2. (takeable' = takeable) /\ (frontendRunning' = frontendRunning)
    BY DEF takeable, frontendRunning
  <2>3. \A b : BlockIns(b) \subseteq Ids
    BY DEF BlockIns
  <2> SUFFICES ASSUME pipe = "NORMAL", currentBB # NoBB, NEW i \in BlockIns(currentBB),
                      ins'[i].stage # "NO_STAGE", \A j \in BlockIns(currentBB) : j <= i
               PROVE  \/ i \in Elements(fetchPort')
                      \/ i \in Elements(decodePort')
                      \/ ~frontendRunning \/ takeable > 0
    BY <2>2 DEF MovesOn
  <2> QED BY <2>1, <2>3, <1>9, <1>11 DEF IInv, MovesOn
<1>24. WindowOrder'
  <2>1. /\ Before(Dispatched, Elements(decodePort') \cup Elements(fetchPort'))
        /\ Before(Elements(decodePort'), Elements(fetchPort'))
    BY <1>6, <1>7, <1>9, <1>10, <1>11 DEF IInv, WindowOrder, Before
  <2>2. pipe # "NORMAL" => decodePort' = << >> /\ fetchPort' = << >>
    <3> SUFFICES ASSUME pipe # "NORMAL" PROVE decodePort' = << >> /\ fetchPort' = << >>
      OBVIOUS
    <3>1. decodePort = << >> /\ fetchPort = << >>
      BY <1>3 DEF IInv, WindowOrder, FlushedIn, TypeOK
    <3>2. Elements(fetchPort) = {} /\ Elements(decodePort) = {}
      BY <3>1, EmptyQueue
    <3> QED BY <3>2, <1>9, <1>10, <1>11, ElementsIn
  <2> QED BY <2>1, <2>2 DEF IInv, WindowOrder, FlushedIn
<1>25. Stages'
  <2>1. \A i \in FetchedIns \ Dispatched :
          /\ ins'[i].lsq = "NO_STATE" /\ ~ins'[i].memViolation
          /\ ~ins'[i].cacheAxes /\ ~ins'[i].overtook
    BY <1>12, Flight DEF IInv, Stages
  <2>2. \A i \in Elements(fetchPort') : ins'[i].stage = "FETCH"
    <3> SUFFICES ASSUME NEW i \in Elements(fetchPort') PROVE ins'[i].stage = "FETCH"
      OBVIOUS
    <3>1. i \in Elements(fetchPort) /\ i \in Ids /\ i \notin new
      BY <1>11, <1>3, ElementTypes
    <3>2. ins[i].stage = "FETCH"
      BY <3>1 DEF IInv, Stages
    <3> QED BY <3>1, <3>2, <1>12
  <2>3. \A i \in Elements(decodePort') : ins'[i].stage = "DECODE"
    <3> SUFFICES ASSUME NEW i \in Elements(decodePort')
                 PROVE  ins'[i].stage = "DECODE"
      OBVIOUS
    <3>1. CASE i \in new
      BY <3>1, <1>12
    <3>2. CASE i \notin new
      <4>1. i \in Elements(decodePort) /\ i \in Ids
        BY <3>2, <1>9, <1>3, ElementTypes
      <4>2. ins[i].stage = "DECODE"
        BY <4>1 DEF IInv, Stages
      <4> QED BY <4>1, <4>2, <3>2, <1>12
    <3> QED BY <3>1, <3>2
  <2>4. /\ \A i \in Elements(windows) : i \in Dispatched /\ ins'[i].stage = "DISPATCH"
        /\ \A i \in Elements(issuePort) : i \in Dispatched /\ ins'[i].stage = "ISSUE"
        /\ \A i \in Units : i \in Dispatched /\ ins'[i].stage = "EXECUTE"
    BY <1>16 DEF IInv, Stages
  <2>5. \A i \in Dispatched :
          /\ Lifecycle(i)'
          /\ ins'[i].stage = "EXECUTE" => i \in Units
          /\ ins'[i].memViolation =>
              i \in LoadIds /\ ins'[i].lsq = "COMPLETE" /\ blk[BB(i)].memViolation
    <3> TAKE i \in Dispatched
    <3>1. ins'[i] = ins[i]
      BY <1>16
    <3>2. Lifecycle(i) /\ (ins[i].stage = "EXECUTE" => i \in Units)
          /\ (ins[i].memViolation =>
               i \in LoadIds /\ ins[i].lsq = "COMPLETE" /\ blk[BB(i)].memViolation)
      BY DEF IInv, Stages
    <3> QED BY <3>1, <3>2 DEF Lifecycle
  <2> QED BY <2>1, <2>2, <2>3, <2>4, <2>5 DEF Stages
<1>26. Counting'
  BY <1>18, Flight DEF IInv, Counting
<1>27. LSQ'
  <2>1. \A i \in Elements(SQ) \ Dispatched : ins'[i] = ins[i]
    <3>1. \A i \in Elements(SQ) \ Dispatched : ins[i].stage = "COMMIT" /\ i \in Ids
      BY <1>3, ElementTypes DEF IInv, LSQ
    <3> QED BY <3>1, <1>12, <1>13
  <2> QED BY <2>1 DEF IInv, LSQ
<1>28. Squashing'
  BY <1>16, <1>19 DEF IInv, Squashing, Culprit, squashBB
<1>29. Flushing'
  BY DEF IInv, Flushing, FlushedIn
<1>30. Permits'
  <2>1. \A b : BlockIns(b) \subseteq Ids
    BY DEF BlockIns
  <2> QED BY <2>1, <1>12, <1>17 DEF IInv, Permits
<1> QED BY <1>20, <1>21, <1>22, <1>23, <1>24, <1>25, <1>26, <1>27, <1>28, <1>29,
           <1>30 DEF IInv

LEMMA DecodeStep ==
  ASSUME IInv, doDECODE
  PROVE  IInv'
<1> CASE pipe = "WAIT_FLUSH"
  <2>1. UNCHANGED work
    BY DEF doDECODE, work, frontVars, squashVars, history, insVars, queues
  <2>2. turn = "DECODE" /\ turn' = "FETCH"
    BY DEF doDECODE
  <2> QED BY <2>1, <2>2, Stalled
<1> QED BY DecodeFlush, DecodeNormal

-----------------------------------------------------------------------------
(* Fetch. *)

LEMMA DownClosedInterval ==
  ASSUME NEW a \in Nat, NEW b \in Nat, NEW S \in SUBSET (a .. b), DownClosed(S, a .. b)
  PROVE  Cardinality(S) \in Nat /\ S = a .. a + Cardinality(S) - 1
<1>1. CASE S = {}
  <2>1. Cardinality(S) = 0
    BY <1>1, FS_EmptySet
  <2> QED BY <1>1, <2>1
<1>2. CASE S # {}
  <2>1. S \in SUBSET Nat /\ \A i \in S : i <= b
    OBVIOUS
  <2>2. PICK m \in S : \A i \in S : i <= m
    BY <1>2, <2>1, GreatestNat
  <2>3. m \in a .. b /\ S = a .. m
    <3>1. m \in a .. b
      OBVIOUS
    <3>2. \A j \in a .. m : j \in S
      <4> SUFFICES ASSUME NEW j \in a .. m PROVE j \in S
        OBVIOUS
      <4>1. j \in a .. b /\ (j < m \/ j = m)
        BY <3>1
      <4> QED BY <4>1 DEF DownClosed
    <3>3. \A i \in S : i \in a .. m
      BY <2>2, <3>1
    <3> QED BY <3>1, <3>2, <3>3
  <2>4. Cardinality(S) = m - a + 1
    BY <2>3, FS_Interval
  <2> QED BY <2>3, <2>4
<1> QED BY <1>1, <1>2

(* The members of U that have fewer than so many before them.              *)
Earlier(U, i) == {j \in U : j < i}

LEMMA Popping ==
  ASSUME NEW N \in Nat, NEW U \in SUBSET (1 .. N), NEW slots \in Nat, NEW P,
         \A i : i \in P <=> i \in U /\ Cardinality(Earlier(U, i)) < slots
  PROVE  /\ P \subseteq U /\ DownClosed(P, U)
         /\ Cardinality(P) \in Nat /\ Cardinality(P) <= slots
         /\ \A V \in SUBSET U :
              DownClosed(V, U) /\ Cardinality(V) < Max({slots, 1}) => V \subseteq P
<1> DEFINE less(i) == Earlier(U, i)
<1>0. /\ \A i, x : x \in less(i) <=> x \in U /\ x < i
      /\ U \in SUBSET Nat /\ \A i \in U : i <= N
      /\ \A i : less(i) \in SUBSET U
  BY DEF Earlier
<1> HIDE DEF less
<1>1. \A S \in SUBSET U : IsFiniteSet(S) /\ Cardinality(S) \in Nat
  <2>1. IsFiniteSet(1 .. N)
    BY FS_Interval
  <2>2. IsFiniteSet(U)
    BY <2>1, FS_Subset
  <2> QED BY <2>2, FS_Subset, FS_CardinalityType
<1>2. P \subseteq U /\ \A i \in U : i \in P <=> Cardinality(less(i)) < slots
  BY DEF less
<1>3. \A i, j \in U : j < i => Cardinality(less(j)) <= Cardinality(less(i))
  <2> SUFFICES ASSUME NEW i \in U, NEW j \in U, j < i
               PROVE  Cardinality(less(j)) <= Cardinality(less(i))
    OBVIOUS
  <2>1. less(i) \in SUBSET U /\ less(j) \subseteq less(i)
    <3>1. \A x \in U : x < j => x < i
      BY <1>0
    <3> QED BY <1>0, <3>1
  <2>2. IsFiniteSet(less(i))
    BY <2>1, <1>1
  <2> QED BY <2>1, <2>2, FS_Subset
<1>4. \A i \in U : Cardinality(less(i)) \in Nat
  BY <1>0, <1>1
<1>5. DownClosed(P, U)
  <2> SUFFICES ASSUME NEW i \in P, NEW j \in U, j < i PROVE Cardinality(less(j)) < slots
    BY <1>2 DEF DownClosed
  <2> QED BY <1>2, <1>3, <1>4
<1>6. Cardinality(P) <= slots
  <2>1. CASE P = {}
    <3>1. Cardinality({}) = 0
      BY FS_EmptySet
    <3>2. Cardinality(P) = 0
      BY <2>1, <3>1, Zenon
    <3> QED BY <3>2
  <2>2. CASE P # {}
    <3>1. P \in SUBSET Nat /\ \A i \in P : i <= N
      BY <1>0, <1>2
    <3>2. PICK m \in P : \A i \in P : i <= m
      BY <2>2, <3>1, GreatestNat
    <3>3. less(m) \in SUBSET U /\ m \notin less(m)
      BY <1>0, <3>1
    <3>a. P = less(m) \cup {m}
      <4>1. \A i \in P : i \in less(m) \/ i = m
        BY <1>0, <1>2, <3>1, <3>2
      <4>2. \A i \in less(m) : i \in P
        BY <1>0, <1>2, <1>5, <3>2 DEF DownClosed
      <4> QED BY <4>1, <4>2, <3>2
    <3>4. Cardinality(less(m)) < slots /\ Cardinality(less(m)) \in Nat
      BY <1>2, <1>4, <3>2
    <3>b. IsFiniteSet(less(m))
      BY <1>1, <3>3
    <3>5. Cardinality(P) = Cardinality(less(m)) + 1
      BY <3>3, <3>a, <3>b, FS_AddElement
    <3> QED BY <3>4, <3>5
  <2> QED BY <2>1, <2>2
<1>7. ASSUME NEW V \in SUBSET U, DownClosed(V, U), Cardinality(V) < Max({slots, 1})
      PROVE  V \subseteq P
  <2> SUFFICES ASSUME NEW i \in V PROVE Cardinality(less(i)) < slots
    BY <1>2
  <2>1. less(i) \subseteq V \ {i}
    <3> SUFFICES ASSUME NEW j \in U, j < i PROVE j \in V /\ j # i
      BY <1>0
    <3>1. j \in Nat /\ i \in Nat
      BY <1>0
    <3> QED BY <1>7, <3>1 DEF DownClosed
  <2>2. IsFiniteSet(V) /\ Cardinality(V) \in Nat
    BY <1>1
  <2>3. /\ IsFiniteSet(V \ {i}) /\ Cardinality(V \ {i}) = Cardinality(V) - 1
    BY <2>2, FS_RemoveElement
  <2>4. Cardinality(less(i)) <= Cardinality(V) - 1
    BY <2>1, <2>3, FS_Subset
  <2>5. Max({slots, 1}) = IF slots >= 1 THEN slots ELSE 1
    BY MaxOfTwo
  <2>6. Cardinality(V \ {i}) \in Nat
    BY <2>3, FS_CardinalityType
  <2>7. Cardinality(less(i)) \in Nat
    BY <1>4
  <2> QED BY <1>7, <2>2, <2>3, <2>4, <2>5, <2>6, <2>7
<1> QED BY <1>1, <1>2, <1>5, <1>6, <1>7

LEMMA AscendingQueue ==
  ASSUME NEW N \in Nat, NEW S \in SUBSET (1 .. N)
  PROVE  /\ Ascending(S) \in Seq(S) /\ Increasing(Ascending(S))
         /\ Elements(Ascending(S)) = S /\ Len(Ascending(S)) = Cardinality(S)
<1> DEFINE C == Cardinality(S)
           a == Ascending(S)
<1>1. a \in Seq(S) /\ Elements(a) = S
  BY AscendingEnumerates
<1>2. C \in Nat /\ \A n \in 1 .. C : \E e \in S : Rank(S, e) = n
  BY Ranks DEF Rank
<1>3. Len(a) = C /\ \A n \in 1 .. C : a[n] \in S /\ Rank(S, a[n]) = n
  BY <1>2 DEF Ascending
<1>4. \A p, q \in S : p <= q => Rank(S, p) <= Rank(S, q)
  <2> SUFFICES ASSUME NEW p \in S, NEW q \in S, p <= q
               PROVE  Rank(S, p) <= Rank(S, q)
    OBVIOUS
  <2> DEFINE P == {x \in S : x <= p}
             Q == {x \in S : x <= q}
  <2>1. P \subseteq Q /\ Q \subseteq 1 .. N
    <3>0. S \in SUBSET Nat
      OBVIOUS
    <3>1. Q \subseteq 1 .. N
      OBVIOUS
    <3>2. \A x \in S : x <= p => x <= q
      BY <3>0
    <3> QED BY <3>1, <3>2
  <2>2. IsFiniteSet(1 .. N)
    BY FS_Interval
  <2> HIDE DEF P, Q
  <2>3. IsFiniteSet(Q)
    BY <2>1, <2>2, FS_Subset
  <2>4. Cardinality(P) <= Cardinality(Q)
    BY <2>1, <2>3, FS_Subset
  <2> QED BY <2>4 DEF Rank, P, Q
<1> HIDE DEF C, a
<1>5. Increasing(a)
  <2> SUFFICES ASSUME NEW m \in 1 .. C, NEW n \in 1 .. C, m < n PROVE a[m] < a[n]
    BY <1>3 DEF Increasing
  <2>1. a[m] \in S /\ a[n] \in S /\ Rank(S, a[m]) = m /\ Rank(S, a[n]) = n
    BY <1>3
  <2>2. ASSUME a[n] <= a[m] PROVE FALSE
    <3>1. Rank(S, a[n]) <= Rank(S, a[m])
      BY <1>4, <2>1, <2>2
    <3> QED BY <3>1, <2>1, <1>2
  <2>3. a[m] \in Nat /\ a[n] \in Nat
    <3>1. S \subseteq Nat
      OBVIOUS
    <3> QED BY <2>1, <3>1
  <2> QED BY <2>2, <2>3
<1> QED BY <1>1, <1>3, <1>5 DEF a, C

LEMMA ConcatIndex ==
  ASSUME NEW D, NEW q \in Seq(D), NEW r \in Seq(D)
  PROVE  /\ \A n \in 1 .. Len(q) : (q \o r)[n] = q[n]
         /\ Len(r) \in Nat /\ Len(r) > 0 => (q \o r)[Len(q) + Len(r)] = r[Len(r)]
OBVIOUS

(* The cycle of fetch, said with sets: n blocks are taken, then A are the  *)
(* blocks there is to pop from, U their instructions not popped, and those *)
(* in P are popped, the oldest; past are the blocks fetch is done with.    *)
FetchCycle(n, A, P, U, past) ==
  /\ A = Elements(Take(bbCache, n)) \cup ({currentBB} \ {NoBB})
  /\ U = {i \in Ids : BB(i) \in A /\ i >= BBheadID(BB(i)) + blk[BB(i)].fetched}
  /\ bbCache' = Drop(bbCache, n)
  /\ bbQUE' = bbQUE \o Take(bbCache, n)
  /\ fetchPort' = fetchPort \o Ascending(P)
  /\ ins' = AtStage(P, "FETCH", ins)
  /\ P \subseteq U /\ DownClosed(P, U)
  /\ Cardinality(P) \in Nat /\ Len(fetchPort) + Cardinality(P) <= PortLen
  /\ blk' = [b \in Blocks |->
               [blk[b] EXCEPT !.fetched = @ + Cardinality(P \cap BlockIns(b)),
                              !.doneFetch = @ \/ b \in past]]
  /\ past \subseteq A /\ \A i \in U : BB(i) \in past => i \in P
  /\ \/ currentBB' = NoBB /\ past = A
     \/ currentBB' \in A /\ past = A \ {currentBB'} /\ \A b \in A : b <= currentBB'
  /\ turn' \in {"FRONTEND", "HALT", "COMMIT"}
  /\ currentBB' # NoBB /\ n = 0 /\ U = {} => ~canMove /\ turn' = "FRONTEND"

LEMMA FetchImpl ==
  ASSUME IInv, fetchImpl
  PROVE  \E n \in 0 .. Len(bbCache), A \in SUBSET Blocks, P \in SUBSET Ids,
            U \in SUBSET Ids, past \in SUBSET Blocks : FetchCycle(n, A, P, U, past)
<1> DEFINE slots == Min({Width, PortLen - Len(fetchPort)})
           enough(n) == Cardinality(unfetched(n)) >= Max({slots, 1})
           N == Min({n \in 0 .. takeable : enough(n)} \cup {takeable})
           taken == Take(bbCache, N)
           dry == ~enough(Len(taken))
           at == (IF currentBB = NoBB THEN << >> ELSE <<currentBB>>) \o taken
           past == IF dry /\ ~frontendRunning THEN at ELSE Take(at, Max({Len(at), 1}) - 1)
           popped == {i \in unfetched(Len(taken)) :
                        Cardinality({j \in unfetched(Len(taken)) : j < i}) < slots}
<1>1. /\ bbCache' = Drop(bbCache, Len(taken))
      /\ bbQUE' = bbQUE \o taken
      /\ currentBB' = IF past = at THEN NoBB ELSE Last(at)
      /\ blk' = [b \in Blocks |->
                   [blk[b] EXCEPT !.fetched = @ + Cardinality(popped \cap BlockIns(b)),
                                  !.doneFetch = @ \/ b \in Elements(past)]]
      /\ fetchPort' = fetchPort \o Ascending(popped)
      /\ ins' = AtStage(popped, "FETCH", ins)
      /\ turn' = IF dry /\ frontendRunning THEN "FRONTEND"
                 ELSE IF ~frontendRunning /\ bbCache' = << >>
                         /\ bbQUE' = << >> /\ bbROB = << >> THEN "HALT"
                 ELSE "COMMIT"
  BY DEF fetchImpl
<1>1t. dry /\ frontendRunning => turn' = "FRONTEND"
  <2> HIDE DEF dry
  <2> QED BY <1>1
<1>2. /\ TypeOK /\ Ids \in SUBSET Nat /\ Ids = 1 .. Len(program) /\ Len(program) \in Nat
      /\ Blocks \in SUBSET Nat /\ NoBB \notin Blocks
      /\ \A i \in Ids : BB(i) \in Blocks
      /\ \A i, j \in Ids : i < j => BB(i) <= BB(j)
  BY Numbers DEF IInv
<1>3. slots \in Nat /\ Len(fetchPort) + slots <= PortLen
  <2>1. /\ Width \in Nat /\ PortLen \in Nat /\ Len(fetchPort) <= PortLen
        /\ Len(fetchPort) \in Nat
    BY <1>2, Sizes, QueueTypes, ElementsIn
  <2>2. PortLen - Len(fetchPort) \in Nat
    BY <2>1
  <2>3. slots = IF Width <= PortLen - Len(fetchPort) THEN Width ELSE PortLen - Len(fetchPort)
    BY <2>1, <2>2, MinOfTwo
  <2> QED BY <2>1, <2>2, <2>3
<1>4. /\ Len(bbCache) \in Nat /\ takeable \in 0 .. Len(bbCache)
  BY <1>2, Takeable
<1>5. /\ N \in 0 .. takeable /\ (enough(N) \/ N = takeable)
      /\ \A n \in 0 .. takeable : enough(n) => N <= n
  <2> HIDE DEF enough
  <2> DEFINE M == {n \in 0 .. takeable : enough(n)} \cup {takeable}
  <2>1. M \in SUBSET Nat /\ M # {}
    BY <1>4
  <2>2. \A n : n \in M <=> (n \in 0 .. takeable /\ enough(n)) \/ n = takeable
    OBVIOUS
  <2>3. N = Min(M)
    OBVIOUS
  <2> HIDE DEF M, N
  <2>4. \E x \in M : \A y \in M : x <= y
    BY <2>1, LeastNat
  <2>5. N \in M /\ \A y \in M : N <= y
    BY <2>3, <2>4 DEF Min
  <2> QED BY <2>2, <2>5, <1>4
<1> HIDE DEF N
<1>6. bbCache \in Seq(Blocks) /\ Increasing(bbCache) /\ N \in 0 .. Len(bbCache) /\ N \in Nat
  BY <1>2, <1>4, <1>5, QueueTypes DEF IInv, InOrder
<1>6a. \A m \in 1 .. N : m \in 1 .. Len(bbCache) /\ bbCache[m] \in Nat
  <2>1. \A m \in 1 .. Len(bbCache) : bbCache[m] \in Elements(bbCache)
    BY <1>6, ElementsIn
  <2>2. Elements(bbCache) \subseteq Blocks
    BY <1>6, ElementsIn
  <2>3. \A m \in 1 .. N : m \in 1 .. Len(bbCache)
    BY <1>4, <1>6
  <2> QED BY <2>1, <2>2, <2>3, <1>2
<1>7. /\ taken \in Seq(Blocks) /\ Len(taken) = N /\ Increasing(taken)
      /\ Elements(taken) = {bbCache[m] : m \in 1 .. N}
      /\ \A m \in 1 .. N : taken[m] = bbCache[m]
      /\ Elements(taken) \subseteq Elements(bbCache)
  <2>1. /\ taken \in Seq(Blocks) /\ Len(taken) = N
        /\ \A m \in 1 .. N : taken[m] = bbCache[m]
    BY <1>6, TakeDrop
  <2>2. Increasing(taken)
    BY <1>2, <1>6, IncreasingTakeDrop
  <2>3. Elements(taken) = {bbCache[m] : m \in 1 .. N}
        /\ Elements(taken) \subseteq Elements(bbCache)
    BY <1>6, TakeDropElements
  <2> QED BY <2>1, <2>2, <2>3
<1> DEFINE A == Elements(taken) \cup ({currentBB} \ {NoBB})
           U == {i \in Ids : BB(i) \in A /\ i >= BBheadID(BB(i)) + blk[BB(i)].fetched}
<1>8. A \subseteq Blocks /\ (currentBB # NoBB => currentBB \in Blocks)
  BY <1>2, <1>7, ElementsIn DEF TypeOK
<1>9. unfetched(N) = U
  <2>1. \A i \in Ids : BB(i) \in Elements(taken) \cup {currentBB} <=> BB(i) \in A
    BY <1>2
  <2> QED BY <2>1 DEF unfetched
<1>10. currentBB # NoBB => \A b \in Elements(taken) : currentBB < b
  BY <1>7 DEF IInv, Fetching, TraceOrder, Before
<1>11. /\ at \in Seq(Blocks) /\ Increasing(at) /\ Elements(at) = A
       /\ N > 0 => Len(at) > 0 /\ Last(at) = bbCache[N]
       /\ N = 0 => at = IF currentBB = NoBB THEN << >> ELSE <<currentBB>>
  <2> HIDE DEF taken, A
  <2>1. CASE currentBB = NoBB
    <3>1. at = taken
      BY <2>1, <1>7
    <3>2. A = Elements(taken)
      BY <2>1 DEF A
    <3>3. N = 0 => taken = << >>
      BY <1>7
    <3> QED BY <3>1, <3>2, <3>3, <1>6, <1>7, <2>1 DEF Last
  <2>2. CASE currentBB # NoBB
    <3> DEFINE c == <<currentBB>>
    <3>1. c \in Seq(Blocks) /\ Len(c) = 1 /\ c[1] = currentBB
      BY <2>2, <1>8
    <3>2. Elements(c) = {currentBB} /\ Increasing(c)
      BY <3>1 DEF Elements, Increasing
    <3>3. A = Elements(c) \cup Elements(taken)
      BY <2>2, <3>2 DEF A
    <3>4. at = c \o taken
      BY <2>2
    <3> HIDE DEF c, at
    <3>5. Before(Elements(c), Elements(taken))
      BY <2>2, <3>2, <1>10 DEF Before
    <3>a. taken \in Seq(Blocks) /\ Len(taken) = N /\ Increasing(taken) /\ N \in Nat
      BY <1>6, <1>7
    <3>b. /\ c \o taken \in Seq(Blocks) /\ Len(c \o taken) = Len(c) + Len(taken)
          /\ Elements(c \o taken) = Elements(c) \cup Elements(taken)
      BY <3>1, <3>a, Concat
    <3>6. /\ c \o taken \in Seq(Blocks) /\ Elements(c \o taken) = A
          /\ Len(c \o taken) = 1 + N
      BY <3>1, <3>3, <3>a, <3>b
    <3>7. Increasing(c \o taken)
      BY <3>1, <3>2, <3>5, <3>a, Concat
    <3>8. N > 0 => (c \o taken)[1 + N] = taken[N]
      <4>1. Len(taken) > 0 => (c \o taken)[Len(c) + Len(taken)] = taken[Len(taken)]
        BY <3>1, <3>a, ConcatIndex
      <4> QED BY <4>1, <3>1, <3>a
    <3>9. N > 0 => Last(c \o taken) = bbCache[N]
      BY <3>6, <3>8, <1>6, <1>7 DEF Last
    <3>10. N = 0 => taken = << >>
      BY <1>7
    <3>11. N = 0 => c \o taken = c
      <4>1. c \o << >> = c
        BY <3>1
      <4> QED BY <4>1, <3>10
    <3> QED BY <3>4, <3>6, <3>7, <3>9, <3>11, <1>6, <2>2 DEF c
  <2> QED BY <2>1, <2>2
<1> DEFINE top == Last(at)
           L == Len(at)
<1>12. /\ L \in Nat /\ (L = 0 <=> at = << >>) /\ (L = 0 <=> A = {})
       /\ L > 0 => top \in A /\ \A b \in A : b <= top
  <2> HIDE DEF at, A
  <2>1. L \in Nat /\ (L = 0 <=> at = << >>) /\ (L = 0 <=> A = {})
    BY <1>11, ElementsIn
  <2>2. ASSUME L > 0 PROVE top \in A /\ \A b \in A : b <= top
    <3>1. top = at[L] /\ L \in 1 .. L
      BY <2>1, <2>2 DEF Last
    <3>2. \A m \in 1 .. L : at[m] \in A /\ at[m] \in Nat
      BY <1>11, <1>2, ElementsIn
    <3>3. \A m \in 1 .. L : at[m] <= at[L]
      BY <1>11, <3>1, <3>2, <2>1 DEF Increasing
    <3> QED BY <3>1, <3>2, <3>3, <1>11 DEF Elements
  <2> QED BY <2>1, <2>2
<1>13. /\ popped \subseteq U /\ DownClosed(popped, U)
       /\ Cardinality(popped) \in Nat /\ Cardinality(popped) <= slots
       /\ \A V \in SUBSET U :
            DownClosed(V, U) /\ Cardinality(V) < Max({slots, 1}) => V \subseteq popped
  <2>1. \A i : i \in popped <=> i \in U /\ Cardinality(Earlier(U, i)) < slots
    <3>1. \A i : i \in popped <=>
                   /\ i \in unfetched(Len(taken))
                   /\ Cardinality(Earlier(unfetched(Len(taken)), i)) < slots
      BY DEF Earlier
    <3> HIDE DEF popped, U, slots, taken
    <3> QED BY <3>1, <1>7, <1>9
  <2>2. U \in SUBSET (1 .. Len(program))
    BY <1>2
  <2> HIDE DEF popped, U, slots
  <2> QED BY <1>2, <1>3, <2>1, <2>2, Popping
<1>14. /\ Max({slots, 1}) \in Nat /\ Max({slots, 1}) > 0
       /\ \A n : n \in 0 .. takeable => (unfetched(n) \subseteq Ids
                   /\ Cardinality(unfetched(n)) \in Nat)
  <2>1. Max({slots, 1}) = IF slots >= 1 THEN slots ELSE 1
    BY <1>3, MaxOfTwo
  <2>2. IsFiniteSet(Ids)
    BY <1>2, FS_Interval
  <2>3. \A n : unfetched(n) \subseteq Ids
    BY DEF unfetched
  <2>4. \A n : Cardinality(unfetched(n)) \in Nat
    BY <2>2, <2>3, FS_Subset, FS_CardinalityType
  <2> HIDE DEF slots
  <2> QED BY <2>1, <2>3, <2>4, <1>3
<1>15. dry => U \subseteq popped
  <2>1. DownClosed(U, U)
    BY DEF DownClosed
  <2>2. dry => Cardinality(U) < Max({slots, 1})
    <3>1. dry <=> ~(Cardinality(unfetched(Len(taken))) >= Max({slots, 1}))
      OBVIOUS
    <3> HIDE DEF dry, U, slots, taken
    <3>2. Cardinality(unfetched(N)) \in Nat
      BY <1>5, <1>14
    <3> QED BY <3>1, <3>2, <1>7, <1>9, <1>14
  <2> HIDE DEF dry, U, slots, popped
  <2> QED BY <2>1, <2>2, <1>13
<1>16. \A i \in U : BB(i) # top => i \in popped
  <2> SUFFICES ASSUME NEW i \in U, BB(i) # top PROVE i \in popped
    OBVIOUS
  <2>1. i \in Ids /\ BB(i) \in A /\ L > 0 /\ top \in A
    BY <1>12
  <2>2. N > 0
    <3>1. N = 0 => A \subseteq {currentBB} /\ top \in {currentBB}
      <4> SUFFICES ASSUME N = 0 PROVE A \subseteq {currentBB}
        BY <2>1
      <4>1. Elements(taken) = {}
        BY <1>6, <1>7
      <4> QED BY <4>1
    <3> QED BY <3>1, <2>1, <1>6
  <2>3. top = bbCache[N]
    BY <2>2, <1>11
  <2> DEFINE V == {j \in U : BB(j) # top}
  <2>4. unfetched(N - 1) = V
    <3>1. Elements(Take(bbCache, N - 1)) = {bbCache[m] : m \in 1 .. N - 1}
      BY <2>2, <1>6, TakeDropElements
    <3>2. \A m \in 1 .. N - 1 : bbCache[m] < bbCache[N]
      BY <2>2, <1>6 DEF Increasing
    <3>3. \A b : b \in Elements(Take(bbCache, N - 1))
                   <=> b \in Elements(taken) /\ b # bbCache[N]
      <4> SUFFICES ASSUME NEW b
                   PROVE  (\E m \in 1 .. N - 1 : b = bbCache[m])
                            <=> (\E m \in 1 .. N : b = bbCache[m]) /\ b # bbCache[N]
        BY <3>1, <1>7
      <4>1. \A m \in 1 .. N : m \in 1 .. N - 1 \/ m = N
        BY <1>6
      <4>2. \A m \in 1 .. N - 1 : m \in 1 .. N /\ bbCache[m] # bbCache[N]
        BY <3>2, <2>2, <1>6, <1>6a
      <4>3. N \in 1 .. N
        BY <2>2, <1>6
      <4> QED BY <4>1, <4>2, <4>3
    <3>4. currentBB # NoBB => currentBB # bbCache[N]
      <4>0. N \in 1 .. N
        BY <2>2, <1>6
      <4>1. bbCache[N] \in Elements(taken) /\ bbCache[N] \in Nat
        BY <4>0, <1>6a, <1>7
      <4> QED BY <4>1, <1>10, <1>8, <1>2
    <3>5. \A j \in Ids : BB(j) \in Elements(Take(bbCache, N - 1)) \cup {currentBB}
                           <=> BB(j) \in A /\ BB(j) # top
      BY <3>3, <3>4, <2>3, <1>2
    <3> QED BY <3>5 DEF unfetched
  <2>5. ~enough(N - 1)
    <3> HIDE DEF enough
    <3>1. N - 1 \in 0 .. takeable /\ ~(N <= N - 1)
      BY <2>2, <1>4, <1>5
    <3> QED BY <3>1, <1>5
  <2>6. Cardinality(V) < Max({slots, 1})
    <3> HIDE DEF V, slots
    <3>1. N - 1 \in 0 .. takeable
      BY <2>2, <1>4, <1>5
    <3>2. Cardinality(V) \in Nat
      BY <2>4, <3>1, <1>14
    <3> QED BY <2>4, <2>5, <3>2, <1>14
  <2>7. DownClosed(V, U)
    <3> SUFFICES ASSUME NEW v \in V, NEW j \in U, j < v PROVE BB(j) # top
      BY DEF DownClosed
    <3>1. BB(j) <= BB(v) /\ BB(v) <= top /\ BB(v) # top
      BY <1>2, <1>12, <2>1
    <3>2. BB(j) \in Nat /\ BB(v) \in Nat /\ top \in Nat
      BY <1>2, <1>8, <2>1
    <3> QED BY <3>1, <3>2
  <2>8. V \subseteq popped
    <3>1. V \in SUBSET U
      OBVIOUS
    <3> HIDE DEF V, U, slots, popped
    <3> QED BY <2>6, <2>7, <3>1, <1>13
  <2> QED BY <2>8
<1>17. /\ Elements(past) \subseteq A /\ \A i \in U : BB(i) \in Elements(past) => i \in popped
       /\ \/ currentBB' = NoBB /\ Elements(past) = A
          \/ /\ currentBB' = top /\ currentBB' \in A
             /\ Elements(past) = A \ {currentBB'} /\ \A b \in A : b <= currentBB'
       /\ currentBB' # NoBB => ~(dry /\ ~frontendRunning)
  <2>1. CASE dry /\ ~frontendRunning
    <3>1. past = at
      BY <2>1
    <3> HIDE DEF past, at, U, popped, A
    <3> QED BY <2>1, <3>1, <1>1, <1>11, <1>15
  <2>2. CASE ~(dry /\ ~frontendRunning) /\ L = 0
    <3>1. past = Take(at, Max({L, 1}) - 1) /\ at = << >>
      BY <2>2, <1>12
    <3>2. Max({L, 1}) = 1
      BY <2>2, MaxOfTwo
    <3>3. past = << >>
      BY <3>1, <3>2 DEF Take
    <3>4. Elements(past) = {} /\ A = {}
      BY <3>3, <2>2, <1>12, EmptyQueue
    <3> HIDE DEF past, at, U, popped, A
    <3> QED BY <3>1, <3>3, <3>4, <1>1
  <2>3. CASE ~(dry /\ ~frontendRunning) /\ L > 0
    <3>1. past = Take(at, Max({L, 1}) - 1)
      BY <2>3
    <3>2. Max({L, 1}) = L
      BY <2>3, <1>12, MaxOfTwo
    <3> HIDE DEF past, at, U, popped, A
    <3>3. L - 1 \in 0 .. L
      BY <2>3, <1>12
    <3>a. past = Take(at, L - 1)
      BY <3>1, <3>2
    <3>4. Len(past) = L - 1 /\ past \in Seq(Blocks)
      BY <3>a, <3>3, <1>11, TakeDrop
    <3>5. past # at
      BY <3>4, <1>12
    <3>6. Elements(past) = {at[m] : m \in 1 .. L - 1}
      BY <3>a, <3>3, <1>11, TakeDropElements
    <3>7. top = at[L] /\ \A m \in 1 .. L : at[m] \in Nat
      BY <1>11, <1>2, ElementsIn DEF Last
    <3>8. \A m \in 1 .. L - 1 : at[m] < at[L]
      BY <2>3, <1>11, <1>12 DEF Increasing
    <3>9. Elements(past) = A \ {top}
      <4>1. \A b : b \in A <=> \E m \in 1 .. L : b = at[m]
        BY <1>11 DEF Elements
      <4>2. \A b : b \in Elements(past) <=> \E m \in 1 .. L - 1 : b = at[m]
        BY <3>6
      <4>3. \A m \in 1 .. L : m \in 1 .. L - 1 \/ m = L
        BY <1>12
      <4>4. \A m \in 1 .. L - 1 : m \in 1 .. L /\ at[m] # top
        BY <3>7, <3>8, <1>12
      <4> QED BY <4>1, <4>2, <4>3, <4>4, <3>7
    <3>10. currentBB' = top
      BY <3>5, <1>1
    <3> QED BY <2>3, <3>9, <3>10, <1>12, <1>16
  <2> HIDE DEF past, at, U, popped, A, dry, top, L
  <2>4. L = 0 \/ L > 0
    BY <1>12
  <2> QED BY <2>1, <2>2, <2>3, <2>4
<1>18. turn' \in {"FRONTEND", "HALT", "COMMIT"}
  BY <1>1
<1>19. ASSUME currentBB' # NoBB, N = 0, U = {} PROVE ~canMove /\ turn' = "FRONTEND"
  <2>1. Cardinality(U) = 0
    BY <1>19, FS_EmptySet
  <2>2. ~enough(N)
    BY <2>1, <1>9, <1>14
  <2>3. takeable = 0
    BY <2>2, <1>5, <1>19
  <2>4. dry
    BY <2>2, <1>7
  <2> HIDE DEF dry
  <2>5. frontendRunning
    BY <2>4, <1>17, <1>19
  <2>6. turn' = "FRONTEND"
    BY <2>4, <2>5, <1>1t
  <2>7. ~(takeable > 0)
    BY <2>3
  <2> QED BY <2>5, <2>6, <2>7 DEF canMove
<1>20. Len(fetchPort) + Cardinality(popped) <= PortLen
  <2>1. Len(fetchPort) \in Nat /\ PortLen \in Nat
    BY <1>2, Sizes, QueueTypes, ElementsIn
  <2> HIDE DEF popped, slots
  <2> QED BY <2>1, <1>3, <1>13
<1>21. Elements(past) \subseteq Blocks /\ U \subseteq Ids /\ popped \subseteq Ids
  BY <1>8, <1>13, <1>17
<1>22. /\ bbCache' = Drop(bbCache, N) /\ bbQUE' = bbQUE \o Take(bbCache, N)
  BY <1>1, <1>7
<1> HIDE DEF slots, enough, taken, dry, at, top, L
<1>23. A = Elements(Take(bbCache, N)) \cup ({currentBB} \ {NoBB})
  BY DEF taken
<1>24. U = {i \in Ids : BB(i) \in A /\ i >= BBheadID(BB(i)) + blk[BB(i)].fetched}
  OBVIOUS
<1>25. /\ fetchPort' = fetchPort \o Ascending(popped)
       /\ ins' = AtStage(popped, "FETCH", ins)
       /\ blk' = [b \in Blocks |->
                   [blk[b] EXCEPT !.fetched = @ + Cardinality(popped \cap BlockIns(b)),
                                  !.doneFetch = @ \/ b \in Elements(past)]]
  BY <1>1
<1> DEFINE E == Elements(past)
<1>26. /\ E \in SUBSET Blocks /\ E \subseteq A
       /\ \A i \in U : BB(i) \in E => i \in popped
       /\ \/ currentBB' = NoBB /\ E = A
          \/ currentBB' \in A /\ E = A \ {currentBB'} /\ \A b \in A : b <= currentBB'
       /\ blk' = [b \in Blocks |->
                   [blk[b] EXCEPT !.fetched = @ + Cardinality(popped \cap BlockIns(b)),
                                  !.doneFetch = @ \/ b \in E]]
  BY <1>17, <1>21, <1>25
<1> HIDE DEF A, U, popped, past, E
<1>27. N \in 0 .. Len(bbCache) /\ A \in SUBSET Blocks /\ popped \in SUBSET Ids
       /\ U \in SUBSET Ids /\ E \in SUBSET Blocks
  BY <1>6, <1>8, <1>21, <1>26
<1>28. Cardinality(popped) \in Nat /\ popped \subseteq U /\ DownClosed(popped, U)
  BY <1>13
<1>29. FetchCycle(N, A, popped, U, E)
  BY <1>18, <1>19, <1>20, <1>22, <1>23, <1>24, <1>25, <1>26, <1>28 DEF FetchCycle
<1> QED BY <1>27, <1>29

(* What has been popped are the oldest instructions of the fetched blocks. *)
LEMMA PoppedFirst == TypeOK /\ Fetching => DownClosed(Popped, FetchedIns)
<1> SUFFICES ASSUME TypeOK, Fetching, NEW i \in Popped, NEW j \in FetchedIns, j < i
             PROVE  j \in Popped
  BY DEF DownClosed
<1>1. /\ i \in Ids /\ j \in Ids /\ BB(i) \in Fetched /\ BB(j) \in Fetched
      /\ Fetched \subseteq Blocks /\ NoBB \notin Blocks /\ i \in FetchedIns
      /\ ins[i].stage # "NO_STAGE"
  BY Numbers, ElementTypes DEF Popped, FetchedIns
<1>2. i \in Nat /\ j \in Nat /\ BB(i) \in Nat /\ BB(j) \in Nat /\ BB(j) <= BB(i)
  BY <1>1, BlockOrder
<1> DEFINE h == BBheadID(BB(j))
           f == blk[BB(j)].fetched
           s == BBsize(BB(j))
<1>3. /\ h \in Nat /\ s \in Nat /\ f \in Nat /\ j < h + s
  <2>1. BB(j) \in Blocks /\ j \in BlockIns(BB(j))
    BY <1>1 DEF BlockIns
  <2>2. blk[BB(j)] \in BlkState
    BY <2>1, Tables
  <2>3. f \in Nat
    BY <2>2 DEF BlkState
  <2> QED BY <2>1, <2>3, <1>2, BlockShape
<1>4. j < h + f
  <2>1. CASE BB(j) = BB(i)
    <3>1. i < BBheadID(BB(i)) + blk[BB(i)].fetched
      BY <1>1 DEF Fetching
    <3>2. i < h + f
      BY <2>1, <3>1
    <3> QED BY <3>2, <1>2, <1>3
  <2>2. CASE BB(j) # BB(i)
    <3>1. BB(j) # currentBB
      <4> SUFFICES ASSUME BB(j) = currentBB PROVE FALSE
        OBVIOUS
      <4>1. BB(i) <= BB(j)
        BY <1>1 DEF Fetching
      <4> QED BY <4>1, <1>2, <2>2
    <3>2. f = s
      BY <3>1, <1>1 DEF Fetching, allFetched
    <3> QED BY <3>2, <1>3
  <2> QED BY <2>1, <2>2
<1>5. ins[j].stage # "NO_STAGE"
  BY <1>4 DEF Fetching
<1> QED BY <1>5 DEF Popped

LEMMA PoppedFirstNext == TypeOK' /\ Fetching' => DownClosed(Popped, FetchedIns)'
BY PoppedFirst, PTL

(* How fetch changes the state of a block, and those of the instructions.  *)
FetchedState(r, c, d) == [r EXCEPT !.fetched = @ + c, !.doneFetch = @ \/ d]

LEMMA FetchedBlock ==
  ASSUME NEW r \in BlkState, NEW c \in Nat, NEW d \in BOOLEAN
  PROVE  LET t == FetchedState(r, c, d)
         IN /\ t \in BlkState /\ t.fetched = r.fetched + c
            /\ t.doneFetch = (r.doneFetch \/ d) /\ t.completed = r.completed
            /\ t.memViolation = r.memViolation /\ t.permit = r.permit
            /\ (c = 0 /\ ~d => t = r)
<1> DEFINE m == r.fetched + c
           e == r.doneFetch \/ d
           t == [r EXCEPT !.fetched = m, !.doneFetch = e]
<1>1. /\ m \in Nat /\ e \in BOOLEAN /\ (c = 0 => m = r.fetched)
      /\ (~d => e = r.doneFetch)
  BY DEF BlkState
<1>2. t = FetchedState(r, c, d)
  BY DEF FetchedState
<1> HIDE DEF m, e
<1>3. /\ t \in BlkState /\ t.fetched = m
      /\ t.doneFetch = e /\ t.completed = r.completed
      /\ t.memViolation = r.memViolation /\ t.permit = r.permit
  BY <1>1 DEF BlkState
<1>4. c = 0 /\ ~d => t = r
  BY <1>1 DEF BlkState
<1> HIDE DEF t
<1>5. /\ t \in BlkState /\ t.fetched = r.fetched + c
      /\ t.doneFetch = (r.doneFetch \/ d) /\ t.completed = r.completed
      /\ t.memViolation = r.memViolation /\ t.permit = r.permit
      /\ (c = 0 /\ ~d => t = r)
  BY <1>3, <1>4 DEF m, e
<1> QED BY <1>2, <1>5

LEMMA FetchedStage ==
  ASSUME TypeOK, NEW P \in SUBSET Ids, ins' = AtStage(P, "FETCH", ins)
  PROVE  /\ ins' \in [Ids -> InsState]
         /\ \A i \in P : ins'[i].stage = "FETCH"
         /\ \A i \in Ids : /\ ins'[i].lsq = ins[i].lsq
                           /\ ins'[i].memViolation = ins[i].memViolation
                           /\ ins'[i].cacheAxes = ins[i].cacheAxes
                           /\ ins'[i].overtook = ins[i].overtook
         /\ \A i \in Ids \ P : ins'[i] = ins[i]
<1> DEFINE new == P
           t == AtStage(new, "FETCH", ins)
<1>1. ins \in [Ids -> InsState] /\ "FETCH" \in Stage
  BY Tables DEF Stage
<1>2. new \in SUBSET Ids /\ ins' = t
  OBVIOUS
<1>3. /\ t \in [Ids -> InsState]
      /\ \A i \in new : t[i].stage = "FETCH"
      /\ \A i \in Ids : /\ t[i].lsq = ins[i].lsq
                        /\ t[i].memViolation = ins[i].memViolation
                        /\ t[i].cacheAxes = ins[i].cacheAxes
                        /\ t[i].overtook = ins[i].overtook
      /\ \A i \in Ids \ new : t[i] = ins[i]
  <2> HIDE DEF new, t
  <2> QED BY <1>1, <1>2, AtStageTable DEF t
<1> HIDE DEF t
<1> QED BY <1>2, <1>3 DEF new

(* A new block, and its instructions. *)
LEMMA FreshBlock ==
  ASSUME IInv, NEW b \in Blocks, b \in Elements(bbCache) \/ b > supplied
  PROVE  /\ b \notin Fetched
         /\ blk[b].fetched = 0 /\ ~blk[b].doneFetch /\ blk[b].completed = 0
         /\ ~blk[b].memViolation
         /\ \A i \in BlockIns(b) :
              /\ ins[i].stage = "NO_STAGE" /\ ins[i].lsq = "NO_STATE"
              /\ ~ins[i].memViolation /\ ~ins[i].cacheAxes /\ ~ins[i].overtook
<1>1. b \notin Fetched /\ Fresh(b)
  BY FreshApart
<1>2. /\ blk[b] = [NewBlock EXCEPT !.permit = blk[b].permit]
      /\ \A i \in BlockIns(b) : ins[i] = NewIns
  BY <1>1 DEF Fresh
<1>3. /\ blk[b].fetched = 0 /\ ~blk[b].doneFetch /\ blk[b].completed = 0
      /\ ~blk[b].memViolation
  <2> DEFINE p == blk[b].permit
             t == [NewBlock EXCEPT !.permit = p]
  <2>1. t.fetched = 0 /\ ~t.doneFetch /\ t.completed = 0 /\ ~t.memViolation
    <3> HIDE DEF p
    <3> QED BY DEF NewBlock
  <2> QED BY <1>2, <2>1
<1> QED BY <1>1, <1>2, <1>3 DEF NewIns

(* The instructions of a block that are popped are the next of it. *)
Pops(b, A, P, past) ==
  LET c == Cardinality(P \cap BlockIns(b))
      h == BBheadID(b)
      f == blk[b].fetched
      s == BBsize(b)
  IN /\ c \in Nat /\ h \in Nat /\ f \in Nat /\ s \in Nat /\ f + c <= s
     /\ b \notin A => c = 0
     /\ b \in A => \A i \in BlockIns(b) : i \in P <=> h + f <= i /\ i < h + f + c
     /\ b \in past => f + c = s

LEMMA BlockPops ==
  ASSUME IInv, NEW n \in 0 .. Len(bbCache), NEW A \in SUBSET Blocks, NEW P \in SUBSET Ids,
         NEW U \in SUBSET Ids, NEW past \in SUBSET Blocks, FetchCycle(n, A, P, U, past),
         NEW b \in Blocks
  PROVE  Pops(b, A, P, past)
<1> DEFINE c == Cardinality(P \cap BlockIns(b))
           h == BBheadID(b)
           f == blk[b].fetched
           s == BBsize(b)
           S == P \cap BlockIns(b)
<1>1. /\ TypeOK /\ Ids \in SUBSET Nat
  BY Numbers DEF IInv
<1>2. /\ h \in Nat /\ s \in Nat \ {0} /\ BlockIns(b) = h .. h + s - 1 /\ BlockIns(b) \subseteq Ids
  BY <1>1, BlockShape
<1>3. f \in Nat /\ f <= s
  <2>1. blk[b] \in BlkState /\ blk[b].fetched <= BBsize(b)
    BY <1>1, Tables
  <2> QED BY <2>1 DEF BlkState
<1>4. /\ U = {i \in Ids : BB(i) \in A /\ i >= BBheadID(BB(i)) + blk[BB(i)].fetched}
      /\ P \subseteq U /\ DownClosed(P, U) /\ past \subseteq A
      /\ \A i \in U : BB(i) \in past => i \in P
  BY DEF FetchCycle
<1>5. \A i \in BlockIns(b) : BB(i) = b /\ i \in Ids /\ i \in Nat
  BY <1>1 DEF BlockIns
<1>6. ASSUME b \notin A PROVE c = 0 /\ c \in Nat
  <2>1. S = {}
    BY <1>4, <1>5, <1>6
  <2>2. Cardinality({}) = 0
    BY FS_EmptySet
  <2>3. c = 0
    BY <2>1, <2>2
  <2> QED BY <2>3
<1>7. ASSUME b \in A
      PROVE  /\ c \in Nat /\ S = h + f .. h + f + c - 1
             /\ \A i \in BlockIns(b) : i \in U <=> h + f <= i
  <2>1. \A i \in BlockIns(b) : i \in U <=> h + f <= i
    BY <1>2, <1>3, <1>4, <1>5, <1>7
  <2> DEFINE lo == h + f
             hi == h + s - 1
  <2>2. lo \in Nat /\ hi \in Nat
    BY <1>2, <1>3
  <2>3. S \in SUBSET (lo .. hi)
    BY <1>2, <1>4, <2>1, <2>2
  <2>4. DownClosed(S, lo .. hi)
    <3> SUFFICES ASSUME NEW i \in S, NEW j \in lo .. hi, j < i PROVE j \in S
      BY DEF DownClosed
    <3>1. j \in BlockIns(b) /\ h + f <= j
      BY <1>2, <1>3
    <3>2. j \in U
      BY <3>1, <2>1
    <3> QED BY <3>1, <3>2, <1>4 DEF DownClosed
  <2> HIDE DEF lo, hi, S
  <2>5. Cardinality(S) \in Nat /\ S = lo .. lo + Cardinality(S) - 1
    BY <2>2, <2>3, <2>4, DownClosedInterval
  <2> QED BY <2>1, <2>5 DEF lo, S
<1> HIDE DEF c, h, f, s
<1>8. ASSUME b \in A
      PROVE  /\ f + c <= s
             /\ \A i \in BlockIns(b) : i \in P <=> h + f <= i /\ i < h + f + c
             /\ b \in past => f + c = s
  <2>1. \A i \in BlockIns(b) : i \in P <=> i \in S
    OBVIOUS
  <2>2. c \in Nat /\ S = h + f .. h + f + c - 1 /\ S \subseteq BlockIns(b)
    BY <1>7, <1>8
  <2>3. f + c <= s
    <3>1. CASE c = 0
      BY <3>1, <1>3
    <3>2. CASE c > 0
      <4>1. h + f + c - 1 \in S
        BY <2>2, <3>2, <1>2, <1>3
      <4>2. h + f + c - 1 \in h .. h + s - 1
        BY <4>1, <2>2, <1>2
      <4> QED BY <4>2, <2>2, <1>2, <1>3
    <3> QED BY <3>1, <3>2, <2>2
  <2>4. \A i \in BlockIns(b) : i \in P <=> h + f <= i /\ i < h + f + c
    <3> HIDE DEF S
    <3> QED BY <2>1, <2>2, <1>2, <1>3, <1>5
  <2>5. ASSUME b \in past, f + c < s PROVE FALSE
    <3> DEFINE i == h + f + c
    <3>1. i \in BlockIns(b) /\ h + f <= i /\ ~(i < h + f + c)
      BY <2>2, <2>5, <1>2, <1>3
    <3>2. i \in U
      BY <3>1, <1>7, <1>8
    <3>3. i \in P
      BY <3>1, <3>2, <2>5, <1>4, <1>5
    <3> QED BY <3>1, <3>3, <2>4
  <2> QED BY <2>2, <2>3, <2>4, <2>5, <1>2, <1>3
<1>9. b \in past => b \in A
  BY <1>4
<1>10. c \in Nat /\ f + c <= s /\ (b \notin A => c = 0) /\ (b \in past => f + c = s)
  <2>1. CASE b \in A
    BY <2>1, <1>7, <1>8
  <2>2. CASE b \notin A
    BY <2>2, <1>6, <1>9, <1>3, <1>2
  <2> QED BY <2>1, <2>2
<1>11. b \in A => \A i \in BlockIns(b) : i \in P <=> h + f <= i /\ i < h + f + c
  BY <1>8
<1> QED BY <1>2, <1>3, <1>10, <1>11 DEF Pops, c, h, f, s

LEMMA FetchNormal ==
  ASSUME IInv, doFETCH, pipe = "NORMAL"
  PROVE  IInv'
<1> USE DEF squashVars, history
<1>u. UNCHANGED <<program, supplied, pipe, squashSN, squashType, badInsID, retired,
                  deleted, decodePort, windows, issuePort, EU, bbROB, LQ, SQ>>
  BY DEF doFETCH
<1>t. /\ Ids' = Ids /\ Blocks' = Blocks /\ LoadIds' = LoadIds /\ StoreIds' = StoreIds
      /\ HeadIds' = HeadIds /\ LastBlock' = LastBlock
      /\ \A i : Op(i)' = Op(i) /\ BB(i)' = BB(i) /\ WrongPath(i)' = WrongPath(i)
      /\ \A b : /\ BlockIns(b)' = BlockIns(b) /\ BBsize(b)' = BBsize(b)
                /\ BBheadID(b)' = BBheadID(b) /\ isOnWrongPath(b)' = isOnWrongPath(b)
  BY <1>u, ProgramStays
<1>3. /\ TypeOK /\ Ids \in SUBSET Nat /\ Blocks \in SUBSET Nat /\ NoBB \notin Blocks
      /\ \A i \in Ids : BB(i) \in Blocks
  BY Numbers DEF IInv
<1>e. /\ InROB' = InROB /\ Units' = Units /\ turn = "FETCH"
  BY <1>u DEF InROB, Units, doFETCH
<1>1. PICK n \in 0 .. Len(bbCache), A \in SUBSET Blocks, P \in SUBSET Ids,
           U \in SUBSET Ids, past \in SUBSET Blocks : FetchCycle(n, A, P, U, past)
  <2>1. fetchImpl
    BY DEF doFETCH
  <2> QED BY <2>1, FetchImpl
<1>p. \A b \in Blocks : Pops(b, A, P, past)
  BY <1>1, BlockPops, Zenon
<1> DEFINE tk == Take(bbCache, n)
           T == Elements(tk)
<1>2. /\ A = T \cup ({currentBB} \ {NoBB})
      /\ U = {i \in Ids : BB(i) \in A /\ i >= BBheadID(BB(i)) + blk[BB(i)].fetched}
      /\ bbCache' = Drop(bbCache, n)
      /\ bbQUE' = bbQUE \o tk
      /\ fetchPort' = fetchPort \o Ascending(P)
      /\ ins' = AtStage(P, "FETCH", ins)
      /\ P \subseteq U
      /\ Cardinality(P) \in Nat /\ Len(fetchPort) + Cardinality(P) <= PortLen
      /\ blk' = [b \in Blocks |->
                   [blk[b] EXCEPT !.fetched = @ + Cardinality(P \cap BlockIns(b)),
                                  !.doneFetch = @ \/ b \in past]]
      /\ past \subseteq A
      /\ \/ currentBB' = NoBB /\ past = A
         \/ currentBB' \in A /\ past = A \ {currentBB'} /\ \A b \in A : b <= currentBB'
      /\ turn' \in {"FRONTEND", "HALT", "COMMIT"}
      /\ (currentBB' # NoBB /\ n = 0 /\ U = {} => ~canMove /\ turn' = "FRONTEND")
  BY <1>1 DEF FetchCycle
<1>4. bbCache \in Seq(Blocks) /\ Increasing(bbCache) /\ bbQUE \in Seq(Blocks)
      /\ Increasing(bbQUE) /\ fetchPort \in Seq(Ids) /\ Increasing(fetchPort)
  BY <1>3, QueueTypes DEF IInv, InOrder
<1>5. /\ tk \in Seq(Blocks) /\ Len(tk) = n /\ Drop(bbCache, n) \in Seq(Blocks)
  BY <1>1, <1>4, TakeDrop
<1>6. /\ Increasing(tk) /\ Increasing(Drop(bbCache, n))
      /\ Before(T, Elements(Drop(bbCache, n)))
      /\ Elements(Drop(bbCache, n)) = Elements(bbCache) \ T
      /\ Elements(bbCache) = T \cup Elements(Drop(bbCache, n))
  BY <1>1, <1>3, <1>4, IncreasingTakeDrop, TakeDropElements
<1>7. T \subseteq Elements(bbCache) /\ T \subseteq Blocks /\ Fetched \subseteq Blocks
      /\ Elements(bbCache) \subseteq Blocks /\ (T = {} => n = 0)
  BY <1>3, <1>5, <1>6, ElementTypes, ElementsIn
<1>8. Before(Fetched, Elements(bbCache)) /\ Before(Fetched, T)
  BY <1>7 DEF IInv, TraceOrder, Before
<1> HIDE DEF T, tk
<1>9. /\ bbCache' \in Seq(Blocks) /\ Increasing(bbCache')
      /\ Elements(bbCache') = Elements(bbCache) \ T /\ Before(T, Elements(bbCache'))
  BY <1>2, <1>5, <1>6
<1>10. /\ bbQUE' \in Seq(Blocks) /\ Increasing(bbQUE') /\ Fetched' = Fetched \cup T
  <2>1. Elements(bbQUE \o tk) = Elements(bbQUE) \cup T /\ bbQUE \o tk \in Seq(Blocks)
    BY <1>4, <1>5, Concat, ZenonT(60) DEF T
  <2>2. Increasing(bbQUE \o tk)
    BY <1>4, <1>5, <1>6, <1>8, Concat DEF T, Fetched
  <2> QED BY <1>2, <2>1, <2>2 DEF Fetched
<1>11. Fetched \cap T = {} /\ \A b \in T : b \in Elements(bbCache) /\ b \in Blocks
  BY <1>3, <1>7, <1>8, BeforeDisjoint
<1>12. FetchedIns' = FetchedIns \cup {i \in Ids : BB(i) \in T}
  BY <1>10, <1>t DEF FetchedIns
<1>13. /\ currentBB # NoBB => currentBB \in Fetched /\ ~blk[currentBB].doneFetch
                              /\ \A b \in Fetched : b <= currentBB
       /\ currentBB \in Blocks \cup {NoBB}
       /\ \A i \in FetchedIns :
            ins[i].stage # "NO_STAGE" <=> i < BBheadID(BB(i)) + blk[BB(i)].fetched
  BY DEF IInv, Fetching, TypeOK
<1>14. \A b \in A : b \in T \/ (b = currentBB /\ b \in Fetched)
  BY <1>2, <1>13
<1>15. \A i \in P : /\ i \in Ids /\ BB(i) \in A /\ i \in U /\ i \in Nat
                    /\ i >= BBheadID(BB(i)) + blk[BB(i)].fetched
  BY <1>1, <1>2, <1>3
<1>16. \A b \in T : /\ blk[b].fetched = 0 /\ ~blk[b].doneFetch /\ blk[b].completed = 0
                    /\ ~blk[b].memViolation
                    /\ \A i \in BlockIns(b) :
                         /\ ins[i].stage = "NO_STAGE" /\ ins[i].lsq = "NO_STATE"
                         /\ ~ins[i].memViolation /\ ~ins[i].cacheAxes /\ ~ins[i].overtook
  BY <1>11, FreshBlock
<1>17. \A i \in P : ins[i].stage = "NO_STAGE" /\ i \notin Popped
  <2> SUFFICES ASSUME NEW i \in P PROVE ins[i].stage = "NO_STAGE"
    BY DEF Popped
  <2>1. CASE BB(i) \in T
    <3>1. i \in BlockIns(BB(i))
      BY <1>15 DEF BlockIns
    <3> QED BY <2>1, <3>1, <1>16
  <2>2. CASE BB(i) \notin T
    <3>1. BB(i) \in Fetched
      BY <2>2, <1>14, <1>15
    <3>2. i \in FetchedIns
      BY <3>1, <1>15 DEF FetchedIns
    <3>3. ~(i < BBheadID(BB(i)) + blk[BB(i)].fetched)
      <4>1. BBheadID(BB(i)) \in Nat
        BY <1>3, <1>15, BlockShape
      <4>2. blk[BB(i)] \in BlkState
        BY <1>3, <1>15, Tables
      <4>3. blk[BB(i)].fetched \in Nat
        BY <4>2 DEF BlkState
      <4> QED BY <4>1, <4>3, <1>15
    <3> QED BY <3>2, <3>3, <1>13
  <2> QED BY <2>1, <2>2
<1>18. /\ ins' \in [Ids -> InsState]
       /\ \A i \in P : ins'[i].stage = "FETCH"
       /\ \A i \in Ids : /\ ins'[i].lsq = ins[i].lsq
                         /\ ins'[i].memViolation = ins[i].memViolation
                         /\ ins'[i].cacheAxes = ins[i].cacheAxes
                         /\ ins'[i].overtook = ins[i].overtook
       /\ \A i \in Ids \ P : ins'[i] = ins[i]
  BY <1>1, <1>2, <1>3, FetchedStage
<1>19. \A b \in Blocks :
         /\ blk'[b] \in BlkState
         /\ blk'[b].fetched = blk[b].fetched + Cardinality(P \cap BlockIns(b))
         /\ blk'[b].doneFetch = (blk[b].doneFetch \/ b \in past)
         /\ blk'[b].completed = blk[b].completed
         /\ blk'[b].memViolation = blk[b].memViolation /\ blk'[b].permit = blk[b].permit
         /\ (b \notin A => blk'[b] = blk[b])
  <2> TAKE b \in Blocks
  <2>1. blk[b] \in BlkState
    BY <1>3, Tables
  <2>2. Cardinality(P \cap BlockIns(b)) \in Nat /\ (b \notin A => Cardinality(P \cap BlockIns(b)) = 0)
    BY <1>p DEF Pops
  <2> DEFINE c == Cardinality(P \cap BlockIns(b))
             d == b \in past
             t == FetchedState(blk[b], c, d)
  <2>3. blk'[b] = t
    BY <1>2 DEF FetchedState
  <2>4. c \in Nat /\ d \in BOOLEAN /\ (b \notin A => c = 0 /\ ~d)
    <3>1. past \subseteq A
      BY <1>2
    <3> QED BY <2>2, <3>1
  <2>5. /\ t \in BlkState /\ t.fetched = blk[b].fetched + c
        /\ t.doneFetch = (blk[b].doneFetch \/ d) /\ t.completed = blk[b].completed
        /\ t.memViolation = blk[b].memViolation /\ t.permit = blk[b].permit
        /\ (c = 0 /\ ~d => t = blk[b])
    <3> HIDE DEF c, d
    <3> QED BY <2>1, <2>4, FetchedBlock
  <2> HIDE DEF c, d, t
  <2>6. b \notin A => blk'[b] = blk[b]
    BY <2>3, <2>4, <2>5
  <2>7. /\ blk'[b] \in BlkState /\ blk'[b].fetched = blk[b].fetched + c
        /\ blk'[b].doneFetch = (blk[b].doneFetch \/ d)
        /\ blk'[b].completed = blk[b].completed
        /\ blk'[b].memViolation = blk[b].memViolation /\ blk'[b].permit = blk[b].permit
    BY <2>3, <2>5
  <2> QED BY <2>6, <2>7 DEF c, d
<1>20. \A i \in Ids \ P : ins'[i] = ins[i]
  BY <1>18
<1>21. Popped' = Popped \cup P
  <2>1. \A i \in FetchedIns' : (ins'[i].stage # "NO_STAGE") <=> (i \in Popped \/ i \in P)
    <3> TAKE i \in FetchedIns'
    <3>1. i \in Ids /\ (i \in FetchedIns \/ (BB(i) \in T /\ i \in BlockIns(BB(i))))
      BY <1>12 DEF FetchedIns, BlockIns
    <3>2. CASE i \in P
      BY <3>2, <1>18
    <3>3. CASE i \notin P /\ i \in FetchedIns
      BY <3>1, <3>3, <1>18 DEF Popped
    <3>4. CASE i \notin P /\ i \notin FetchedIns
      BY <3>1, <3>4, <1>18, <1>16 DEF Popped
    <3> QED BY <3>2, <3>3, <3>4
  <2>2. P \subseteq FetchedIns'
    BY <1>12, <1>14, <1>15 DEF FetchedIns
  <2>3. Popped \subseteq FetchedIns'
    BY <1>12 DEF Popped
  <2>4. \A i : i \in Popped' <=> (i \in FetchedIns' /\ ins'[i].stage # "NO_STAGE")
    BY DEF Popped
  <2> QED BY <2>1, <2>2, <2>3, <2>4
<1>22. Dispatched' = Dispatched /\ \A i \in Dispatched : ins'[i] = ins[i] /\ i \in FetchedIns
  <2>1. \A i : i \in Dispatched' <=> (i \in Popped' /\ ins'[i].stage \notin {"FETCH", "DECODE"})
    BY DEF Dispatched
  <2>2. \A i : i \in Dispatched <=> (i \in Popped /\ ins[i].stage \notin {"FETCH", "DECODE"})
    BY DEF Dispatched
  <2>3. \A i \in Popped : i \in Ids /\ i \notin P /\ ins'[i] = ins[i] /\ i \in FetchedIns
    BY <1>17, <1>18 DEF Popped, FetchedIns
  <2>4. \A i \in P : ins'[i].stage = "FETCH"
    BY <1>18
  <2> QED BY <2>1, <2>2, <2>3, <2>4, <1>21
<1>23. \A i \in Popped, j \in P : i < j
  <2> TAKE i \in Popped, j \in P
  <2>1. /\ i \in Ids /\ j \in Ids /\ BB(i) \in Fetched /\ i \in FetchedIns
        /\ ins[i].stage # "NO_STAGE"
    BY <1>15 DEF Popped, FetchedIns
  <2>2. /\ BB(i) \in Nat /\ BB(j) \in Nat /\ i \in Nat /\ j \in Nat
        /\ (BB(i) < BB(j) => i < j)
    BY <1>3, <2>1, BlockOrder
  <2>3. CASE BB(j) \in T
    BY <2>1, <2>2, <2>3, <1>8 DEF Before
  <2>4. CASE BB(j) \notin T
    <3>1. BB(j) = currentBB /\ BB(i) <= BB(j)
      BY <2>1, <2>4, <1>3, <1>13, <1>14, <1>15
    <3>2. CASE BB(i) < BB(j)
      BY <3>2, <2>2
    <3>3. CASE BB(i) = BB(j)
      <4>1. i < BBheadID(BB(i)) + blk[BB(i)].fetched
        BY <2>1, <1>13
      <4>2. j >= BBheadID(BB(i)) + blk[BB(i)].fetched
        BY <3>3, <1>15
      <4>3. BBheadID(BB(i)) \in Nat
        BY <1>3, <2>1, BlockShape
      <4>4. blk[BB(i)] \in BlkState
        BY <1>3, <2>1, Tables
      <4>5. blk[BB(i)].fetched \in Nat
        BY <4>4 DEF BlkState
      <4> QED BY <4>1, <4>2, <4>3, <4>5, <2>2
    <3> QED BY <3>1, <3>2, <3>3, <2>2
  <2> QED BY <2>3, <2>4
<1>24. /\ Window \subseteq Popped /\ Dispatched \subseteq Popped
       /\ Elements(decodePort) \subseteq Popped /\ Elements(fetchPort) \subseteq Popped
  <2>1. /\ \A i \in Elements(fetchPort) : ins[i].stage = "FETCH"
        /\ \A i \in Elements(decodePort) : ins[i].stage = "DECODE"
        /\ Window \subseteq FetchedIns
    BY DEF IInv, Stages, WindowOrder
  <2> QED BY <2>1 DEF Window, Popped, Dispatched
<1>25. /\ fetchPort' \in Seq(Ids) /\ Increasing(fetchPort')
       /\ Elements(fetchPort') = Elements(fetchPort) \cup P
       /\ Len(fetchPort') <= PortLen
  <2> DEFINE a == Ascending(P)
  <2>1. a \in Seq(P) /\ Increasing(a) /\ Elements(a) = P /\ Len(a) = Cardinality(P)
    <3>1. Len(program) \in Nat /\ P \in SUBSET (1 .. Len(program))
      BY <1>1, <1>3, Numbers
    <3> QED BY <3>1, AscendingQueue
  <2>2. a \in Seq(Ids)
    BY <2>1, <1>1
  <2>3. Before(Elements(fetchPort), P)
    BY <1>23, <1>24 DEF Before
  <2>4. fetchPort' = fetchPort \o a
    BY <1>2
  <2> HIDE DEF a
  <2>5. /\ fetchPort \o a \in Seq(Ids) /\ Len(fetchPort \o a) = Len(fetchPort) + Len(a)
        /\ Elements(fetchPort \o a) = Elements(fetchPort) \cup Elements(a)
    BY <1>4, <2>2, Concat, ZenonT(60)
  <2>6. Increasing(fetchPort \o a)
    BY <1>4, <2>1, <2>2, <2>3, Concat
  <2> QED BY <2>1, <2>4, <2>5, <2>6, <1>2
<1>26. Window' = Window \cup P /\ Traced' = Traced /\ Waiting' = Waiting
  BY <1>u, <1>e, <1>22, <1>25, <1>10, <1>9, <1>11 DEF Window, Traced, Waiting, Fetched
<1>27. \A i \in Ids : ins'[i].stage = "COMPLETE" <=> ins[i].stage = "COMPLETE"
  BY <1>17, <1>18
<1>28. \A b \in Blocks : Completed(b)' = Completed(b)
  BY <1>27, <1>t DEF Completed, BlockIns
<1> USE <1>u, <1>t, <1>e
<1>30. TypeOK'
  <2>1. ins' \in [Ids' -> [stage : Stage, lsq : LsqState, memViolation : BOOLEAN,
                           cacheAxes : BOOLEAN, overtook : BOOLEAN]]
    BY <1>18 DEF InsState
  <2>2. blk' \in [Blocks' -> BlkState]
    BY <1>2, <1>19
  <2>3. \A b \in Blocks' : blk'[b].fetched <= BBsize(b) /\ blk'[b].completed <= BBsize(b)
    <3> TAKE b \in Blocks'
    <3>1. blk[b].fetched + Cardinality(P \cap BlockIns(b)) <= BBsize(b)
      BY <1>p DEF Pops
    <3>2. blk[b].completed <= BBsize(b)
      BY <1>3, Tables
    <3> QED BY <3>1, <3>2, <1>19
  <2>4. currentBB' \in Blocks' \cup {NoBB}
    BY <1>1, <1>2
  <2>5. turn' \in {"COMMIT", "MEMORY", "EXECUTE", "SQUASH", "SCHEDULE", "DECODE",
                   "FETCH", "FRONTEND", "HALT"}
    BY <1>2
  <2>6. \A q \in {bbCache', bbQUE', bbROB', retired'} : q \in Seq(Blocks')
    BY <1>3, <1>9, <1>10, QueueTypes
  <2>7. \A q \in {fetchPort', decodePort', windows', issuePort', LQ', SQ'} : q \in Seq(Ids')
    BY <1>3, <1>25, QueueTypes
  <2>8. \A q \in {fetchPort', decodePort', issuePort'} : Len(q) <= PortLen
    BY <1>3, <1>25, Sizes
  <2> HIDE DEF FetchCycle
  <2> QED BY <1>3, <2>1, <2>2, <2>3, <2>4, <2>5, <2>6, <2>7, <2>8 DEF TypeOK, BlkState
<1>31. InOrder'
  BY <1>9, <1>10, <1>25 DEF IInv, InOrder
<1>32. TraceOrder'
  <2>1. Before(Fetched', Elements(bbCache'))
    BY <1>9, <1>10, <1>8 DEF Before
  <2> QED BY <2>1, <1>26 DEF IInv, TraceOrder
<1>33. Fetching'
  <2>1. \A b \in Blocks : b \in Elements(bbCache') \/ b > supplied => Fresh(b)'
    <3> SUFFICES ASSUME NEW b \in Blocks, b \in Elements(bbCache') \/ b > supplied
                 PROVE  Fresh(b)'
      OBVIOUS
    <3>1. b \in Elements(bbCache) \/ b > supplied
      BY <1>9
    <3>2. Fresh(b) /\ b \notin Fetched
      BY <3>1, FreshApart
    <3>3. b \notin T
      <4>1. b \in Elements(bbCache') => b \notin T
        BY <1>9
      <4>2. \A c \in T : ~(c > supplied)
        <5>1. \A c \in T : c \in 1 .. supplied
          BY <1>7 DEF IInv, TraceOrder, Traced
        <5>2. supplied \in Nat
          BY <1>3, Tables
        <5> QED BY <5>1, <5>2
      <4> QED BY <4>1, <4>2
    <3>4. b \notin A
      BY <3>2, <3>3, <1>14
    <3>5. blk'[b] = blk[b] /\ \A i \in BlockIns(b) : ins'[i] = ins[i]
      BY <3>4, <1>15, <1>18, <1>19 DEF BlockIns
    <3> QED BY <3>2, <3>5 DEF Fresh
  <2>2. \A i \in FetchedIns' :
          ins'[i].stage # "NO_STAGE" <=> i < BBheadID(BB(i)) + blk'[BB(i)].fetched
    <3> TAKE i \in FetchedIns'
    <3> DEFINE b == BB(i)
               c == Cardinality(P \cap BlockIns(b))
               h == BBheadID(b)
               f == blk[b].fetched
    <3>1. i \in Ids /\ b \in Blocks /\ i \in BlockIns(b) /\ i \in Nat /\ b \in Fetched \cup T
      BY <1>3, <1>12 DEF FetchedIns, BlockIns
    <3>2. /\ c \in Nat /\ h \in Nat /\ f \in Nat
          /\ (b \notin A => c = 0)
          /\ (b \in A => (i \in P <=> h + f <= i /\ i < h + f + c))
      BY <3>1, <1>p DEF Pops
    <3>3. blk'[b].fetched = f + c
      BY <3>1, <1>19
    <3>4. ins'[i].stage # "NO_STAGE" <=> i \in Popped \/ i \in P
      BY <1>21 DEF Popped
    <3>5. i \in Popped <=> i < h + f
      <4>1. CASE b \in Fetched
        <5>1. i \in FetchedIns
          BY <3>1, <4>1 DEF FetchedIns
        <5> QED BY <5>1, <1>13 DEF Popped
      <4>2. CASE b \in T
        <5>1. i \notin Popped
          BY <3>1, <4>2, <1>16 DEF Popped
        <5>2. f = 0 /\ h <= i
          <6>1. h <= i
            BY <3>1, <1>3, BlockOrder
          <6> QED BY <6>1, <4>2, <1>16
        <5> QED BY <5>1, <5>2, <3>1, <3>2
      <4> QED BY <3>1, <4>1, <4>2
    <3>6. b \notin A => i \notin P
      BY <1>15
    <3> HIDE DEF c, h, f
    <3>7. (i \in Popped \/ i \in P) <=> i < h + (f + c)
      BY <3>1, <3>2, <3>5, <3>6
    <3> QED BY <3>3, <3>4, <3>7 DEF h
  <2>3. ASSUME currentBB' # NoBB
        PROVE  /\ currentBB' \in Fetched'
               /\ \A b \in Fetched' : b <= currentBB'
               /\ ~blk'[currentBB'].doneFetch
    <3>1. currentBB' \in A /\ past = A \ {currentBB'} /\ \A b \in A : b <= currentBB'
      BY <1>2, <2>3
    <3>2. currentBB' \in Blocks /\ currentBB' \in Fetched' /\ currentBB' \in Nat
      BY <3>1, <1>1, <1>3, <1>10, <1>14
    <3>3. \A b \in Fetched' : b <= currentBB'
      <4> SUFFICES ASSUME NEW b \in Fetched, b \notin A PROVE b <= currentBB'
        <5>1. \A b \in Fetched' : b \in Fetched \/ b \in A
          BY <1>10, <1>2
        <5>2. \A b \in A : b <= currentBB'
          BY <3>1
        <5> QED BY <5>1, <5>2
      <4>0. b \in Nat
        BY <1>3, <1>7
      <4>1. CASE currentBB' \in T
        <5>1. b < currentBB'
          BY <4>1, <1>8 DEF Before
        <5> QED BY <5>1, <4>0, <3>2
      <4>2. CASE currentBB' \notin T
        <5>1. currentBB' = currentBB /\ currentBB # NoBB
          BY <4>2, <3>1, <1>14, <2>3
        <5> QED BY <5>1, <1>13
      <4> QED BY <4>1, <4>2
    <3>4. ~blk[currentBB'].doneFetch
      <4>1. CASE currentBB' \in T
        BY <4>1, <1>16
      <4>2. CASE currentBB' \notin T
        <5>1. currentBB' = currentBB /\ currentBB # NoBB
          BY <4>2, <3>1, <1>14, <2>3
        <5> QED BY <5>1, <1>13
      <4> QED BY <4>1, <4>2
    <3> QED BY <3>1, <3>2, <3>3, <3>4, <1>19
  <2>4. \A b \in Fetched' \ {currentBB'} : allFetched(blk', b) /\ blk'[b].doneFetch
    <3> TAKE b \in Fetched' \ {currentBB'}
    <3>1. b \in Blocks /\ b \in Fetched \cup T /\ b # currentBB'
      BY <1>7, <1>10
    <3>2. CASE b \in A
      <4>1. b \in past
        BY <3>1, <3>2, <1>2
      <4>2. blk[b].fetched + Cardinality(P \cap BlockIns(b)) = BBsize(b)
        BY <3>1, <4>1, <1>p DEF Pops
      <4> QED BY <3>1, <4>1, <4>2, <1>19 DEF allFetched
    <3>3. CASE b \notin A
      <4>1. b \in Fetched /\ b # currentBB
        BY <3>1, <3>3, <1>2, <1>3
      <4>2. allFetched(blk, b) /\ blk[b].doneFetch
        BY <4>1 DEF IInv, Fetching
      <4>3. blk'[b] = blk[b]
        BY <3>1, <3>3, <1>19
      <4> QED BY <4>2, <4>3 DEF allFetched
    <3> QED BY <3>2, <3>3
  <2> QED BY <2>1, <2>2, <2>3, <2>4 DEF Fetching, allFetched
<1>34. MovesOn'
  <2> SUFFICES ASSUME currentBB' # NoBB, NEW i \in BlockIns(currentBB'),
                      ins'[i].stage # "NO_STAGE", \A j \in BlockIns(currentBB') : j <= i,
                      i \notin Elements(fetchPort')
               PROVE  i \in Elements(decodePort) /\ turn' = "FRONTEND"
    BY DEF MovesOn
  <2>1. currentBB' \in A /\ (\A b \in A : b <= currentBB') /\ i \in Ids /\ BB(i) = currentBB'
        /\ i \notin P
    BY <1>2, <1>25 DEF BlockIns
  <2>2. ins[i].stage # "NO_STAGE"
    BY <2>1, <1>18
  <2>3. currentBB' \notin T
    BY <2>2, <1>16
  <2>4. currentBB' = currentBB /\ currentBB \in Fetched /\ currentBB # NoBB
    BY <2>1, <2>3, <1>14
  <2>5. T = {}
    <3> SUFFICES ASSUME NEW b \in T PROVE FALSE
      OBVIOUS
    <3>0. b \in A
      BY <1>2
    <3>1. b <= currentBB
      BY <3>0, <2>1, <2>4
    <3>3. currentBB < b
      BY <2>4, <1>8 DEF Before
    <3>2. b \in Nat /\ currentBB \in Nat
      BY <2>4, <1>3, <1>7
    <3> QED BY <3>1, <3>2, <3>3
  <2>6. n = 0 /\ A = {currentBB}
    BY <2>5, <2>4, <1>2, <1>7
  <2>7. U = {}
    <3> SUFFICES ASSUME NEW j \in U PROVE FALSE
      OBVIOUS
    <3>1. j \in Ids /\ BB(j) = currentBB /\ j >= BBheadID(BB(i)) + blk[BB(i)].fetched
      BY <1>2, <2>1, <2>4, <2>6
    <3>2. i \in FetchedIns
      BY <2>1, <2>4 DEF FetchedIns
    <3>3. i < BBheadID(BB(i)) + blk[BB(i)].fetched
      BY <3>2, <2>2, <1>13
    <3>4. j <= i
      BY <3>1, <2>4 DEF BlockIns
    <3>5. BBheadID(BB(i)) \in Nat /\ i \in Nat /\ j \in Nat
      BY <1>3, <2>1, <3>1, BlockShape
    <3>6. blk[BB(i)] \in BlkState
      BY <1>3, <2>1, Tables
    <3>7. blk[BB(i)].fetched \in Nat
      BY <3>6 DEF BlkState
    <3> QED BY <3>1, <3>3, <3>4, <3>5, <3>7
  <2>8. ~canMove /\ turn' = "FRONTEND"
    BY <2>4, <2>6, <2>7, <1>2
  <2>9. i \in Elements(fetchPort) \/ i \in Elements(decodePort)
    <3>1. i \in BlockIns(currentBB) /\ \A j \in BlockIns(currentBB) : j <= i
      BY <2>4
    <3> QED BY <3>1, <2>2, <2>4, <2>8 DEF IInv, MovesOn, canMove
  <2> QED BY <2>8, <2>9, <1>25
<1>35. WindowOrder'
  <2>1. /\ Before(Dispatched, P) /\ Before(Elements(decodePort), P)
        /\ Before(Elements(fetchPort), P)
    BY <1>23, <1>24 DEF Before
  <2>2. /\ Before(Dispatched', Elements(decodePort') \cup Elements(fetchPort'))
        /\ Before(Elements(decodePort'), Elements(fetchPort'))
    BY <2>1, <1>22, <1>25 DEF IInv, WindowOrder, Before
  <2>3. Window' \subseteq FetchedIns'
    <3>1. Popped' \subseteq FetchedIns'
      BY DEF Popped
    <3> QED BY <3>1, <1>21, <1>24, <1>26
  <2>4. DownClosed(Dispatched', FetchedIns')
    <3> SUFFICES ASSUME NEW i \in Dispatched, NEW j \in FetchedIns', j < i
                 PROVE  j \in Dispatched
      BY <1>22 DEF DownClosed
    <3>1. CASE j \in FetchedIns
      BY <3>1 DEF IInv, WindowOrder, DownClosed
    <3>2. CASE BB(j) \in T /\ j \in Ids
      <4>1. i \in Ids /\ BB(i) \in Fetched
        BY <1>22 DEF FetchedIns
      <4>2. BB(i) < BB(j)
        BY <3>2, <4>1, <1>8 DEF Before
      <4>3. i < j /\ i \in Nat /\ j \in Nat
        BY <3>2, <4>1, <4>2, <1>3, BlockOrder
      <4> QED BY <4>3
    <3> QED BY <3>1, <3>2, <1>12
  <2>5. Window' = Popped'
    <3>1. Popped \subseteq Window
      BY DEF IInv, WindowOrder
    <3> QED BY <3>1, <1>21, <1>24, <1>26
  <2>6. DownClosed(Popped', FetchedIns')
    BY <1>30, <1>33, PoppedFirstNext
  <2>7. InROB' = {BB(i)' : i \in Dispatched'}
    BY <1>22 DEF IInv, WindowOrder
  <2> QED BY <2>2, <2>3, <2>4, <2>5, <2>6, <2>7 DEF WindowOrder, FlushedIn
<1>36. Stages'
  <2>1. \A i \in Elements(fetchPort') : ins'[i].stage = "FETCH"
    <3> SUFFICES ASSUME NEW i \in Elements(fetchPort), i \notin P
                 PROVE  ins'[i].stage = "FETCH"
      BY <1>18, <1>25
    <3>1. i \in Ids /\ ins[i].stage = "FETCH"
      BY <1>3, ElementTypes DEF IInv, Stages
    <3> QED BY <3>1, <1>18
  <2>2. \A i \in Elements(decodePort) : ins'[i].stage = "DECODE"
    <3> TAKE i \in Elements(decodePort)
    <3>1. i \notin P /\ i \in Ids /\ ins[i].stage = "DECODE"
      BY <1>17, <1>24, <1>3, ElementTypes DEF IInv, Stages
    <3> QED BY <3>1, <1>18
  <2>3. \A i \in FetchedIns' \ Dispatched :
          /\ ins'[i].lsq = "NO_STATE" /\ ~ins'[i].memViolation
          /\ ~ins'[i].cacheAxes /\ ~ins'[i].overtook
    <3> TAKE i \in FetchedIns' \ Dispatched
    <3>1. i \in Ids
      BY DEF FetchedIns
    <3>2. /\ ins[i].lsq = "NO_STATE" /\ ~ins[i].memViolation
          /\ ~ins[i].cacheAxes /\ ~ins[i].overtook
      <4>1. CASE i \in FetchedIns
        BY <4>1 DEF IInv, Stages
      <4>2. CASE BB(i) \in T
        <5>1. i \in BlockIns(BB(i))
          BY <3>1 DEF BlockIns
        <5> QED BY <4>2, <5>1, <1>16
      <4> QED BY <4>1, <4>2, <1>12
    <3> QED BY <3>1, <3>2, <1>18
  <2>4. /\ \A i \in Elements(windows) : i \in Dispatched /\ ins'[i].stage = "DISPATCH"
        /\ \A i \in Elements(issuePort) : i \in Dispatched /\ ins'[i].stage = "ISSUE"
        /\ \A i \in Units : i \in Dispatched /\ ins'[i].stage = "EXECUTE"
    BY <1>22 DEF IInv, Stages
  <2>5. \A i \in Dispatched :
          /\ Lifecycle(i)'
          /\ ins'[i].stage = "EXECUTE" => i \in Units
          /\ ins'[i].memViolation =>
              i \in LoadIds /\ ins'[i].lsq = "COMPLETE" /\ blk'[BB(i)].memViolation
    <3> TAKE i \in Dispatched
    <3>1. ins'[i] = ins[i] /\ i \in Ids /\ blk'[BB(i)].memViolation = blk[BB(i)].memViolation
      BY <1>3, <1>19, <1>22, Flight
    <3>2. Lifecycle(i) /\ (ins[i].stage = "EXECUTE" => i \in Units)
          /\ (ins[i].memViolation =>
               i \in LoadIds /\ ins[i].lsq = "COMPLETE" /\ blk[BB(i)].memViolation)
      BY DEF IInv, Stages
    <3> QED BY <3>1, <3>2 DEF Lifecycle
  <2> QED BY <2>1, <2>2, <2>3, <2>4, <2>5, <1>22 DEF Stages
<1>37. Counting'
  <2> SUFFICES ASSUME NEW b \in Fetched \cup T
               PROVE  blk'[b].completed = Cardinality(Completed(b))
    BY <1>7, <1>10, <1>28 DEF Counting
  <2>0. b \in Blocks /\ blk'[b].completed = blk[b].completed
    BY <1>7, <1>19
  <2>1. CASE b \in Fetched
    BY <2>0, <2>1 DEF IInv, Counting
  <2>2. CASE b \in T
    <3>1. Completed(b) = {} /\ blk[b].completed = 0
      BY <2>2, <1>16 DEF Completed
    <3>2. Cardinality({}) = 0
      BY FS_EmptySet
    <3> QED BY <2>0, <3>1, <3>2
  <2> QED BY <2>1, <2>2
<1>38. LSQ'
  <2>1. \A i \in Elements(SQ) \ Dispatched : ins'[i] = ins[i]
    <3>1. \A i \in Elements(SQ) \ Dispatched : ins[i].stage = "COMMIT" /\ i \in Ids
      BY <1>3, ElementTypes DEF IInv, LSQ
    <3> QED BY <3>1, <1>17, <1>18
  <2> QED BY <2>1, <1>22, <1>26 DEF IInv, LSQ
<1>39. Squashing'
  <2>1. \A i \in Dispatched : ~Detected(i)'
    BY <1>22 DEF IInv, Squashing, Detected
  <2> QED BY <2>1, <1>2, <1>22 DEF IInv, Squashing, squashBB
<1>40. Flushing'
  BY DEF IInv, Flushing, FlushedIn
<1>41. Permits'
  <2>1. \A b : BlockIns(b) \subseteq Ids
    BY DEF BlockIns
  <2>2. /\ \A b \in Blocks : b > supplied => blk'[b].permit
        /\ \A b \in Traced : b \in Blocks
    BY <1>3, <1>19, ElementTypes DEF IInv, Permits
  <2> SUFFICES ASSUME NEW b \in Traced, ~blk'[b].permit
               PROVE  /\ \A c \in Traced : b <= c
                      /\ ~blk'[b].memViolation
                      /\ \A i \in BlockIns(b) : ~ins'[i].overtook
                      /\ \A l \in BlockIns(b) \cap LoadIds, s \in BlockIns(b) \cap StoreIds :
                           s < l /\ ins'[l].stage = "COMPLETE" => ins'[s].stage = "COMPLETE"
    BY <2>2, <1>26 DEF Permits
  <2>3. ~blk[b].permit /\ blk'[b].memViolation = blk[b].memViolation
    BY <2>2, <1>19
  <2> QED BY <2>1, <2>3, <1>18, <1>27 DEF IInv, Permits
<1> QED BY <1>30, <1>31, <1>32, <1>33, <1>34, <1>35, <1>36, <1>37, <1>38, <1>39, <1>40,
           <1>41 DEF IInv

LEMMA FetchFlush ==
  ASSUME IInv, doFETCH, pipe # "NORMAL"
  PROVE  IInv'
<1> USE DEF squashVars, history, insVars
<1>u. UNCHANGED <<program, supplied, bbCache, currentBB, pipe, squashSN, squashType,
                  badInsID, ins, blk, retired, deleted, bbQUE, decodePort, windows,
                  issuePort, EU, bbROB, LQ, SQ>>
  BY DEF doFETCH
<1>1. /\ turn = "FETCH" /\ turn' = "COMMIT"
      /\ fetchPort' = IF pipe = "FLUSH" THEN FlushBack(fetchPort, squashSN) ELSE fetchPort
  BY DEF doFETCH
<1>t. /\ Ids' = Ids /\ Blocks' = Blocks /\ LoadIds' = LoadIds /\ StoreIds' = StoreIds
      /\ HeadIds' = HeadIds /\ LastBlock' = LastBlock
      /\ \A i : Op(i)' = Op(i) /\ BB(i)' = BB(i) /\ WrongPath(i)' = WrongPath(i)
      /\ \A b : /\ BlockIns(b)' = BlockIns(b) /\ BBsize(b)' = BBsize(b)
                /\ BBheadID(b)' = BBheadID(b) /\ isOnWrongPath(b)' = isOnWrongPath(b)
  BY <1>u, ProgramStays
<1>s. /\ Fetched' = Fetched /\ FetchedIns' = FetchedIns /\ Popped' = Popped
      /\ Dispatched' = Dispatched /\ InROB' = InROB /\ Units' = Units
      /\ Waiting' = Waiting /\ Traced' = Traced
      /\ \A b : Completed(b)' = Completed(b)
      /\ \A i : Detected(i)' = Detected(i)
  BY <1>u, SetsStay DEF InROB, Units, Waiting, Traced
<1>3. TypeOK /\ Ids \in SUBSET Nat
  BY Numbers DEF IInv
<1>4. pipe = "FLUSH" => fetchPort' = << >>
  <2> SUFFICES ASSUME pipe = "FLUSH" PROVE FlushBack(fetchPort, squashSN) = << >>
    BY <1>1
  <2>2. /\ squashSN \in Nat
        /\ \A i \in Elements(fetchPort) : i \in Nat /\ ~(i < squashSN)
    BY CulpritFirst
  <2>4. /\ FlushBack(fetchPort, squashSN) \in Seq(Ids)
        /\ Elements(FlushBack(fetchPort, squashSN)) =
             {i \in Elements(fetchPort) : i < squashSN}
    BY <1>3, <2>2, QueueTypes, FlushBackElements DEF IInv, InOrder
  <2>5. Elements(FlushBack(fetchPort, squashSN)) = {}
    BY <2>2, <2>4
  <2> QED BY <2>4, <2>5, ElementsIn
<1>5. fetchPort' = fetchPort \/ fetchPort' = << >>
  BY <1>1, <1>4
<1>6. /\ fetchPort' \in Seq(Ids) /\ Increasing(fetchPort') /\ Len(fetchPort') <= PortLen
      /\ Elements(fetchPort') \subseteq Elements(fetchPort)
  <2>1. CASE fetchPort' = fetchPort
    BY <1>3, <2>1, QueueTypes, Sizes DEF IInv, InOrder
  <2>2. CASE fetchPort' = << >>
    <3>1. PortLen \in Nat
      BY <1>3, Sizes
    <3> QED BY <2>2, <3>1, EmptyQueue
  <2> QED BY <1>5, <2>1, <2>2
<1> USE <1>u, <1>t, <1>s
<1>7. TypeOK'
  <2>1. fetchPort' \in Seq(Ids') /\ Len(fetchPort') <= PortLen
    BY <1>6
  <2> QED BY <1>1, <1>3, <2>1 DEF TypeOK
<1>8. InOrder' /\ TraceOrder'
  BY <1>6 DEF IInv, InOrder, TraceOrder
<1>9. Fetching' /\ MovesOn'
  BY DEF IInv, Fetching, MovesOn, Fresh, allFetched
<1>10. WindowOrder'
  <2>1. /\ Before(Dispatched, Elements(decodePort) \cup Elements(fetchPort'))
        /\ Before(Elements(decodePort), Elements(fetchPort'))
        /\ Window' \subseteq FetchedIns
    BY <1>6 DEF IInv, WindowOrder, Before, Window
  <2>2. CASE pipe = "WAIT_FLUSH"
    <3>1. fetchPort' = fetchPort /\ Window' = Window
      BY <2>2, <1>1 DEF Window
    <3> QED BY <3>1, <2>2, <1>1 DEF IInv, WindowOrder, FlushedIn
  <2>3. CASE pipe \in {"FLUSH", "DRAIN", "SQUASH_ROB"}
    <3>1. fetchPort' = << >> /\ decodePort = << >>
      BY <2>3, <1>1, <1>4 DEF IInv, WindowOrder, FlushedIn
    <3>2. Elements(fetchPort') = {} /\ Elements(decodePort) = {}
      BY <3>1, EmptyQueue
    <3>3. Window' = Dispatched
      BY <3>2 DEF Window
    <3> QED BY <3>1, <3>3, <2>1, <2>3, <1>1 DEF IInv, WindowOrder, FlushedIn
  <2> QED BY <2>2, <2>3, <1>3 DEF TypeOK
<1>11. Stages' /\ Counting'
  BY <1>6 DEF IInv, Stages, Lifecycle, Counting
<1>12. LSQ'
  BY DEF IInv, LSQ
<1>13. Squashing'
  BY <1>1 DEF IInv, Squashing, Culprit, squashBB
<1>14. Flushing'
  BY <1>1 DEF IInv, Flushing, FlushedIn
<1>15. Permits'
  BY DEF IInv, Permits
<1> QED BY <1>7, <1>8, <1>9, <1>10, <1>11, <1>12, <1>13, <1>14, <1>15 DEF IInv

LEMMA FetchStep == ASSUME IInv, doFETCH PROVE IInv'
BY FetchNormal, FetchFlush

-----------------------------------------------------------------------------
(* The scheduler. *)

LEMMA ScheduleFlush ==
  ASSUME IInv, doSCHEDULER, pipe = "FLUSH"
  PROVE  IInv'
<1> USE DEF frontVars, squashVars, history
<1>u. UNCHANGED <<program, supplied, bbCache, currentBB, pipe, squashSN, squashType,
                  badInsID, ins, blk, retired, deleted, bbQUE, fetchPort, decodePort,
                  EU, bbROB, LQ, SQ>>
  BY DEF doSCHEDULER
<1>t. /\ Ids' = Ids /\ Blocks' = Blocks /\ LoadIds' = LoadIds /\ StoreIds' = StoreIds
      /\ HeadIds' = HeadIds /\ LastBlock' = LastBlock
      /\ \A i : Op(i)' = Op(i) /\ BB(i)' = BB(i) /\ WrongPath(i)' = WrongPath(i)
      /\ \A b : /\ BlockIns(b)' = BlockIns(b) /\ BBsize(b)' = BBsize(b)
                /\ BBheadID(b)' = BBheadID(b) /\ isOnWrongPath(b)' = isOnWrongPath(b)
  BY <1>u, ProgramStays
<1>3. TypeOK /\ Ids \in SUBSET Nat
  BY Numbers DEF IInv
<1>e. /\ Fetched' = Fetched /\ FetchedIns' = FetchedIns /\ Popped' = Popped
      /\ Dispatched' = Dispatched /\ InROB' = InROB /\ Units' = Units
      /\ Window' = Window /\ Traced' = Traced
      /\ \A b : Completed(b)' = Completed(b)
      /\ \A i : Detected(i)' = Detected(i)
  BY <1>u, SetsStay DEF InROB, Units, Window, Traced
<1> DEFINE older == {i \in Ids : i < squashSN}
<1>1. /\ turn = "SCHEDULE" /\ turn' = "DECODE"
      /\ issuePort' = Filter(issuePort, older) /\ windows' = Filter(windows, older)
  BY DEF doSCHEDULER, SearchAndFlush
<1>2. /\ issuePort \in Seq(Ids) /\ Distinct(issuePort)
      /\ windows \in Seq(Ids) /\ Increasing(windows)
      /\ Len(issuePort) <= PortLen
      /\ Len(issuePort) \in Nat /\ PortLen \in Nat
  BY <1>3, QueueTypes, Sizes, SMTT(30) DEF IInv, InOrder
<1>4. /\ issuePort' \in Seq(Ids) /\ Distinct(issuePort') /\ Len(issuePort') <= PortLen
      /\ Elements(issuePort') = Elements(issuePort) \cap older
  <2> HIDE DEF older
  <2>1. /\ issuePort' \in Seq(Ids) /\ Len(issuePort') <= Len(issuePort)
        /\ Elements(issuePort') = Elements(issuePort) \cap older
    BY <1>1, <1>2, FilterElements
  <2>2. Distinct(issuePort')
    BY <1>1, <1>2, FilterDistinct
  <2>3. Len(issuePort') \in Nat
    BY <2>1
  <2> QED BY <1>2, <2>1, <2>2, <2>3
<1>5. /\ windows' \in Seq(Ids) /\ Increasing(windows')
      /\ Elements(windows') = Elements(windows) \cap older
  <2> HIDE DEF older
  <2> QED BY <1>1, <1>2, <1>3, FilterQueue
<1>6. /\ Elements(issuePort') \subseteq Elements(issuePort)
      /\ Elements(windows') \subseteq Elements(windows)
      /\ \A i \in Elements(windows') \cup Elements(issuePort') : i < squashSN
      /\ Waiting' \subseteq Waiting
  BY <1>4, <1>5, <1>e DEF Waiting
<1> USE <1>u, <1>t, <1>e
<1>7. TypeOK'
  <2>1. \A q \in {fetchPort', decodePort', windows', issuePort', LQ', SQ'} : q \in Seq(Ids')
    BY <1>3, <1>4, <1>5, QueueTypes
  <2>2. \A q \in {fetchPort', decodePort', issuePort'} : Len(q) <= PortLen
    BY <1>3, <1>4, Sizes
  <2> QED BY <1>1, <1>3, <2>1, <2>2 DEF TypeOK
<1>8. InOrder' /\ TraceOrder'
  BY <1>4, <1>5 DEF IInv, InOrder, TraceOrder
<1>9. Fetching' /\ MovesOn'
  BY DEF IInv, Fetching, MovesOn, Fresh, allFetched
<1>10. WindowOrder'
  BY <1>1 DEF IInv, WindowOrder, FlushedIn
<1>11. Stages' /\ Counting'
  BY <1>6 DEF IInv, Stages, Lifecycle, Counting
<1>12. LSQ'
  BY <1>6 DEF IInv, LSQ
<1>13. Squashing'
  BY <1>1 DEF IInv, Squashing, Culprit, squashBB
<1>14. Flushing'
  BY <1>1, <1>6 DEF IInv, Flushing, FlushedIn
<1>15. Permits'
  BY DEF IInv, Permits
<1> QED BY <1>7, <1>8, <1>9, <1>10, <1>11, <1>12, <1>13, <1>14, <1>15 DEF IInv

(* The blocks of a queue of block heads. *)
LEMMA HeadBlocks ==
  ASSUME TypeOK, NEW heads \in Seq(Ids), Increasing(heads), Elements(heads) \subseteq HeadIds
  PROVE  LET q == [n \in 1 .. Len(heads) |-> BB(heads[n])]
         IN /\ q \in Seq(Blocks) /\ Len(q) = Len(heads) /\ Increasing(q)
            /\ \A b : b \in Elements(q) <=> \E h \in Elements(heads) : BB(h) = b
<1> DEFINE q == [n \in 1 .. Len(heads) |-> BB(heads[n])]
<1>1. /\ Len(heads) \in Nat
      /\ \A n \in 1 .. Len(heads) : heads[n] \in Elements(heads) /\ heads[n] \in Ids
  BY ElementsIn
<1>2. \A i \in Ids : BB(i) \in Blocks
  BY Numbers
<1>3. /\ q \in Seq(Blocks) /\ Len(q) = Len(heads)
      /\ \A n \in 1 .. Len(heads) : q[n] = BB(heads[n])
  BY <1>1, <1>2
<1> HIDE DEF q
<1>4. Increasing(q)
  <2> SUFFICES ASSUME NEW m \in 1 .. Len(heads), NEW n \in 1 .. Len(heads), m < n
               PROVE  BB(heads[m]) < BB(heads[n])
    BY <1>3 DEF Increasing
  <2> DEFINE i == heads[m]
             j == heads[n]
  <2>1. i < j /\ i \in Ids /\ j \in Ids /\ i \in HeadIds /\ j \in HeadIds
    BY <1>1 DEF Increasing
  <2> HIDE DEF i, j
  <2>2. BBheadID(BB(i)) = i /\ BBheadID(BB(j)) = j
    BY <2>1 DEF HeadIds
  <2>3. BB(i) < BB(j)
    BY <2>1, <2>2, BlockOrder
  <2> QED BY <2>3 DEF i, j
<1>5. \A b : b \in Elements(q) <=> \E h \in Elements(heads) : BB(h) = b
  <2>1. Elements(q) = {q[n] : n \in 1 .. Len(heads)}
    BY <1>3 DEF Elements
  <2>2. Elements(heads) = {heads[n] : n \in 1 .. Len(heads)}
    BY DEF Elements
  <2> QED BY <2>1, <2>2, <1>3
<1> QED BY <1>3, <1>4, <1>5 DEF q

(* What is dispatched brings its blocks into bbROB. *)
LEMMA RobGrows ==
  ASSUME IInv, turn = "SCHEDULE", NEW k \in 0 .. Len(decodePort), canDispatch(k)
  PROVE  LET new == Take(decodePort, k)
             rob == updateBBROB(new)
         IN /\ rob \in Seq(Blocks) /\ Increasing(rob) /\ Len(rob) <= RobSize
            /\ \A b : b \in Elements(rob) <=>
                        b \in InROB \/ \E i \in Elements(new) : BB(i) = b
<1> DEFINE new == Take(decodePort, k)
           N == Elements(new)
           heads == Filter(new, HeadIds)
           B == [n \in 1 .. Len(heads) |-> BB(heads[n])]
<1>1. /\ TypeOK /\ Ids \in SUBSET Nat /\ Blocks \in SUBSET Nat
      /\ \A i \in Ids : BB(i) \in Blocks
  BY Numbers DEF IInv
<1>2. /\ decodePort \in Seq(Ids) /\ Increasing(decodePort)
      /\ bbROB \in Seq(Blocks) /\ Increasing(bbROB)
  BY <1>1, QueueTypes DEF IInv, InOrder
<1>3. /\ new \in Seq(Ids) /\ Increasing(new) /\ N \subseteq Elements(decodePort)
      /\ DownClosed(N, Elements(decodePort)) /\ N \subseteq Ids
  <2>1. new \in Seq(Ids)
    BY <1>2, TakeDrop
  <2>2. N \subseteq Elements(decodePort)
    BY <1>2, TakeDropElements
  <2>3. Increasing(new) /\ DownClosed(N, Elements(decodePort))
    BY <1>1, <1>2, IncreasingTakeDrop
  <2> QED BY <2>1, <2>2, <2>3, ElementsIn
<1>4. updateBBROB(new) = bbROB \o B
  BY DEF updateBBROB
<1>5. \A b : b \in {BB(i) : i \in N} \ Elements(bbROB) <=>
               b \notin InROB /\ \E i \in N : BB(i) = b
  BY DEF InROB
<1>6. Len(bbROB) + Cardinality({BB(i) : i \in N} \ Elements(bbROB)) <= RobSize
  BY DEF canDispatch
<1> HIDE DEF new
<1>7. heads \in Seq(Ids) /\ Increasing(heads) /\ Elements(heads) = N \cap HeadIds
  BY <1>1, <1>3, FilterQueue
<1> HIDE DEF heads
<1>8. /\ B \in Seq(Blocks) /\ Increasing(B)
      /\ \A b : b \in Elements(B) <=> \E h \in N \cap HeadIds : BB(h) = b
  <2>1. Elements(heads) \subseteq HeadIds
    BY <1>7
  <2> QED BY <1>1, <1>7, <2>1, HeadBlocks
<1> HIDE DEF B
<1>9. /\ Before(Dispatched, Elements(decodePort))
      /\ Before(Elements(decodePort), Elements(fetchPort))
      /\ InROB = {BB(i) : i \in Dispatched} /\ Window \subseteq FetchedIns
      /\ DownClosed(Window, FetchedIns) /\ Dispatched \subseteq Ids
  BY Flight DEF IInv, WindowOrder, Before
<1>10. Before(InROB, Elements(B))
  <2> SUFFICES ASSUME NEW d \in Dispatched, NEW h \in N \cap HeadIds
               PROVE  BB(d) < BB(h)
    BY <1>8, <1>9 DEF Before
  <2>1. d \in Ids /\ h \in Ids /\ BBheadID(BB(h)) = h /\ d < h
    BY <1>3, <1>9 DEF Before, HeadIds
  <2> QED BY <1>1, <2>1, BlockOrder
<1>11. \A b : b \in Elements(B) <=> b \notin InROB /\ \E i \in N : BB(i) = b
  <2>1. ASSUME NEW b \in Elements(B) PROVE b \notin InROB
    <3>1. b \in InROB => b < b
      BY <1>10 DEF Before
    <3>2. b \in Nat
      BY <1>1, <1>8, ElementsIn
    <3> QED BY <3>1, <3>2
  <2>2. ASSUME NEW i \in N, BB(i) \notin InROB PROVE BB(i) \in Elements(B)
    <3> DEFINE h == BBheadID(BB(i))
    <3>1. h \in Ids /\ BB(h) = BB(i) /\ h <= i /\ i \in Ids /\ h \in Nat /\ i \in Nat
      BY <1>1, <1>3, BlockOrder
    <3>2. h \in HeadIds
      BY <3>1 DEF HeadIds
    <3> HIDE DEF h
    <3>3. i \in FetchedIns /\ i \in Window /\ i \in Elements(decodePort)
      BY <1>3, <1>9 DEF Window
    <3>4. h \in FetchedIns
      BY <3>1, <3>3 DEF FetchedIns
    <3>5. h \in Window
      <4>1. h < i \/ h = i
        BY <3>1
      <4> QED BY <4>1, <3>3, <3>4, <1>9 DEF DownClosed
    <3>6. h \notin Dispatched
      BY <2>2, <3>1, <1>9
    <3>7. h \notin Elements(fetchPort)
      <4>1. h \in Elements(fetchPort) => i < h
        BY <3>3, <1>9 DEF Before
      <4> QED BY <4>1, <3>1
    <3>8. h \in Elements(decodePort)
      BY <3>5, <3>6, <3>7 DEF Window
    <3>9. h \in N
      <4>1. h < i \/ h = i
        BY <3>1
      <4> QED BY <4>1, <3>8, <1>3 DEF DownClosed
    <3> QED BY <3>1, <3>2, <3>9, <1>8
  <2> QED BY <2>1, <2>2, <1>8
<1>12. Len(B) = Cardinality({BB(i) : i \in N} \ Elements(bbROB)) /\ Len(B) \in Nat
  <2>1. Elements(B) = {BB(i) : i \in N} \ Elements(bbROB)
    BY <1>5, <1>11
  <2>2. Distinct(B)
    BY <1>1, <1>8, IncreasingDistinct
  <2>3. Cardinality(Elements(B)) = Len(B)
    BY <1>8, <2>2, CountElements
  <2> QED BY <2>1, <2>3, <1>8, ElementsIn
<1> HIDE DEF N
<1>13. /\ bbROB \o B \in Seq(Blocks) /\ Len(bbROB \o B) = Len(bbROB) + Len(B)
       /\ Elements(bbROB \o B) = Elements(bbROB) \cup Elements(B)
  BY <1>2, <1>8, Concat, ZenonT(60)
<1>14. Increasing(bbROB \o B)
  BY <1>2, <1>8, <1>10, Concat DEF InROB
<1>15. Len(bbROB \o B) <= RobSize
  BY <1>6, <1>12, <1>13 DEF N
<1>16. \A b : b \in Elements(bbROB \o B) <=> b \in InROB \/ \E i \in N : BB(i) = b
  BY <1>11, <1>13 DEF InROB
<1> QED BY <1>4, <1>13, <1>14, <1>15, <1>16 DEF N, new

(* The state of an instruction that is dispatched or issued. *)
DispatchState(r, s, l, o) == [r EXCEPT !.stage = s, !.lsq = l, !.overtook = o]

LEMMA DispatchedState ==
  ASSUME NEW r \in InsState, NEW s \in Stage, NEW l \in LsqState, NEW o \in BOOLEAN
  PROVE  LET t == DispatchState(r, s, l, o)
         IN /\ t \in InsState /\ t.stage = s /\ t.lsq = l /\ t.overtook = o
            /\ t.memViolation = r.memViolation /\ t.cacheAxes = r.cacheAxes
BY DEF InsState, DispatchState

LEMMA ScheduleNormal ==
  ASSUME IInv, doSCHEDULER, pipe \notin {"WAIT_FLUSH", "FLUSH"}
  PROVE  IInv'
<1> USE DEF frontVars, squashVars, history
<1>u. UNCHANGED <<program, supplied, bbCache, currentBB, pipe, squashSN, squashType,
                  badInsID, blk, retired, deleted, bbQUE, fetchPort, EU>>
  BY DEF doSCHEDULER
<1>t. /\ Ids' = Ids /\ Blocks' = Blocks /\ LoadIds' = LoadIds /\ StoreIds' = StoreIds
      /\ HeadIds' = HeadIds /\ LastBlock' = LastBlock
      /\ \A i : Op(i)' = Op(i) /\ BB(i)' = BB(i) /\ WrongPath(i)' = WrongPath(i)
      /\ \A b : /\ BlockIns(b)' = BlockIns(b) /\ BBsize(b)' = BBsize(b)
                /\ BBheadID(b)' = BBheadID(b) /\ isOnWrongPath(b)' = isOnWrongPath(b)
  BY <1>u, ProgramStays
<1>3. TypeOK /\ Ids \in SUBSET Nat /\ LoadIds \subseteq Ids /\ StoreIds \subseteq Ids
      /\ \A i \in Ids : Op(i) \in {"ALU", "LOAD", "STORE"} /\ BB(i) \in Blocks
  BY Numbers DEF IInv
<1>1. turn = "SCHEDULE" /\ turn' = "DECODE"
  BY DEF doSCHEDULER
<1>2. PICK k \in 0 .. Min({Width, Len(decodePort)}) :
        \E issued \in SUBSET Elements(windows \o Take(decodePort, k)) :
          schedulerImpl(k, issued)
  BY DEF doSCHEDULER
<1>2a. PICK I \in SUBSET Elements(windows \o Take(decodePort, k)) : schedulerImpl(k, I)
  BY <1>2
<1> DEFINE new == Take(decodePort, k)
           N == Elements(new)
           win == windows \o new
           st(i) == IF i \in I THEN "ISSUE" ELSE "DISPATCH"
           ls(i) == IF Op(i) = "ALU" THEN "NO_STATE" ELSE "ADDR_WAIT"
           ov(i) == /\ i \in I \cap LoadIds
                    /\ \E s \in Elements(win) \ I : s \in StoreIds /\ s < i /\ BB(s) = BB(i)
<1>4. /\ canDispatch(k) /\ I \subseteq Elements(win)
      /\ \A i \in I : runaheadPermit(i, Elements(win) \ I)
      /\ Len(issuePort) + Cardinality(I) <= PortLen
      /\ Len(LQ) + Cardinality(N \cap LoadIds) <= LQSize
      /\ Len(SQ) + Cardinality(N \cap StoreIds) <= SQSize
      /\ decodePort' = Drop(decodePort, k) /\ bbROB' = updateBBROB(new)
      /\ LQ' = LQ \o Filter(new, LoadIds) /\ SQ' = SQ \o Filter(new, StoreIds)
      /\ windows' = Filter(win, Ids \ I) /\ issuePort' = issuePort \o Filter(win, I)
      /\ ins' = Replace(ins, [i \in N \cup I |-> DispatchState(ins[i], st(i), ls(i), ov(i))])
  BY <1>2a, Zenon DEF schedulerImpl, canDispatch, Without, DispatchState
<1> HIDE DEF st, ls, ov
<1>5. /\ decodePort \in Seq(Ids) /\ Increasing(decodePort)
      /\ windows \in Seq(Ids) /\ Increasing(windows)
      /\ issuePort \in Seq(Ids) /\ Distinct(issuePort)
      /\ LQ \in Seq(Ids) /\ Increasing(LQ) /\ SQ \in Seq(Ids) /\ Increasing(SQ)
      /\ k \in 0 .. Len(decodePort)
  <2>1. Width \in Nat /\ Len(decodePort) \in Nat
    BY <1>3, Sizes, QueueTypes, ElementsIn
  <2>2. Min({Width, Len(decodePort)}) = IF Width <= Len(decodePort) THEN Width ELSE Len(decodePort)
    BY <2>1, MinOfTwo
  <2>3. k \in 0 .. Len(decodePort)
    BY <1>2, <2>1, <2>2
  <2> QED BY <1>3, <2>3, QueueTypes DEF IInv, InOrder
<1>6. /\ new \in Seq(Ids) /\ Len(new) = k /\ Increasing(new)
      /\ Drop(decodePort, k) \in Seq(Ids) /\ Len(Drop(decodePort, k)) = Len(decodePort) - k
      /\ Increasing(Drop(decodePort, k))
      /\ Elements(Drop(decodePort, k)) = Elements(decodePort) \ N
      /\ DownClosed(N, Elements(decodePort)) /\ Before(N, Elements(Drop(decodePort, k)))
      /\ N \subseteq Elements(decodePort)
  <2>1. new \in Seq(Ids) /\ Len(new) = k /\ Drop(decodePort, k) \in Seq(Ids)
        /\ Len(Drop(decodePort, k)) = Len(decodePort) - k
    BY <1>5, TakeDrop
  <2>2. Elements(decodePort) = N \cup Elements(Drop(decodePort, k))
    BY <1>5, TakeDropElements
  <2> QED BY <1>3, <1>5, <2>1, <2>2, IncreasingTakeDrop
<1>10. /\ bbROB' \in Seq(Blocks) /\ Increasing(bbROB') /\ Len(bbROB') <= RobSize
       /\ \A b : b \in InROB' <=> b \in InROB \/ \E i \in N : BB(i) = b
  <2>1. bbROB' = updateBBROB(new)
    BY <1>4
  <2> QED BY <2>1, <1>1, <1>4, <1>5, RobGrows DEF InROB
<1> HIDE DEF new
<1>7. /\ Dispatched \subseteq FetchedIns /\ Elements(windows) \subseteq Dispatched
      /\ Elements(issuePort) \subseteq Dispatched /\ Units \subseteq Dispatched
      /\ N \subseteq FetchedIns /\ FetchedIns \subseteq Ids
      /\ Elements(LQ) \subseteq Dispatched /\ Elements(decodePort) \subseteq FetchedIns
      /\ Elements(SQ) \subseteq Ids /\ Elements(retired) \subseteq Blocks
      /\ Fetched \subseteq Blocks
      /\ \A i \in FetchedIns : BB(i) \in Fetched
  BY <1>3, <1>6, Flight, ElementTypes DEF Waiting, IInv, LSQ, WindowOrder, Window, FetchedIns
<1>8. /\ \A i \in N : ins[i].stage = "DECODE" /\ i \notin Dispatched
      /\ \A i \in Elements(windows) : ins[i].stage = "DISPATCH"
      /\ \A i \in Elements(issuePort) : ins[i].stage = "ISSUE"
      /\ \A i \in Elements(fetchPort) : ins[i].stage = "FETCH"
      /\ \A i \in Elements(decodePort) : ins[i].stage = "DECODE"
      /\ \A i \in Units : ins[i].stage = "EXECUTE"
      /\ Before(Dispatched, Elements(decodePort)) /\ Before(Dispatched, N)
  <2>1. \A i \in Elements(decodePort) : ins[i].stage = "DECODE"
    BY DEF IInv, Stages
  <2> QED BY <2>1, <1>6 DEF IInv, Stages, WindowOrder, Dispatched, Before
<1>9. /\ Before(Elements(windows), N) /\ Before(Elements(LQ), N) /\ Before(Elements(SQ), N)
  <2>1. ASSUME NEW i \in Elements(SQ), i \notin Dispatched, NEW j \in N PROVE i < j
    <3>1. BB(i) \in Elements(retired) /\ BB(j) \in Traced /\ i \in Ids /\ j \in Ids
      BY <2>1, <1>7 DEF IInv, LSQ, Traced
    <3>2. BB(i) < BB(j)
      BY <3>1 DEF IInv, TraceOrder, Before
    <3> QED BY <3>1, <3>2, <1>3, BlockOrder
  <2> QED BY <2>1, <1>7, <1>8 DEF Before
<1>11. /\ decodePort' \in Seq(Ids) /\ Increasing(decodePort') /\ Len(decodePort') <= PortLen
       /\ Elements(decodePort') = Elements(decodePort) \ N
  <2>1. Len(decodePort) <= PortLen /\ PortLen \in Nat /\ Len(decodePort) \in Nat
    BY <1>3, <1>5, Sizes
  <2> QED BY <1>4, <1>5, <1>6, <2>1
<1>12. /\ win \in Seq(Ids) /\ Increasing(win) /\ Elements(win) = Elements(windows) \cup N
  <2>1. /\ windows \o new \in Seq(Ids)
        /\ Elements(windows \o new) = Elements(windows) \cup Elements(new)
    <3>1. windows \in Seq(Ids) /\ new \in Seq(Ids)
      BY <1>5, <1>6
    <3> QED BY <3>1, Concat
  <2>2. Increasing(windows \o new)
    BY <1>5, <1>6, <1>9, Concat
  <2> QED BY <2>1, <2>2
<1> HIDE DEF win
<1>13. /\ I \subseteq Elements(windows) \cup N /\ I \subseteq Ids
       /\ I \cap Elements(issuePort) = {}
  <2>1. I \subseteq Elements(windows) \cup N
    BY <1>4, <1>12
  <2> QED BY <2>1, <1>7, <1>8
<1>15. /\ windows' \in Seq(Ids) /\ Increasing(windows')
       /\ Elements(windows') = (Elements(windows) \cup N) \ I
  <2> DEFINE R == Ids \ I
  <2>1. Elements(win) \cap R = (Elements(windows) \cup N) \ I
    BY <1>7, <1>12
  <2>2. windows' = Filter(win, R)
    BY <1>4
  <2> HIDE DEF R
  <2>3. /\ Filter(win, R) \in Seq(Ids) /\ Increasing(Filter(win, R))
        /\ Elements(Filter(win, R)) = Elements(win) \cap R
    BY <1>3, <1>12, FilterQueue
  <2> QED BY <2>1, <2>2, <2>3
<1>16. /\ issuePort' \in Seq(Ids) /\ Distinct(issuePort') /\ Len(issuePort') <= PortLen
       /\ Elements(issuePort') = Elements(issuePort) \cup I
  <2> DEFINE f == Filter(win, I)
  <2>1. f \in Seq(Ids) /\ Elements(f) = Elements(win) \cap I /\ Increasing(f)
    BY <1>3, <1>12, FilterQueue
  <2>2. Len(f) = Cardinality(Elements(win) \cap I)
    BY <1>3, <1>12, FilterCount
  <2>3. Elements(win) \cap I = I
    BY <1>12, <1>13
  <2>4. issuePort' = issuePort \o f
    BY <1>4
  <2> HIDE DEF f
  <2>5. Elements(f) = I /\ Len(f) = Cardinality(I) /\ Distinct(f)
    BY <2>1, <2>2, <2>3, <1>3, IncreasingDistinct
  <2>6. /\ issuePort \o f \in Seq(Ids) /\ Len(issuePort \o f) = Len(issuePort) + Len(f)
        /\ Elements(issuePort \o f) = Elements(issuePort) \cup Elements(f)
    BY <1>5, <2>1, Concat, ZenonT(60)
  <2>7. Distinct(issuePort \o f)
    <3>1. Elements(issuePort) \cap Elements(f) = {}
      BY <2>5, <1>13
    <3> QED BY <1>5, <2>1, <2>5, <3>1, Concat
  <2> QED BY <2>4, <2>5, <2>6, <2>7, <1>4
<1>17. ASSUME NEW q \in Seq(Ids), Increasing(q), Before(Elements(q), N), NEW S
       PROVE  LET f == Filter(new, S) IN
              /\ q \o f \in Seq(Ids) /\ Increasing(q \o f)
              /\ Elements(q \o f) = Elements(q) \cup (N \cap S)
              /\ Len(q \o f) = Len(q) + Cardinality(N \cap S)
  <2> DEFINE f == Filter(new, S)
  <2>1. f \in Seq(Ids) /\ Elements(f) = N \cap S
    BY <1>6, FilterElements
  <2>2. Increasing(f) /\ Len(f) = Cardinality(N \cap S)
    BY <1>3, <1>6, FilterIncreasing, FilterCount
  <2> HIDE DEF f
  <2>3. Before(Elements(q), Elements(f))
    BY <1>17, <2>1 DEF Before
  <2>4. q \o f \in Seq(Ids) /\ Elements(q \o f) = Elements(q) \cup Elements(f)
        /\ Len(q \o f) = Len(q) + Len(f)
    BY <2>1, Concat
  <2>5. Increasing(q \o f)
    BY <1>17, <2>1, <2>2, <2>3, Concat
  <2> QED BY <2>1, <2>2, <2>4, <2>5 DEF f
<1> HIDE DEF N
<1>18. /\ LQ' \in Seq(Ids) /\ Increasing(LQ') /\ Len(LQ') <= LQSize
       /\ Elements(LQ') = Elements(LQ) \cup (N \cap LoadIds)
       /\ SQ' \in Seq(Ids) /\ Increasing(SQ') /\ Len(SQ') <= SQSize
       /\ Elements(SQ') = Elements(SQ) \cup (N \cap StoreIds)
  <2> DEFINE l == Filter(new, LoadIds)
             s == Filter(new, StoreIds)
  <2>1. /\ LQ \o l \in Seq(Ids) /\ Increasing(LQ \o l)
        /\ Elements(LQ \o l) = Elements(LQ) \cup (N \cap LoadIds)
        /\ Len(LQ \o l) = Len(LQ) + Cardinality(N \cap LoadIds)
    BY <1>5, <1>9, <1>17
  <2>2. /\ SQ \o s \in Seq(Ids) /\ Increasing(SQ \o s)
        /\ Elements(SQ \o s) = Elements(SQ) \cup (N \cap StoreIds)
        /\ Len(SQ \o s) = Len(SQ) + Cardinality(N \cap StoreIds)
    BY <1>5, <1>9, <1>17
  <2> HIDE DEF l, s
  <2>3. LQ' = LQ \o l /\ SQ' = SQ \o s
    BY <1>4 DEF l, s
  <2>4. Len(LQ') <= LQSize /\ Len(SQ') <= SQSize
    BY <1>4, <2>1, <2>2, <2>3
  <2> QED BY <2>1, <2>2, <2>3, <2>4
<1> DEFINE D == N \cup I
<1>19. D \subseteq Ids /\ D \subseteq Elements(windows) \cup N /\ N \subseteq D /\ I \subseteq D
  BY <1>7, <1>13
<1>20. /\ ins' \in [Ids -> InsState]
       /\ \A i \in D : /\ ins'[i].stage = st(i) /\ ins'[i].lsq = ls(i)
                       /\ ins'[i].overtook = ov(i)
       /\ \A i \in Ids : /\ ins'[i].memViolation = ins[i].memViolation
                         /\ ins'[i].cacheAxes = ins[i].cacheAxes
       /\ \A i \in Ids \ D : ins'[i] = ins[i]
  <2>1. ins \in [Ids -> InsState]
    BY <1>3, Tables
  <2> DEFINE d(i) == DispatchState(ins[i], st(i), ls(i), ov(i))
  <2>2. \A i \in Ids : st(i) \in Stage /\ ls(i) \in LsqState /\ ov(i) \in BOOLEAN
    BY DEF st, ls, ov, Stage, LsqState
  <2>3. \A i \in Ids : /\ d(i) \in InsState /\ d(i).stage = st(i) /\ d(i).lsq = ls(i)
                       /\ d(i).overtook = ov(i)
                       /\ d(i).memViolation = ins[i].memViolation
                       /\ d(i).cacheAxes = ins[i].cacheAxes
    <3> TAKE i \in Ids
    <3>1. ins[i] \in InsState
      BY <2>1
    <3> QED BY <3>1, <2>2, DispatchedState
  <2>4. ins' = [i \in Ids |-> IF i \in D THEN d(i) ELSE ins[i]]
    <3> HIDE DEF d
    <3>1. ins' = Replace(ins, [i \in D |-> d(i)])
      BY <1>4 DEF d
    <3> QED BY <3>1, <2>1, <1>19 DEF Replace
  <2> HIDE DEF d, D
  <2> QED BY <2>1, <2>3, <2>4, <1>19
<1>21. \A i \in D : /\ ins[i].stage \in {"DECODE", "DISPATCH"}
                    /\ ins'[i].stage \in {"DISPATCH", "ISSUE"}
                    /\ ~ins[i].memViolation
  <2> TAKE i \in D
  <2>1. ins'[i].stage \in {"DISPATCH", "ISSUE"}
    BY <1>20 DEF st
  <2>2. CASE i \in N
    BY <2>1, <2>2, <1>7, <1>8 DEF IInv, Stages
  <2>3. CASE i \in Elements(windows)
    <3>1. i \in Dispatched /\ ins[i].stage = "DISPATCH" /\ i \in Ids
      BY <2>3, <1>7, <1>8
    <3>2. Lifecycle(i) /\ (ins[i].memViolation => i \in LoadIds /\ ins[i].lsq = "COMPLETE")
      BY <3>1 DEF IInv, Stages
    <3> QED BY <2>1, <3>1, <3>2 DEF Lifecycle, LoadIds
  <2> QED BY <2>2, <2>3, <1>19
<1>s. /\ Fetched' = Fetched /\ FetchedIns' = FetchedIns /\ Popped' = Popped
      /\ Traced' = Traced /\ Units' = Units
  <2>1. Fetched' = Fetched /\ FetchedIns' = FetchedIns
    BY <1>u, <1>t DEF Fetched, FetchedIns
  <2>2. \A i \in FetchedIns : ins'[i].stage = "NO_STAGE" <=> ins[i].stage = "NO_STAGE"
    BY <1>7, <1>20, <1>21
  <2> QED BY <1>u, <2>1, <2>2 DEF Popped, Traced, Units
<1>22. Dispatched' = Dispatched \cup N
  <2>1. \A i \in FetchedIns : i \in Dispatched' <=> ins'[i].stage \notin FrontStage
    BY <1>s DEF Dispatched, Popped, FrontStage
  <2>2. \A i \in FetchedIns : i \in Dispatched <=> ins[i].stage \notin FrontStage
    BY DEF Dispatched, Popped, FrontStage
  <2>3. \A i \in D : ins'[i].stage \notin FrontStage /\ (i \in N \/ i \in Dispatched)
    BY <1>7, <1>19, <1>21 DEF FrontStage
  <2>4. \A i \in Ids \ D : ins'[i] = ins[i]
    BY <1>20
  <2>5. Dispatched' \subseteq FetchedIns
    BY <1>s DEF Dispatched, Popped
  <2> QED BY <2>1, <2>2, <2>3, <2>4, <2>5, <1>7, <1>19
<1>23. Window' = Window /\ Waiting' = Waiting \cup N
  BY <1>6, <1>11, <1>22, <1>u, <1>15, <1>16, <1>13, <1>s DEF Window, Waiting
<1>24. N # {} => pipe = "NORMAL"
  <2> SUFFICES ASSUME pipe # "NORMAL" PROVE N = {}
    OBVIOUS
  <2>1. decodePort = << >>
    BY <1>3 DEF IInv, WindowOrder, FlushedIn, TypeOK
  <2>2. Elements(decodePort) = {}
    BY <2>1, EmptyQueue
  <2> QED BY <2>2, <1>6, <1>11
<1>25. decodePort = << >> => decodePort' = << >>
  <2> SUFFICES ASSUME decodePort = << >> PROVE decodePort' = << >>
    OBVIOUS
  <2>2. Elements(decodePort) = {}
    BY EmptyQueue
  <2> QED BY <2>2, <1>11, ElementsIn
<1>26. \A i \in Ids \ D : ins'[i] = ins[i]
  BY <1>20
<1>27. \A i \in Ids : ins'[i].stage = "COMPLETE" <=> ins[i].stage = "COMPLETE"
  <2> TAKE i \in Ids
  <2>1. CASE i \in D
    BY <2>1, <1>21
  <2>2. CASE i \notin D
    BY <2>2, <1>26
  <2> QED BY <2>1, <2>2
<1>28. \A b \in Blocks : Completed(b)' = Completed(b)
  BY <1>27, <1>t DEF Completed, BlockIns
<1>29. \A i \in Dispatched' :
         /\ i \in Ids
         /\ Detected(i)' => i \in Dispatched /\ i \notin D /\ ins'[i] = ins[i] /\ Detected(i)
  <2> TAKE i \in Dispatched'
  <2>1. i \in Ids /\ (i \notin D => i \in Dispatched)
    BY <1>7, <1>19, <1>22
  <2>2. CASE i \in D
    BY <2>1, <2>2, <1>20, <1>21, <1>t DEF Detected
  <2>3. CASE i \notin D
    BY <2>1, <2>3, <1>26, <1>t DEF Detected
  <2> QED BY <2>2, <2>3
<1> HIDE DEF D
<1> USE <1>u, <1>t, <1>s
<1>30. TypeOK'
  <2>1. ins' \in [Ids' -> [stage : Stage, lsq : LsqState, memViolation : BOOLEAN,
                           cacheAxes : BOOLEAN, overtook : BOOLEAN]]
    BY <1>20 DEF InsState
  <2>2. \A q \in {bbCache', bbQUE', bbROB', retired'} : q \in Seq(Blocks')
    BY <1>3, <1>10, QueueTypes
  <2>3. \A q \in {fetchPort', decodePort', windows', issuePort', LQ', SQ'} : q \in Seq(Ids')
    BY <1>3, <1>11, <1>15, <1>16, <1>18, QueueTypes
  <2>4. \A q \in {fetchPort', decodePort', issuePort'} : Len(q) <= PortLen
    BY <1>11, <1>16, <1>3, Sizes
  <2>5. Len(bbROB') <= RobSize /\ Len(LQ') <= LQSize /\ Len(SQ') <= SQSize
    BY <1>10, <1>18
  <2> QED BY <1>1, <1>3, <2>1, <2>2, <2>3, <2>4, <2>5 DEF TypeOK
<1>31. InOrder' /\ TraceOrder'
  BY <1>10, <1>11, <1>15, <1>16, <1>18 DEF IInv, InOrder, TraceOrder
<1>32. Fetching'
  <2>1. \A i \in Ids : BB(i) \notin Fetched \cup Elements(retired) => ins'[i] = ins[i]
    <3>1. \A i \in Ids : BB(i) \notin Fetched => i \notin D
      BY <1>7, <1>19
    <3> QED BY <3>1, <1>26
  <2>2. \A b \in Blocks' : b \in Elements(bbCache') \/ b > supplied' => Fresh(b)'
    BY <2>1, FreshStays
  <2>3. \A i \in FetchedIns : ins'[i].stage = "NO_STAGE" <=> ins[i].stage = "NO_STAGE"
    <3> TAKE i \in FetchedIns
    <3>1. i \in Ids
      BY <1>7
    <3>2. CASE i \in D
      BY <3>2, <1>21
    <3>3. CASE i \notin D
      BY <3>1, <3>3, <1>26
    <3> QED BY <3>2, <3>3
  <2> QED BY <2>2, <2>3 DEF IInv, Fetching, allFetched
<1>33. MovesOn'
  <2>1. \A i \in Ids : ins'[i].stage = "NO_STAGE" <=> ins[i].stage = "NO_STAGE"
    <3> TAKE i \in Ids
    <3>2. CASE i \in D
      BY <3>2, <1>21
    <3>3. CASE i \notin D
      BY <3>3, <1>26
    <3> QED BY <3>2, <3>3
  <2>2. (takeable' = takeable) /\ (frontendRunning' = frontendRunning)
    BY DEF takeable, frontendRunning
  <2>3. \A b : BlockIns(b) \subseteq Ids
    BY DEF BlockIns
  <2> SUFFICES ASSUME pipe = "NORMAL", currentBB # NoBB, NEW i \in BlockIns(currentBB),
                      ins'[i].stage # "NO_STAGE", \A j \in BlockIns(currentBB) : j <= i
               PROVE  \/ i \in Elements(fetchPort)
                      \/ ~frontendRunning \/ takeable > 0
    BY <1>1, <2>2 DEF MovesOn
  <2> QED BY <2>1, <2>3, <1>1 DEF IInv, MovesOn
<1>34. WindowOrder'
  <2>1. Before(Dispatched', Elements(decodePort') \cup Elements(fetchPort'))
    <3>1. Before(N, Elements(decodePort'))
      BY <1>4, <1>6
    <3>2. Before(N, Elements(fetchPort))
      BY <1>6 DEF IInv, WindowOrder, Before
    <3> QED BY <3>1, <3>2, <1>11, <1>22 DEF IInv, WindowOrder, Before
  <2>2. Before(Elements(decodePort'), Elements(fetchPort'))
    BY <1>11 DEF IInv, WindowOrder, Before
  <2>3. InROB' = {BB(i)' : i \in Dispatched'}
    <3>1. InROB = {BB(i) : i \in Dispatched}
      BY DEF IInv, WindowOrder
    <3>2. \A b : b \in InROB' <=> \E i \in Dispatched \cup N : BB(i) = b
      BY <3>1, <1>10
    <3> QED BY <3>2, <1>22
  <2>4. DownClosed(Dispatched', FetchedIns')
    <3> SUFFICES ASSUME NEW i \in N, NEW j \in FetchedIns, j < i PROVE j \in Dispatched \cup N
      BY <1>22 DEF IInv, WindowOrder, DownClosed
    <3>1. j \in Window
      <4>1. DownClosed(Window, FetchedIns) /\ i \in Window
        BY <1>1, <1>6 DEF IInv, WindowOrder, Window
      <4> QED BY <4>1, <1>7 DEF DownClosed
    <3>3. CASE j \in Elements(decodePort)
      BY <3>3, <1>6 DEF DownClosed
    <3>4. CASE j \in Elements(fetchPort)
      <4>1. i < j /\ i \in Nat /\ j \in Nat
        BY <3>4, <1>3, <1>6, <1>7 DEF IInv, WindowOrder, Before
      <4> QED BY <4>1
    <3> QED BY <3>1, <3>3, <3>4 DEF Window
  <2>5. pipe' # "FLUSH" /\ DownClosed(Window', FetchedIns')
    BY <1>1, <1>23 DEF IInv, WindowOrder
  <2>6. Window' \subseteq FetchedIns' /\ (pipe' = "NORMAL" => Popped' \subseteq Window')
    BY <1>23 DEF IInv, WindowOrder
  <2>7. /\ FlushedIn({"FETCH", "COMMIT", "MEMORY", "EXECUTE"})' => decodePort' = << >>
        /\ FlushedIn({"COMMIT", "MEMORY", "EXECUTE"})' => fetchPort' = << >>
    BY <1>25 DEF IInv, WindowOrder, FlushedIn
  <2> QED BY <2>1, <2>2, <2>3, <2>4, <2>5, <2>6, <2>7 DEF WindowOrder
<1>35. Stages'
  <2>1. \A i \in Elements(fetchPort') : ins'[i].stage = "FETCH"
    <3> TAKE i \in Elements(fetchPort')
    <3>1. i \in Ids /\ ins[i].stage = "FETCH" /\ i \notin D
      BY <1>3, <1>8, <1>21, ElementTypes
    <3> QED BY <3>1, <1>26
  <2>2. \A i \in Elements(decodePort') : ins'[i].stage = "DECODE"
    <3> TAKE i \in Elements(decodePort')
    <3>1. i \in Ids /\ ins[i].stage = "DECODE" /\ i \notin N
      BY <1>7, <1>8, <1>11
    <3>2. i \notin D
      BY <3>1, <1>8, <1>19
    <3> QED BY <3>1, <3>2, <1>26
  <2>3. \A i \in FetchedIns' \ Dispatched' :
          /\ ins'[i].lsq = "NO_STATE" /\ ~ins'[i].memViolation
          /\ ~ins'[i].cacheAxes /\ ~ins'[i].overtook
    <3> TAKE i \in FetchedIns' \ Dispatched'
    <3>1. i \in Ids /\ i \in FetchedIns \ Dispatched /\ i \notin D
      BY <1>7, <1>19, <1>22
    <3> QED BY <3>1, <1>26 DEF IInv, Stages
  <2>4. \A i \in Elements(windows') : i \in Dispatched' /\ ins'[i].stage = "DISPATCH"
    <3> TAKE i \in Elements(windows')
    <3>1. i \in Elements(windows) \cup N /\ i \notin I
      BY <1>15
    <3>2. CASE i \in N
      BY <3>1, <3>2, <1>19, <1>20, <1>22 DEF st
    <3>3. CASE i \notin N
      <4>1. i \notin D /\ i \in Dispatched /\ i \in Ids /\ ins[i].stage = "DISPATCH"
        BY <3>1, <3>3, <1>7, <1>8 DEF D
      <4> QED BY <4>1, <1>22, <1>26
    <3> QED BY <3>2, <3>3
  <2>5. \A i \in Elements(issuePort') : i \in Dispatched' /\ ins'[i].stage = "ISSUE"
    <3> TAKE i \in Elements(issuePort')
    <3>1. CASE i \in I
      BY <3>1, <1>7, <1>13, <1>19, <1>20, <1>22 DEF st
    <3>2. CASE i \notin I
      <4>1. i \in Dispatched /\ i \in Ids /\ ins[i].stage = "ISSUE"
        BY <3>2, <1>7, <1>8, <1>16
      <4>2. i \notin D
        BY <4>1, <1>21
      <4> QED BY <4>1, <4>2, <1>22, <1>26
    <3> QED BY <3>1, <3>2
  <2>6. \A i \in Units : i \in Dispatched' /\ ins'[i].stage = "EXECUTE"
    <3> TAKE i \in Units
    <3>1. i \in Dispatched /\ i \in Ids /\ ins[i].stage = "EXECUTE"
      BY <1>7, <1>8
    <3>2. i \notin D
      BY <3>1, <1>21
    <3> QED BY <3>1, <3>2, <1>22, <1>26
  <2>7. \A i \in Dispatched' :
          /\ Lifecycle(i)'
          /\ ins'[i].stage = "EXECUTE" => i \in Units
          /\ ins'[i].memViolation =>
              i \in LoadIds /\ ins'[i].lsq = "COMPLETE" /\ blk[BB(i)].memViolation
    <3> TAKE i \in Dispatched'
    <3>1. CASE i \in D
      <4>1. i \in Ids /\ ins'[i].stage \in {"DISPATCH", "ISSUE"}
            /\ ins'[i].lsq = ls(i) /\ ~ins'[i].memViolation
        BY <3>1, <1>19, <1>20, <1>21
      <4> QED BY <4>1 DEF Lifecycle, ls
    <3>2. CASE i \notin D
      <4>1. i \in Dispatched /\ i \in Ids
        BY <3>2, <1>7, <1>19, <1>22
      <4>2. ins'[i] = ins[i]
        BY <3>2, <4>1, <1>26
      <4>3. Lifecycle(i) /\ (ins[i].stage = "EXECUTE" => i \in Units)
            /\ (ins[i].memViolation =>
                 i \in LoadIds /\ ins[i].lsq = "COMPLETE" /\ blk[BB(i)].memViolation)
        BY <4>1 DEF IInv, Stages
      <4> QED BY <4>2, <4>3 DEF Lifecycle
    <3> QED BY <3>1, <3>2
  <2> QED BY <2>1, <2>2, <2>3, <2>4, <2>5, <2>6, <2>7 DEF Stages
<1>36. Counting'
  BY <1>7, <1>28 DEF IInv, Counting
<1>37. LSQ'
  <2>0. /\ Dispatched' \cap LoadIds = (Dispatched \cap LoadIds) \cup (N \cap LoadIds)
        /\ Dispatched' \cap StoreIds = (Dispatched \cap StoreIds) \cup (N \cap StoreIds)
    BY <1>22
  <2>1. Elements(LQ') \subseteq Dispatched' \cap LoadIds /\ Elements(SQ') \subseteq StoreIds
    BY <1>18, <1>22 DEF IInv, LSQ
  <2>2. ASSUME N # {}
        PROVE  /\ Dispatched \cap LoadIds \subseteq Elements(LQ)
               /\ Dispatched \cap StoreIds \subseteq Elements(SQ)
    BY <2>2, <1>24 DEF IInv, LSQ
  <2>3. /\ \A i \in Elements(LQ), j \in N : ~(j < i)
        /\ \A i \in Elements(SQ), j \in N : ~(j < i)
    <3>1. /\ \A i \in Elements(LQ) : i \in Nat
          /\ \A i \in Elements(SQ) : i \in Nat
          /\ \A j \in N : j \in Nat
      BY <1>3, <1>7
    <3> QED BY <3>1, <1>9 DEF Before
  <2>4. DownClosed(Elements(LQ'), Dispatched' \cap LoadIds)
    BY <2>0, <2>2, <2>3, <1>18 DEF IInv, LSQ, DownClosed
  <2>5. DownClosed(Elements(SQ'), Dispatched' \cap StoreIds)
    BY <2>0, <2>2, <2>3, <1>18 DEF IInv, LSQ, DownClosed
  <2>6. \A i \in Elements(SQ') \ Dispatched' :
          /\ BB(i) \in Elements(retired)
          /\ ins'[i].stage = "COMMIT" /\ ins'[i].lsq \in {"COMMIT", "CACHE_DISPATCH"}
    <3> TAKE i \in Elements(SQ') \ Dispatched'
    <3>1. i \in Elements(SQ) \ Dispatched /\ i \in Ids
      BY <1>7, <1>18, <1>22
    <3>2. /\ BB(i) \in Elements(retired)
          /\ ins[i].stage = "COMMIT" /\ ins[i].lsq \in {"COMMIT", "CACHE_DISPATCH"}
      BY <3>1 DEF IInv, LSQ
    <3>3. i \notin D
      BY <3>2, <1>21
    <3> QED BY <3>1, <3>2, <3>3, <1>26
  <2>7. \A i \in Dispatched' : (pipe = "NORMAL" \/ i < squashSN \/ i \in Waiting') =>
         /\ i \in LoadIds => i \in Elements(LQ')
         /\ i \in StoreIds => i \in Elements(SQ')
    <3> TAKE i \in Dispatched'
    <3>1. CASE i \in N
      BY <3>1, <1>18
    <3>2. CASE i \notin N
      <4>1. i \in Dispatched /\ (i \in Waiting' <=> i \in Waiting)
        BY <3>2, <1>22, <1>23
      <4> QED BY <4>1, <1>18 DEF IInv, LSQ
    <3> QED BY <3>1, <3>2
  <2> QED BY <2>1, <2>4, <2>5, <2>6, <2>7 DEF LSQ
<1>38. Squashing'
  <2>1. /\ (pipe \in {"WAIT_FLUSH", "FLUSH", "DRAIN"} => Culprit')
        /\ pipe = "SQUASH_ROB" => bbROB' = << >> /\ bbQUE = << >>
    <3>1. Culprit => Culprit'
      <4> SUFFICES ASSUME Culprit PROVE Culprit'
        OBVIOUS
      <4>1. badInsID \in Dispatched /\ Detected(badInsID) /\ badInsID \in Ids
        BY <1>7 DEF Culprit
      <4>2. badInsID \notin D
        <5>1. Lifecycle(badInsID)
          BY <4>1 DEF IInv, Stages
        <5> QED BY <4>1, <1>21 DEF Detected
      <4>3. ins'[badInsID] = ins[badInsID] /\ badInsID \in Dispatched'
        BY <4>1, <4>2, <1>22, <1>26
      <4> QED BY <4>3 DEF Culprit, Detected
    <3>2. pipe = "SQUASH_ROB" => bbROB' = << >> /\ bbQUE = << >>
      <4> SUFFICES ASSUME pipe = "SQUASH_ROB" PROVE bbROB' = << >> /\ bbQUE = << >>
        OBVIOUS
      <4>1. bbROB = << >> /\ bbQUE = << >>
        BY <1>1 DEF IInv, Squashing
      <4>2. InROB = {}
        BY <4>1, EmptyQueue DEF InROB
      <4>3. InROB' = {}
        BY <4>2, <1>10, <1>24
      <4> QED BY <4>1, <4>3, <1>10, ElementsIn DEF InROB
    <3> QED BY <3>1, <3>2 DEF IInv, Squashing
  <2>2. \A i \in Dispatched' : Detected(i)' =>
         /\ pipe # "NORMAL"
         /\ squashBB <= BB(i) \/ (WrongPath(i) /\ i \in StoreIds)
    BY <1>29 DEF IInv, Squashing
  <2>3. squashBB' = squashBB
    BY DEF squashBB
  <2> QED BY <2>1, <2>2, <2>3, <1>1 DEF IInv, Squashing
<1>39. Flushing'
  <2>1. pipe # "NORMAL" => /\ Elements(windows') \subseteq Elements(windows)
                           /\ Elements(issuePort') \subseteq Elements(issuePort) \cup Elements(windows)
                           /\ Elements(LQ') = Elements(LQ) /\ Elements(SQ') = Elements(SQ)
    BY <1>13, <1>15, <1>16, <1>18, <1>24
  <2> QED BY <2>1 DEF IInv, Flushing, FlushedIn
<1>40. Permits'
  <2>1. \A b : BlockIns(b) \subseteq Ids
    BY DEF BlockIns
  <2> SUFFICES ASSUME NEW b \in Traced, ~blk[b].permit, NEW i \in BlockIns(b)
               PROVE  ~ins'[i].overtook
    BY <2>1, <1>27 DEF IInv, Permits
  <2>2. i \in Ids /\ BB(i) = b
    BY DEF BlockIns
  <2>3. CASE i \in D
    <3>1. ins'[i].overtook = ov(i)
      BY <2>3, <1>20
    <3>2. ~ov(i)
      <4> SUFFICES ASSUME i \in I, NEW s \in Elements(win) \ I, s < i, BB(s) = BB(i)
                   PROVE  FALSE
        BY DEF ov
      <4>1. runaheadPermit(i, Elements(win) \ I)
        BY <1>4
      <4>2. s >= i
        BY <4>1, <2>2 DEF runaheadPermit
      <4>3. s \in Nat /\ i \in Nat
        BY <2>2, <1>3, <1>7, <1>12
      <4> QED BY <4>2, <4>3
    <3> QED BY <3>1, <3>2
  <2>4. CASE i \notin D
    BY <2>2, <2>4, <1>26 DEF IInv, Permits
  <2> QED BY <2>3, <2>4
<1> QED BY <1>30, <1>31, <1>32, <1>33, <1>34, <1>35, <1>36, <1>37, <1>38, <1>39, <1>40
        DEF IInv

LEMMA SchedulerStep ==
  ASSUME IInv, doSCHEDULER
  PROVE  IInv'
<1>1. CASE pipe = "WAIT_FLUSH"
  <2>1. UNCHANGED work
    BY <1>1 DEF doSCHEDULER, work, frontVars, squashVars, history, insVars, queues
  <2>2. turn = "SCHEDULE" /\ turn' = "DECODE"
    BY DEF doSCHEDULER
  <2> QED BY <1>1, <2>1, <2>2, Stalled
<1> QED BY <1>1, ScheduleFlush, ScheduleNormal

-----------------------------------------------------------------------------
(* Commit. *)

(* bbROB is the front of bbQUE. *)
LEMMA RobPrefix ==
  ASSUME IInv
  PROVE  /\ IsPrefixOf(bbROB, bbQUE) /\ Len(bbROB) \in 0 .. Len(bbQUE)
         /\ \A k \in 0 .. Len(bbROB) : Take(bbROB, k) = Take(bbQUE, k)
<1>1. /\ TypeOK /\ Ids \in SUBSET Nat /\ Blocks \in SUBSET Nat
  BY Numbers DEF IInv
<1>2. /\ bbQUE \in Seq(Blocks) /\ Increasing(bbQUE)
      /\ bbROB \in Seq(Blocks) /\ Increasing(bbROB)
  BY <1>1, QueueTypes DEF IInv, InOrder
<1>3. DownClosed(InROB, Fetched)
  <2> SUFFICES ASSUME NEW d \in Dispatched, NEW c \in Fetched, c < BB(d) PROVE c \in InROB
    BY DEF IInv, WindowOrder, DownClosed
  <2> DEFINE h == BBheadID(c)
  <2>1. c \in Blocks /\ d \in Ids /\ d \in FetchedIns
    BY Flight
  <2>2. h \in Ids /\ BB(h) = c
    BY <1>1, <2>1, BlockShape DEF BlockIns
  <2> HIDE DEF h
  <2>3. h < d
    BY <1>1, <2>1, <2>2, BlockOrder
  <2>4. h \in FetchedIns
    BY <2>2 DEF FetchedIns
  <2>5. h \in Dispatched
    BY <2>1, <2>3, <2>4 DEF IInv, WindowOrder, DownClosed
  <2> QED BY <2>2, <2>5 DEF IInv, WindowOrder
<1>4. IsPrefixOf(bbROB, bbQUE)
  <2>1. InROB \subseteq Fetched
    BY Flight
  <2> QED BY <1>1, <1>2, <1>3, <2>1, LeastElementsPrefix DEF InROB, Fetched
<1> QED BY <1>2, <1>4, PrefixTake

CommitState(r) == [r EXCEPT !.stage = "COMMIT", !.lsq = "COMMIT"]

LEMMA CommittedState ==
  ASSUME NEW r \in InsState
  PROVE  LET t == CommitState(r)
         IN t \in InsState /\ t.stage = "COMMIT" /\ t.lsq = "COMMIT"
BY DEF InsState, CommitState, Stage, LsqState

(* A block that commits is complete. *)
LEMMA CommittableComplete ==
  ASSUME IInv, NEW b \in InROB, isCommittable(b)
  PROVE  /\ ~blk[b].memViolation /\ ~isOnWrongPath(b)
         /\ \A i \in BlockIns(b) : /\ i \in Dispatched /\ ins[i].stage = "COMPLETE"
                                   /\ ~WrongPath(i) /\ ~ins[i].memViolation
<1>1. /\ b \in Blocks /\ b \in Fetched /\ TypeOK
  BY Flight DEF IInv
<1>2. /\ ~blk[b].memViolation /\ ~isOnWrongPath(b) /\ blk[b].completed = BBsize(b)
  BY DEF isCommittable, isMemOrBrViolation, isBBcomplete
<1>3. Completed(b) = BlockIns(b)
  <2>1. IsFiniteSet(BlockIns(b)) /\ Completed(b) \subseteq BlockIns(b)
    BY <1>1, BlockShape DEF Completed
  <2>2. Cardinality(Completed(b)) = Cardinality(BlockIns(b))
    BY <1>1, <1>2 DEF IInv, Counting, BBsize
  <2> QED BY <2>1, <2>2, FS_Subset
<1>4. \A i \in BlockIns(b) : ins[i].stage = "COMPLETE" /\ ~WrongPath(i)
  BY <1>2, <1>3 DEF Completed, isOnWrongPath
<1>5. \A i \in BlockIns(b) : i \in Dispatched
  BY <1>1, <1>4 DEF Dispatched, Popped, FetchedIns, BlockIns
<1>6. \A i \in BlockIns(b) : ~ins[i].memViolation
  BY <1>2, <1>5 DEF IInv, Stages, BlockIns
<1> QED BY <1>2, <1>4, <1>5, <1>6

LEMMA CommitNormal ==
  ASSUME IInv, doCOMMIT, pipe \notin {"WAIT_FLUSH", "FLUSH"}
  PROVE  IInv'
<1> USE DEF frontVars, squashVars
<1>u. UNCHANGED <<program, supplied, bbCache, currentBB, pipe, squashSN, squashType,
                  badInsID, blk, deleted, fetchPort, decodePort, windows,
                  issuePort, EU, SQ>>
  BY DEF doCOMMIT
<1>t. /\ Ids' = Ids /\ Blocks' = Blocks /\ LoadIds' = LoadIds /\ StoreIds' = StoreIds
      /\ HeadIds' = HeadIds /\ LastBlock' = LastBlock
      /\ \A i : Op(i)' = Op(i) /\ BB(i)' = BB(i) /\ WrongPath(i)' = WrongPath(i)
      /\ \A b : /\ BlockIns(b)' = BlockIns(b) /\ BBsize(b)' = BBsize(b)
                /\ BBheadID(b)' = BBheadID(b) /\ isOnWrongPath(b)' = isOnWrongPath(b)
  BY <1>u, ProgramStays
<1>3. TypeOK /\ Ids \in SUBSET Nat /\ Blocks \in SUBSET Nat /\ LoadIds \subseteq Ids
      /\ StoreIds \subseteq Ids /\ LoadIds \cap StoreIds = {} /\ NoBB \notin Blocks
      /\ \A i \in Ids : BB(i) \in Blocks
  BY Numbers DEF IInv, LoadIds, StoreIds
<1>1. turn = "COMMIT" /\ turn' = "MEMORY"
  BY DEF doCOMMIT
<1>2. PICK k \in 0 .. Width : commitImpl(k)
  BY DEF doCOMMIT
<1> DEFINE T == Elements(Take(bbROB, k))
           C == {i \in Ids : BB(i) \in T}
<1>4. /\ k <= Len(bbROB)
      /\ \A b \in T : isCommittable(b)
      /\ bbROB' = Drop(bbROB, k)
      /\ bbQUE' = Drop(bbQUE, k)
      /\ LQ' = Drop(LQ, Cardinality(C \cap LoadIds))
      /\ ins' = Replace(ins, [i \in C \cap StoreIds |-> CommitState(ins[i])])
      /\ retired' = retired \o Take(bbROB, k)
  BY <1>2 DEF commitImpl, CommitState
<1>5. /\ bbQUE \in Seq(Blocks) /\ Increasing(bbQUE)
      /\ bbROB \in Seq(Blocks) /\ Increasing(bbROB)
      /\ retired \in Seq(Blocks) /\ Increasing(retired)
      /\ LQ \in Seq(Ids) /\ Increasing(LQ)
      /\ k \in 0 .. Len(bbROB) /\ k \in 0 .. Len(bbQUE) /\ Take(bbROB, k) = Take(bbQUE, k)
  <2>1. Width \in Nat /\ Len(bbROB) \in 0 .. Len(bbQUE)
    BY <1>3, Sizes, RobPrefix
  <2>2. Len(bbROB) \in Nat /\ Len(bbQUE) \in Nat
    BY <1>3, QueueTypes, ElementsIn
  <2>3. k \in 0 .. Len(bbROB) /\ k \in 0 .. Len(bbQUE)
    BY <1>4, <2>1, <2>2
  <2> QED BY <1>3, <2>3, QueueTypes, RobPrefix DEF IInv, InOrder
<1>6. /\ Take(bbROB, k) \in Seq(Blocks) /\ Increasing(Take(bbROB, k))
      /\ bbROB' \in Seq(Blocks) /\ Increasing(bbROB') /\ InROB' = InROB \ T
      /\ Len(bbROB') = Len(bbROB) - k /\ T \subseteq InROB
  <2>1. Take(bbROB, k) \in Seq(Blocks) /\ Drop(bbROB, k) \in Seq(Blocks)
        /\ Len(Drop(bbROB, k)) = Len(bbROB) - k
    BY <1>5, TakeDrop
  <2>2. Elements(bbROB) = T \cup Elements(Drop(bbROB, k))
    BY <1>5, TakeDropElements
  <2>3. /\ Increasing(Take(bbROB, k)) /\ Increasing(Drop(bbROB, k))
        /\ Elements(Drop(bbROB, k)) = Elements(bbROB) \ T
    BY <1>3, <1>5, IncreasingTakeDrop
  <2> QED BY <1>4, <2>1, <2>2, <2>3 DEF InROB
<1>7. /\ bbQUE' \in Seq(Blocks) /\ Increasing(bbQUE') /\ Fetched' = Fetched \ T
      /\ Before(T, Fetched \ T)
  <2>0. T = Elements(Take(bbQUE, k))
    BY <1>5
  <2> HIDE DEF T
  <2>1. Drop(bbQUE, k) \in Seq(Blocks)
    BY <1>5, TakeDrop
  <2>3. /\ Increasing(Drop(bbQUE, k))
        /\ Elements(Drop(bbQUE, k)) = Elements(bbQUE) \ T
        /\ Before(T, Elements(Drop(bbQUE, k)))
    BY <1>3, <1>5, <2>0, IncreasingTakeDrop
  <2> QED BY <1>4, <2>1, <2>3 DEF Fetched
<1> HIDE DEF T
<1>8. /\ T \subseteq Fetched /\ T \subseteq Blocks /\ Fetched \subseteq Blocks
      /\ Elements(retired) \subseteq Blocks /\ InROB \subseteq Fetched
      /\ Elements(bbCache) \subseteq Blocks
  BY <1>3, <1>6, Flight, ElementTypes
<1>9. \A b \in T : /\ ~blk[b].memViolation /\ ~isOnWrongPath(b)
                   /\ \A i \in BlockIns(b) : /\ i \in Dispatched /\ ins[i].stage = "COMPLETE"
                                             /\ ~WrongPath(i) /\ ~ins[i].memViolation
  BY <1>4, <1>6, CommittableComplete
<1>10. \A i \in C : /\ i \in Ids /\ BB(i) \in T /\ i \in Dispatched /\ ins[i].stage = "COMPLETE"
                    /\ ~WrongPath(i) /\ ~ins[i].memViolation
  BY <1>9 DEF BlockIns
<1>11. \A i \in Ids : i \in C <=> BB(i) \in T
  OBVIOUS
<1> HIDE DEF C
<1>12. /\ retired' \in Seq(Blocks) /\ Increasing(retired')
       /\ Elements(retired') = Elements(retired) \cup T
  <2> DEFINE t == Take(bbROB, k)
  <2>1. Before(Elements(retired), T)
    BY <1>8 DEF IInv, TraceOrder, Before, Traced
  <2>2. t \in Seq(Blocks) /\ Increasing(t) /\ Elements(t) = T /\ retired' = retired \o t
    BY <1>4, <1>6 DEF T
  <2> HIDE DEF t
  <2>3. retired \o t \in Seq(Blocks) /\ Elements(retired \o t) = Elements(retired) \cup T
    BY <1>5, <2>2, Concat, ZenonT(60)
  <2>4. Increasing(retired \o t)
    BY <1>5, <2>1, <2>2, Concat
  <2> QED BY <2>2, <2>3, <2>4
<1>13. ASSUME pipe \in {"DRAIN", "SQUASH_ROB"}
       PROVE  \/ T = {}
              \/ /\ Culprit /\ squashBB \in Fetched \ T /\ squashBB \in Nat
                 /\ badInsID \notin C /\ badInsID \in Dispatched
                 /\ \A i \in C : i < squashSN
  <2>1. CASE pipe = "SQUASH_ROB"
    <3>1. bbROB = << >>
      BY <1>1, <2>1 DEF IInv, Squashing
    <3>2. InROB = {}
      BY <3>1, EmptyQueue DEF InROB
    <3> QED BY <3>2, <1>6
  <2>2. CASE pipe = "DRAIN"
    <3>1. Culprit /\ badInsID \in Dispatched
      BY <2>2 DEF IInv, Squashing, Culprit
    <3>2. /\ squashSN = BBheadID(squashBB) /\ squashBB \in InROB
          /\ squashBB \in Nat /\ badInsID \in Ids
          /\ \A i \in Ids : i < squashSN <=> BB(i) < squashBB
      BY <2>2, CulpritFirst
    <3>3. badInsID \in BlockIns(squashBB)
      BY <3>2 DEF BlockIns, squashBB
    <3>4. squashBB \notin T
      <4> SUFFICES ASSUME squashBB \in T PROVE FALSE
        OBVIOUS
      <4>1. ~WrongPath(badInsID) /\ ~ins[badInsID].memViolation
        BY <1>9, <3>3
      <4> QED BY <3>1, <4>1 DEF Culprit
    <3>5. badInsID \notin C
      BY <3>4, <1>10 DEF squashBB
    <3>6. \A i \in C : i < squashSN
      BY <3>2, <3>4, <1>7, <1>8, <1>10 DEF Before
    <3> QED BY <3>1, <3>2, <3>4, <3>5, <3>6, <1>8
  <2> QED BY <1>13, <2>1, <2>2
<1>14. C \cap LoadIds \subseteq Elements(LQ) /\ C \cap StoreIds \subseteq Elements(SQ)
  <2> SUFFICES ASSUME NEW i \in C PROVE pipe = "NORMAL" \/ i < squashSN
    BY <1>10 DEF IInv, LSQ
  <2> QED BY <1>3, <1>10, <1>13 DEF TypeOK
<1>15. /\ LQ' \in Seq(Ids) /\ Increasing(LQ') /\ Len(LQ') <= LQSize
       /\ Elements(LQ') = Elements(LQ) \ C
  <2> DEFINE S == C \cap LoadIds
  <2>1. S \in SUBSET Elements(LQ) /\ Elements(LQ) \subseteq Dispatched \cap LoadIds
    BY <1>14 DEF IInv, LSQ
  <2>2. DownClosed(S, Elements(LQ))
    <3> SUFFICES ASSUME NEW i \in S, NEW j \in Elements(LQ), j < i PROVE j \in C
      BY <2>1 DEF DownClosed
    <3>1. i \in Ids /\ j \in Ids /\ BB(i) \in T /\ BB(j) \in Fetched
      BY <1>3, <1>10, <2>1, Flight DEF FetchedIns
    <3>2. BB(j) <= BB(i) /\ BB(i) \in Nat /\ BB(j) \in Nat
      BY <1>3, <3>1, BlockOrder
    <3>3. BB(j) \notin T => BB(i) < BB(j)
      BY <3>1, <1>7 DEF Before
    <3> QED BY <3>1, <3>2, <3>3, <1>11
  <2>3. Elements(LQ) \ S = Elements(LQ) \ C
    BY <2>1
  <2>4. LQ' = Drop(LQ, Cardinality(S))
    BY <1>4
  <2> HIDE DEF S
  <2>5. /\ Cardinality(S) \in 0 .. Len(LQ)
        /\ Elements(Drop(LQ, Cardinality(S))) = Elements(LQ) \ S
    BY <1>3, <1>5, <2>1, <2>2, TakeCount
  <2> DEFINE c == Cardinality(S)
  <2>6. c \in 0 .. Len(LQ)
    BY <2>5
  <2> HIDE DEF c
  <2>7. Drop(LQ, c) \in Seq(Ids) /\ Len(Drop(LQ, c)) = Len(LQ) - c
    BY <1>5, <2>6, TakeDrop
  <2>8. Increasing(Drop(LQ, c))
    BY <1>3, <1>5, <2>6, IncreasingTakeDrop
  <2>9. Len(LQ) <= LQSize /\ LQSize \in Nat /\ Len(LQ) \in Nat
    BY <1>3, <1>5, Sizes, ElementsIn
  <2> QED BY <2>3, <2>4, <2>5, <2>6, <2>7, <2>8, <2>9 DEF c
<1>16. /\ ins' \in [Ids -> InsState]
       /\ \A i \in C \cap StoreIds : ins'[i].stage = "COMMIT" /\ ins'[i].lsq = "COMMIT"
       /\ \A i \in Ids \ C : ins'[i] = ins[i]
  <2> DEFINE S == C \cap StoreIds
             d(i) == CommitState(ins[i])
  <2>1. ins \in [Ids -> InsState] /\ S \subseteq Ids
    BY <1>3, <1>10, Tables
  <2>2. \A i \in Ids : d(i) \in InsState /\ d(i).stage = "COMMIT" /\ d(i).lsq = "COMMIT"
    <3> TAKE i \in Ids
    <3>1. ins[i] \in InsState
      BY <2>1
    <3> QED BY <3>1, CommittedState
  <2>3. ins' = Replace(ins, [i \in S |-> d(i)])
    BY <1>4
  <2> HIDE DEF d
  <2>4. S \subseteq C /\ \A i \in C \cap StoreIds : i \in S
    OBVIOUS
  <2> HIDE DEF S
  <2>5. ins' = [i \in Ids |-> IF i \in S THEN d(i) ELSE ins[i]]
    BY <2>1, <2>3 DEF Replace
  <2>6. ins' \in [Ids -> InsState]
    BY <2>1, <2>2, <2>5
  <2> QED BY <2>1, <2>2, <2>4, <2>5, <2>6
<1>17. FetchedIns' = FetchedIns \ C /\ Dispatched \subseteq FetchedIns /\ FetchedIns \subseteq Ids
  <2>1. Dispatched \subseteq FetchedIns /\ FetchedIns \subseteq Ids
    BY Flight
  <2>2. \A i : i \in FetchedIns' <=> i \in Ids /\ BB(i) \in Fetched /\ BB(i) \notin T
    BY <1>7, <1>t DEF FetchedIns
  <2>3. \A i : i \in FetchedIns <=> i \in Ids /\ BB(i) \in Fetched
    BY DEF FetchedIns
  <2> QED BY <2>1, <2>2, <2>3, <1>11
<1>18. \A i \in FetchedIns \ C : ins'[i] = ins[i]
  BY <1>16, <1>17
<1>19. Popped' = Popped \ C /\ Dispatched' = Dispatched \ C
  <2>1. Popped' = Popped \ C
    BY <1>17, <1>18 DEF Popped
  <2>2. \A i \in Popped \ C : ins'[i] = ins[i]
    BY <1>18 DEF Popped
  <2> QED BY <2>1, <2>2 DEF Dispatched
<1>20. /\ Elements(fetchPort) \cap C = {} /\ Elements(decodePort) \cap C = {}
       /\ Elements(windows) \cap C = {} /\ Elements(issuePort) \cap C = {}
       /\ Units \cap C = {}
  BY <1>10 DEF IInv, Stages
<1>21. Window' = Window \ C /\ Units' = Units /\ Traced' = Traced \ T /\ Waiting' = Waiting
  <2>1. Fetched \cap Elements(bbCache) = {}
    <3>1. Before(Fetched, Elements(bbCache))
      BY DEF IInv, TraceOrder
    <3> QED BY <3>1, <1>3, <1>8, BeforeDisjoint
  <2> QED BY <2>1, <1>u, <1>7, <1>8, <1>19, <1>20 DEF Window, Units, Traced, Waiting
<1>22. currentBB \notin T
  <2> SUFFICES ASSUME currentBB \in T PROVE FALSE
    OBVIOUS
  <2>1. currentBB # NoBB /\ currentBB \in Blocks /\ currentBB \in Nat
    BY <1>3, <1>8
  <2>2. CASE pipe = "NORMAL"
    <3> DEFINE i == BBheadID(currentBB) + BBsize(currentBB) - 1
    <3>1. i \in BlockIns(currentBB) /\ \A j \in BlockIns(currentBB) : j <= i
      BY <1>3, <2>1, BlockShape
    <3> HIDE DEF i
    <3>2. ins[i].stage = "COMPLETE"
      BY <3>1, <1>9
    <3>3. i \in Elements(fetchPort) \/ i \in Elements(decodePort)
      BY <2>1, <2>2, <3>1, <3>2, <1>1 DEF IInv, MovesOn
    <3> QED BY <3>2, <3>3 DEF IInv, Stages
  <2>3. CASE pipe \in {"DRAIN", "SQUASH_ROB"}
    <3>1. squashBB \in Fetched \ T /\ squashBB \in Nat
      BY <1>13, <2>3
    <3>2. currentBB < squashBB
      BY <3>1, <1>7 DEF Before
    <3>3. squashBB <= currentBB
      BY <2>1, <3>1 DEF IInv, Fetching
    <3> QED BY <2>1, <3>1, <3>2, <3>3
  <2> QED BY <2>2, <2>3, <1>3 DEF TypeOK
<1>23. \A b \in Blocks : b \notin T => /\ Completed(b)' = Completed(b)
                                      /\ \A i \in BlockIns(b) : ins'[i] = ins[i]
  <2> TAKE b \in Blocks
  <2> HAVE b \notin T
  <2>1. \A i \in BlockIns(b) : ins'[i] = ins[i]
    BY <1>11, <1>16 DEF BlockIns
  <2> QED BY <2>1, <1>t DEF Completed
<1> USE <1>u, <1>t, <1>1
<1>30. TypeOK'
  <2>1. ins' \in [Ids' -> [stage : Stage, lsq : LsqState, memViolation : BOOLEAN,
                           cacheAxes : BOOLEAN, overtook : BOOLEAN]]
    BY <1>16 DEF InsState
  <2>2. \A q \in {bbCache', bbQUE', bbROB', retired'} : q \in Seq(Blocks')
    BY <1>3, <1>6, <1>7, <1>12, QueueTypes
  <2>3. \A q \in {fetchPort', decodePort', windows', issuePort', LQ', SQ'} : q \in Seq(Ids')
    BY <1>3, <1>15, QueueTypes
  <2>4. Len(bbROB') <= RobSize /\ Len(LQ') <= LQSize
    <3>1. Len(bbROB) <= RobSize /\ RobSize \in Nat /\ Len(bbROB) \in Nat /\ k \in Nat
      BY <1>3, <1>5, Sizes, ElementsIn
    <3> QED BY <3>1, <1>6, <1>15
  <2> QED BY <1>3, <2>1, <2>2, <2>3, <2>4 DEF TypeOK
<1>31. InOrder'
  BY <1>6, <1>7, <1>12, <1>15 DEF IInv, InOrder
<1>32. TraceOrder'
  <2>1. TraceOrder
    BY DEF IInv
  <2>2. Before(T, Traced \ T)
    <3>1. Before(T, Elements(bbCache))
      BY <2>1, <1>8 DEF TraceOrder, Before
    <3> QED BY <3>1, <1>7 DEF Before, Traced
  <2>3. Before(Elements(retired'), Traced')
    BY <2>1, <2>2, <1>12, <1>21 DEF TraceOrder, Before
  <2>4. Before(Fetched', Elements(bbCache'))
    BY <2>1, <1>7 DEF TraceOrder, Before
  <2>5. Elements(retired') \cup Traced' \subseteq 1 .. supplied
    BY <2>1, <1>8, <1>12, <1>21 DEF TraceOrder, Traced
  <2>6. \A b \in Elements(retired') : ~isOnWrongPath(b)
    BY <2>1, <1>9, <1>12 DEF TraceOrder
  <2>7. ASSUME NEW b \in Traced', NEW j \in b .. supplied PROVE j \in Traced'
    <3>1. b \in Traced /\ b \notin T /\ b \in Nat
      BY <1>21, <1>3, ElementTypes
    <3>2. j \in Traced
      BY <2>1, <3>1 DEF TraceOrder
    <3>3. j \notin T
      <4>1. j \in T => j < b
        BY <2>2, <3>1 DEF Before
      <4> QED BY <4>1, <3>1
    <3> QED BY <3>2, <3>3, <1>21
  <2> QED BY <2>3, <2>4, <2>5, <2>6, <2>7 DEF TraceOrder
<1>33. Fetching'
  <2>1. \A i \in Ids : BB(i) \notin Fetched \cup Elements(retired) => ins'[i] = ins[i]
    BY <1>8, <1>11, <1>16
  <2>2. \A b \in Blocks' : b \in Elements(bbCache') \/ b > supplied' => Fresh(b)'
    BY <2>1, FreshStays
  <2>3. currentBB' # NoBB => /\ currentBB' \in Fetched'
                             /\ \A b \in Fetched' : b <= currentBB'
                             /\ ~blk'[currentBB'].doneFetch
    BY <1>7, <1>22 DEF IInv, Fetching
  <2>4. \A b \in Fetched' \ {currentBB'} : allFetched(blk', b) /\ blk'[b].doneFetch
    BY <1>7 DEF IInv, Fetching, allFetched
  <2>5. \A i \in FetchedIns' :
         ins'[i].stage # "NO_STAGE" <=> i < BBheadID(BB(i)) + blk'[BB(i)].fetched
    BY <1>17, <1>18 DEF IInv, Fetching
  <2> QED BY <2>2, <2>3, <2>4, <2>5 DEF Fetching, allFetched
<1>34. MovesOn'
  <2>2. (takeable' = takeable) /\ (frontendRunning' = frontendRunning)
    BY DEF takeable, frontendRunning
  <2>3. currentBB # NoBB => currentBB \in Blocks
    BY <1>3 DEF TypeOK
  <2> SUFFICES ASSUME pipe = "NORMAL", currentBB # NoBB, NEW i \in BlockIns(currentBB),
                      ins'[i].stage # "NO_STAGE", \A j \in BlockIns(currentBB) : j <= i
               PROVE  \/ i \in Elements(fetchPort)
                      \/ i \in Elements(decodePort) /\ (~frontendRunning \/ takeable > 0)
    BY <2>2 DEF MovesOn
  <2>4. ins'[i] = ins[i]
    BY <2>3, <1>22, <1>23
  <2> QED BY <2>4 DEF IInv, MovesOn
<1>35. WindowOrder'
  <2>1. /\ Before(Dispatched', Elements(decodePort') \cup Elements(fetchPort'))
        /\ Before(Elements(decodePort'), Elements(fetchPort'))
        /\ Window' \subseteq FetchedIns'
    BY <1>17, <1>19, <1>21 DEF IInv, WindowOrder, Before
  <2>2. InROB' = {BB(i)' : i \in Dispatched'}
    <3>1. InROB = {BB(i) : i \in Dispatched}
      BY DEF IInv, WindowOrder
    <3>2. \A i \in Dispatched : i \in C <=> BB(i) \in T
      BY <1>11, <1>17
    <3>3. \A b : b \in InROB \ T <=> \E i \in Dispatched \ C : BB(i) = b
      BY <3>1, <3>2
    <3> QED BY <3>3, <1>6, <1>19
  <2>3. DownClosed(Dispatched', FetchedIns')
    BY <1>17, <1>19 DEF IInv, WindowOrder, DownClosed
  <2>4. DownClosed(Window', FetchedIns')
    BY <1>17, <1>21 DEF IInv, WindowOrder, DownClosed
  <2>5. pipe' = "NORMAL" => Popped' \subseteq Window'
    BY <1>19, <1>21 DEF IInv, WindowOrder
  <2> QED BY <2>1, <2>2, <2>3, <2>4, <2>5 DEF IInv, WindowOrder, FlushedIn
<1>36. Stages'
  <2>1. \A i \in FetchedIns' \ Dispatched' :
          /\ ins'[i].lsq = "NO_STATE" /\ ~ins'[i].memViolation
          /\ ~ins'[i].cacheAxes /\ ~ins'[i].overtook
    BY <1>17, <1>18, <1>19 DEF IInv, Stages
  <2>2. /\ \A i \in Elements(fetchPort) : ins'[i].stage = "FETCH"
        /\ \A i \in Elements(decodePort) : ins'[i].stage = "DECODE"
    <3>1. \A i \in Elements(fetchPort) \cup Elements(decodePort) : ins'[i] = ins[i]
      BY <1>16, <1>20, <1>3, ElementTypes
    <3> QED BY <3>1 DEF IInv, Stages
  <2>3. \A i \in Dispatched \ C : ins'[i] = ins[i]
    BY <1>17, <1>18
  <2>4. /\ \A i \in Elements(windows) : i \in Dispatched' /\ ins'[i].stage = "DISPATCH"
        /\ \A i \in Elements(issuePort) : i \in Dispatched' /\ ins'[i].stage = "ISSUE"
        /\ \A i \in Units : i \in Dispatched' /\ ins'[i].stage = "EXECUTE"
    BY <2>3, <1>19, <1>20 DEF IInv, Stages
  <2>5. \A i \in Dispatched' :
          /\ Lifecycle(i)'
          /\ ins'[i].stage = "EXECUTE" => i \in Units
          /\ ins'[i].memViolation =>
              i \in LoadIds /\ ins'[i].lsq = "COMPLETE" /\ blk[BB(i)].memViolation
    <3> TAKE i \in Dispatched'
    <3>1. ins'[i] = ins[i] /\ i \in Dispatched
      BY <2>3, <1>19
    <3>2. Lifecycle(i) /\ (ins[i].stage = "EXECUTE" => i \in Units)
          /\ (ins[i].memViolation =>
               i \in LoadIds /\ ins[i].lsq = "COMPLETE" /\ blk[BB(i)].memViolation)
      BY <3>1 DEF IInv, Stages
    <3> QED BY <3>1, <3>2 DEF Lifecycle
  <2> QED BY <2>1, <2>2, <2>4, <2>5, <1>21 DEF Stages
<1>37. Counting'
  BY <1>7, <1>8, <1>23 DEF IInv, Counting
<1>38. LSQ'
  <2>1. /\ Elements(LQ') \subseteq Dispatched' \cap LoadIds
        /\ DownClosed(Elements(LQ'), Dispatched' \cap LoadIds)
        /\ DownClosed(Elements(SQ'), Dispatched' \cap StoreIds)
    BY <1>15, <1>19 DEF IInv, LSQ, DownClosed
  <2>2. \A i \in Elements(SQ') \ Dispatched' :
         /\ BB(i) \in Elements(retired')
         /\ ins'[i].stage = "COMMIT" /\ ins'[i].lsq \in {"COMMIT", "CACHE_DISPATCH"}
    <3> TAKE i \in Elements(SQ') \ Dispatched'
    <3>0. i \in Ids /\ i \in StoreIds
      BY <1>3, ElementTypes DEF IInv, LSQ
    <3>1. CASE i \in C
      BY <3>0, <3>1, <1>10, <1>12, <1>16
    <3>2. CASE i \notin C
      <4>1. i \in Elements(SQ) \ Dispatched
        BY <3>2, <1>19
      <4>2. ins'[i] = ins[i]
        BY <3>0, <3>2, <1>16
      <4> QED BY <4>1, <4>2, <1>12 DEF IInv, LSQ
    <3> QED BY <3>1, <3>2
  <2>3. \A i \in Dispatched' : (pipe = "NORMAL" \/ i < squashSN \/ i \in Waiting') =>
         /\ i \in LoadIds => i \in Elements(LQ')
         /\ i \in StoreIds => i \in Elements(SQ')
    BY <1>15, <1>19, <1>21 DEF IInv, LSQ
  <2>4. Elements(SQ') \subseteq StoreIds
    BY DEF IInv, LSQ
  <2> QED BY <2>1, <2>2, <2>3, <2>4 DEF LSQ
<1>39. Squashing'
  <2>1. \A i \in Dispatched' : i \in Dispatched /\ ins'[i] = ins[i] /\ (Detected(i)' <=> Detected(i))
    BY <1>17, <1>18, <1>19 DEF Detected
  <2>2. pipe = "DRAIN" => Culprit'
    <3> SUFFICES ASSUME pipe = "DRAIN" PROVE Culprit'
      OBVIOUS
    <3>1. Culprit /\ badInsID \notin C
      <4>1. Culprit
        BY DEF IInv, Squashing
      <4>2. badInsID \notin C
        BY <1>10, <1>13
      <4> QED BY <4>1, <4>2
    <3>2. badInsID \in Dispatched'
      BY <3>1, <1>19 DEF Culprit
    <3> QED BY <3>1, <3>2, <2>1 DEF Culprit
  <2>3. pipe = "SQUASH_ROB" => bbROB' = << >> /\ bbQUE' = << >>
    <3> SUFFICES ASSUME pipe = "SQUASH_ROB" PROVE bbROB' = << >> /\ bbQUE' = << >>
      OBVIOUS
    <3>1. bbROB = << >> /\ bbQUE = << >>
      BY DEF IInv, Squashing
    <3>2. InROB = {} /\ Fetched = {}
      BY <3>1, EmptyQueue DEF InROB, Fetched
    <3>3. Elements(bbROB') = {} /\ Elements(bbQUE') = {}
      BY <3>2, <1>6, <1>7 DEF InROB, Fetched
    <3> QED BY <3>3, <1>6, <1>7, ElementsIn
  <2>4. squashBB' = squashBB
    BY DEF squashBB
  <2> QED BY <2>1, <2>2, <2>3, <2>4 DEF IInv, Squashing
<1>40. Flushing'
  BY <1>15, <1>21 DEF IInv, Flushing, FlushedIn
<1>41. Permits'
  <2> SUFFICES ASSUME NEW b \in Traced', ~blk[b].permit
               PROVE  /\ \A c \in Traced' : b <= c
                      /\ ~blk[b].memViolation
                      /\ \A i \in BlockIns(b) : ~ins'[i].overtook
                      /\ \A l \in BlockIns(b) \cap LoadIds, s \in BlockIns(b) \cap StoreIds :
                           s < l /\ ins'[l].stage = "COMPLETE" => ins'[s].stage = "COMPLETE"
    BY DEF IInv, Permits
  <2>1. b \in Traced /\ b \notin T /\ b \in Blocks
    BY <1>21, <1>3, ElementTypes
  <2>2. \A i \in BlockIns(b) : ins'[i] = ins[i]
    BY <2>1, <1>23
  <2> QED BY <2>1, <2>2, <1>21 DEF IInv, Permits
<1> QED BY <1>30, <1>31, <1>32, <1>33, <1>34, <1>35, <1>36, <1>37, <1>38, <1>39, <1>40,
           <1>41 DEF IInv

LEMMA CommitStep ==
  ASSUME IInv, doCOMMIT
  PROVE  IInv'
<1>1. CASE pipe \in {"WAIT_FLUSH", "FLUSH"}
  <2>1. UNCHANGED work
    BY <1>1 DEF doCOMMIT, work, frontVars, squashVars, history, insVars, queues
  <2>2. turn = "COMMIT" /\ turn' = "MEMORY"
    BY DEF doCOMMIT
  <2> QED BY <1>1, <2>1, <2>2, Stalled
<1> QED BY <1>1, CommitNormal

-----------------------------------------------------------------------------
(* The blocks count what completes. *)

NewIn(done, b) == Cardinality({i \in done : BB(i) = b})
Counted(r, n) == [r EXCEPT !.completed = @ + n]

LEMMA CountedBlock ==
  ASSUME NEW r \in BlkState, NEW n \in Nat
  PROVE  LET t == Counted(r, n)
         IN /\ t \in BlkState /\ t.completed = r.completed + n /\ t.fetched = r.fetched
            /\ t.doneFetch = r.doneFetch /\ t.memViolation = r.memViolation
            /\ t.permit = r.permit
BY DEF BlkState, Counted

LEMMA CountsBlocks ==
  ASSUME TypeOK, NEW done, \A i \in done : i \in Ids, NEW table \in [Blocks -> BlkState]
  PROVE  LET t == incCompletedInsCntr(table, done)
         IN /\ t \in [Blocks -> BlkState]
            /\ \A b \in Blocks :
                 /\ NewIn(done, b) \in Nat
                 /\ t[b].completed = table[b].completed + NewIn(done, b)
                 /\ t[b].fetched = table[b].fetched /\ t[b].doneFetch = table[b].doneFetch
                 /\ t[b].memViolation = table[b].memViolation
                 /\ t[b].permit = table[b].permit
<1> DEFINE c(b) == NewIn(done, b)
           t == incCompletedInsCntr(table, done)
<1>1. \A b \in Blocks : c(b) \in Nat
  <2> TAKE b \in Blocks
  <2> DEFINE S == {i \in done : BB(i) = b}
  <2>1. IsFiniteSet(Ids) /\ S \subseteq Ids
    BY Numbers
  <2> HIDE DEF S
  <2>2. Cardinality(S) \in Nat
    BY <2>1, FS_Subset, FS_CardinalityType
  <2> QED BY <2>2 DEF S, NewIn
<1>2. t = [b \in Blocks |-> Counted(table[b], c(b))]
  BY DEF incCompletedInsCntr, Counted, NewIn
<1> HIDE DEF c, t
<1>3. \A b \in Blocks :
        /\ Counted(table[b], c(b)) \in BlkState
        /\ Counted(table[b], c(b)).completed = table[b].completed + c(b)
        /\ Counted(table[b], c(b)).fetched = table[b].fetched
        /\ Counted(table[b], c(b)).doneFetch = table[b].doneFetch
        /\ Counted(table[b], c(b)).memViolation = table[b].memViolation
        /\ Counted(table[b], c(b)).permit = table[b].permit
  <2> TAKE b \in Blocks
  <2>1. table[b] \in BlkState /\ c(b) \in Nat
    BY <1>1
  <2> QED BY <2>1, CountedBlock
<1>4. /\ t \in [Blocks -> BlkState]
      /\ \A b \in Blocks :
           /\ c(b) \in Nat
           /\ t[b].completed = table[b].completed + c(b)
           /\ t[b].fetched = table[b].fetched /\ t[b].doneFetch = table[b].doneFetch
           /\ t[b].memViolation = table[b].memViolation
           /\ t[b].permit = table[b].permit
  BY <1>1, <1>2, <1>3
<1> QED BY <1>4 DEF c, t

(* The complete instructions of a block once those of done are as well. *)
LEMMA NewlyComplete ==
  ASSUME TypeOK, program' = program, NEW done \in SUBSET Ids,
         \A i \in done : ins[i].stage # "COMPLETE",
         \A i \in Ids : ins'[i].stage = "COMPLETE" <=> i \in done \/ ins[i].stage = "COMPLETE",
         NEW b \in Blocks
  PROVE  /\ Cardinality(Completed(b)') =
              Cardinality(Completed(b)) + NewIn(done, b)
         /\ Cardinality(Completed(b)') <= BBsize(b)
<1> DEFINE C == Completed(b)
           N == {i \in done : BB(i) = b}
           D == Completed(b)'
<1>1. BlockIns(b)' = BlockIns(b)
  BY ProgramStays
<1>2. IsFiniteSet(BlockIns(b)) /\ C \subseteq BlockIns(b) /\ N \subseteq BlockIns(b)
      /\ D \subseteq BlockIns(b)
  <2>1. IsFiniteSet(BlockIns(b))
    BY BlockShape
  <2>2. C \subseteq BlockIns(b) /\ D \subseteq BlockIns(b)
    BY <1>1 DEF Completed
  <2>3. N \subseteq BlockIns(b)
    BY DEF BlockIns
  <2> QED BY <2>1, <2>2, <2>3
<1>3. D = C \cup N /\ C \cap N = {}
  <2>1. \A i \in BlockIns(b) : i \in Ids /\ (i \in N <=> i \in done)
    BY DEF BlockIns
  <2>2. \A i \in BlockIns(b) : /\ i \in C <=> ins[i].stage = "COMPLETE"
                               /\ i \in D <=> ins'[i].stage = "COMPLETE"
    BY <1>1 DEF Completed
  <2> HIDE DEF C, D, N
  <2> QED BY <1>2, <2>1, <2>2
<1> HIDE DEF C, D, N
<1>4. IsFiniteSet(C) /\ IsFiniteSet(N) /\ IsFiniteSet(D)
  BY <1>2, FS_Subset
<1>5. Cardinality(C \cup N) = Cardinality(C) + Cardinality(N) - Cardinality(C \cap N)
  BY <1>4, FS_Union
<1>6. Cardinality(C \cap N) = 0
  BY <1>3, FS_EmptySet
<1>7. Cardinality(C) \in Nat /\ Cardinality(N) \in Nat
  BY <1>4, FS_CardinalityType
<1>8. Cardinality(D) = Cardinality(C) + Cardinality(N)
  BY <1>3, <1>5, <1>6, <1>7
<1>9. Cardinality(D) <= BBsize(b)
  BY <1>2, FS_Subset DEF BBsize
<1> QED BY <1>8, <1>9 DEF C, D, N, NewIn

LEMMA NoneComplete ==
  ASSUME TypeOK, NEW done \in SUBSET FetchedIns, NEW b \in Blocks, b \notin Fetched
  PROVE  NewIn(done, b) = 0
<1>1. {i \in done : BB(i) = b} = {}
  BY DEF FetchedIns
<1>2. Cardinality({}) = 0
  BY FS_EmptySet
<1> QED BY <1>1, <1>2 DEF NewIn

(* A block of which nothing is fetched stays as it is. *)
LEMMA SameBlock ==
  ASSUME NEW r \in BlkState, NEW t \in BlkState,
         t.completed = r.completed, t.fetched = r.fetched, t.doneFetch = r.doneFetch,
         t.memViolation = r.memViolation, t.permit = r.permit
  PROVE  t = r
BY DEF BlkState

-----------------------------------------------------------------------------
(* Memory. *)

LEMMA SquashNumber ==
  ASSUME TypeOK
  PROVE  squashSN \in Nat
<1>1. Ids \in SUBSET Nat /\ HeadIds \subseteq Ids
  BY Numbers
<1>2. squashSN \in HeadIds \cup {0}
  BY DEF TypeOK
<1> QED BY <1>1, <1>2

LEMMA SquashLSQ ==
  ASSUME TypeOK, NEW q \in Seq(Ids), Increasing(q)
  PROVE  /\ squashLSQ(q) \in Seq(Ids) /\ Increasing(squashLSQ(q))
         /\ Len(squashLSQ(q)) <= Len(q) /\ Len(squashLSQ(q)) \in Nat
         /\ Elements(squashLSQ(q)) = {i \in Elements(q) : pipe = "FLUSH" => i < squashSN}
<1>1. Ids \in SUBSET Nat /\ squashSN \in Nat /\ Len(q) \in Nat
  <2>1. Ids \in SUBSET Nat /\ HeadIds \subseteq Ids
    BY Numbers
  <2>2. squashSN \in HeadIds \cup {0}
    BY DEF TypeOK
  <2> QED BY <2>1, <2>2, ElementsIn
<1>2. CASE pipe = "FLUSH"
  <2> DEFINE r == FlushBack(q, squashSN)
  <2>1. squashLSQ(q) = r
    BY <1>2 DEF squashLSQ
  <2>2. r \in Seq(Ids) /\ Increasing(r) /\ Len(r) <= Len(q)
        /\ Elements(r) = {i \in Elements(q) : i < squashSN}
    BY <1>1, FlushBackElements
  <2> HIDE DEF r
  <2>3. Len(r) \in Nat
    BY <2>2
  <2> QED BY <1>2, <2>1, <2>2, <2>3
<1>3. CASE pipe # "FLUSH"
  BY <1>1, <1>3 DEF squashLSQ
<1> QED BY <1>2, <1>3

FinishState(r) == [r EXCEPT !.stage = "COMPLETE", !.lsq = "COMPLETE"]
WriteState(r) == [r EXCEPT !.lsq = "CACHE_DISPATCH"]

LEMMA MemoryState ==
  ASSUME NEW r \in InsState
  PROVE  /\ FinishState(r) \in InsState
         /\ FinishState(r).stage = "COMPLETE" /\ FinishState(r).lsq = "COMPLETE"
         /\ FinishState(r).memViolation = r.memViolation
         /\ FinishState(r).cacheAxes = r.cacheAxes
         /\ FinishState(r).overtook = r.overtook
         /\ WriteState(r) \in InsState /\ WriteState(r).lsq = "CACHE_DISPATCH"
         /\ WriteState(r).stage = r.stage
         /\ WriteState(r).memViolation = r.memViolation
         /\ WriteState(r).overtook = r.overtook
BY DEF InsState, FinishState, WriteState, Stage, LsqState

LEMMA ReadState ==
  ASSUME NEW i, ins[i] \in InsState, NEW stores
  PROVE  LET x == getAxesLatency(stores, i)
         IN /\ x \in InsState /\ x.stage = ins[i].stage
            /\ x.lsq \in {"FWD_FROM_SQ", "CACHE_WAIT"}
            /\ x.memViolation = ins[i].memViolation
            /\ x.overtook = ins[i].overtook
BY DEF getAxesLatency, InsState, LsqState

LEMMA MemoryStep ==
  ASSUME IInv, doMEMORY
  PROVE  IInv'
<1> USE DEF frontVars, squashVars, history
<1>u. UNCHANGED <<program, supplied, bbCache, currentBB, pipe, squashSN, squashType,
                  badInsID, retired, deleted, bbQUE, fetchPort, decodePort, windows,
                  issuePort, EU, bbROB>>
  BY DEF doMEMORY
<1>t. /\ Ids' = Ids /\ Blocks' = Blocks /\ LoadIds' = LoadIds /\ StoreIds' = StoreIds
      /\ HeadIds' = HeadIds /\ LastBlock' = LastBlock
      /\ \A i : Op(i)' = Op(i) /\ BB(i)' = BB(i) /\ WrongPath(i)' = WrongPath(i)
      /\ \A b : /\ BlockIns(b)' = BlockIns(b) /\ BBsize(b)' = BBsize(b)
                /\ BBheadID(b)' = BBheadID(b) /\ isOnWrongPath(b)' = isOnWrongPath(b)
  BY <1>u, ProgramStays
<1>3. TypeOK /\ Ids \in SUBSET Nat /\ Blocks \in SUBSET Nat /\ LoadIds \subseteq Ids
      /\ StoreIds \subseteq Ids /\ LoadIds \cap StoreIds = {}
      /\ \A i \in Ids : BB(i) \in Blocks
  BY Numbers DEF IInv, LoadIds, StoreIds
<1>1. turn = "MEMORY" /\ turn' = "EXECUTE"
  BY DEF doMEMORY
<1> DEFINE loads == squashLSQ(LQ)
           stores == squashLSQ(SQ)
           pendingLoads == findPendingLoads(loads)
           pendingStores == findPendingStores(stores)
<1>2. PICK done \in SUBSET hasFinishedIns, k \in 0 .. MemWidth, m \in 0 .. MemWidth,
           taken \in SUBSET DispatchedStores(stores) :
         /\ k <= Len(pendingLoads) /\ m <= Len(pendingStores)
         /\ ins' = Replace(Replace(Replace(ins,
                      [i \in Elements(Take(pendingStores, m)) |-> WriteState(ins[i])]),
                      [i \in Elements(Take(pendingLoads, k)) |-> getAxesLatency(stores, i)]),
                      [i \in done |-> FinishState(ins[i])])
         /\ blk' = incCompletedInsCntr(blk, done)
         /\ SQ' = Without(stores, taken)
  BY DEF doMEMORY, WriteState, FinishState
<1> DEFINE issued == Elements(Take(pendingLoads, k))
           sent == Elements(Take(pendingStores, m))
           finished == [i \in done |-> FinishState(ins[i])]
           reading == [i \in issued |-> getAxesLatency(stores, i)]
           writing == [i \in sent |-> WriteState(ins[i])]
           wrote == Replace(ins, writing)
           read == Replace(wrote, reading)
<1>4. /\ ins' = Replace(read, finished)
      /\ SQ' = Filter(stores, Ids \ taken) /\ LQ' = loads
  BY <1>2 DEF doMEMORY, Without
<1> HIDE DEF wrote, read, finished, reading, writing
<1>5. /\ LQ \in Seq(Ids) /\ Increasing(LQ) /\ SQ \in Seq(Ids) /\ Increasing(SQ)
      /\ Len(LQ) \in Nat /\ Len(SQ) \in Nat
  BY <1>3, QueueTypes DEF IInv, InOrder
<1>6. /\ loads \in Seq(Ids) /\ Increasing(loads) /\ Len(loads) <= Len(LQ) /\ Len(loads) \in Nat
      /\ Elements(loads) = {i \in Elements(LQ) : pipe = "FLUSH" => i < squashSN}
  BY <1>3, <1>5, SquashLSQ
<1>7. /\ stores \in Seq(Ids) /\ Increasing(stores) /\ Len(stores) <= Len(SQ)
      /\ Len(stores) \in Nat
      /\ Elements(stores) = {i \in Elements(SQ) : pipe = "FLUSH" => i < squashSN}
  BY <1>3, <1>5, SquashLSQ
<1>8. /\ Elements(LQ) \subseteq Dispatched \cap LoadIds /\ Elements(LQ) \subseteq Ids
      /\ Elements(SQ) \subseteq StoreIds /\ Elements(SQ) \subseteq Ids
      /\ Dispatched \subseteq FetchedIns /\ FetchedIns \subseteq Ids
  BY <1>3, ElementTypes, Flight DEF IInv, LSQ
<1> HIDE DEF loads, stores
<1>9. \A i \in issued : /\ i \in Elements(loads) /\ ins[i].stage = "MEM_ACCESS"
                        /\ ins[i].lsq = "PENDING_CACHE_DISPATCH"
  <2> DEFINE P == {i \in Ids : /\ ins[i].stage = "MEM_ACCESS"
                               /\ ins[i].lsq = "PENDING_CACHE_DISPATCH"}
  <2>1. pendingLoads = Filter(loads, P)
    BY DEF findPendingLoads
  <2> HIDE DEF P
  <2>2. pendingLoads \in Seq(Ids) /\ Elements(pendingLoads) = Elements(loads) \cap P
    BY <1>6, <2>1, FilterElements
  <2> HIDE DEF pendingLoads
  <2>3. k \in 0 .. Len(pendingLoads)
    <3>1. MemWidth \in Nat /\ Len(pendingLoads) \in Nat
      BY <1>3, <2>2, Sizes
    <3>2. k <= Len(pendingLoads)
      BY <1>2
    <3> QED BY <3>1, <3>2
  <2>4. issued \subseteq Elements(pendingLoads)
    BY <2>2, <2>3, TakeDropElements
  <2> QED BY <2>2, <2>4 DEF P
<1>10. \A i \in sent : i \in Elements(stores) /\ ins[i].stage = "COMMIT" /\ ins[i].lsq = "COMMIT"
  <2> DEFINE P == {i \in Ids : ins[i].stage = "COMMIT" /\ ins[i].lsq = "COMMIT"}
  <2>1. pendingStores = Filter(stores, P)
    BY DEF findPendingStores
  <2> HIDE DEF P
  <2>2. pendingStores \in Seq(Ids) /\ Elements(pendingStores) = Elements(stores) \cap P
    BY <1>7, <2>1, FilterElements
  <2> HIDE DEF pendingStores
  <2>3. m \in 0 .. Len(pendingStores)
    <3>1. MemWidth \in Nat /\ Len(pendingStores) \in Nat
      BY <1>3, <2>2, Sizes
    <3>2. m <= Len(pendingStores)
      BY <1>2
    <3> QED BY <3>1, <3>2
  <2>4. sent \subseteq Elements(pendingStores)
    BY <2>2, <2>3, TakeDropElements
  <2> QED BY <2>2, <2>4 DEF P
<1> HIDE DEF issued, sent
<1>11. \A i \in done :
         /\ i \in Elements(LQ) /\ ins[i].lsq \in {"FWD_FROM_SQ", "CACHE_WAIT"}
         /\ ~blk[BB(i)].permit /\ ~ins[i].overtook =>
              \A s \in BlockIns(BB(i)) \cap StoreIds : s < i => ins[s].stage = "COMPLETE"
  BY DEF hasFinishedIns
<1>12. \A i \in taken : i \in Elements(stores) /\ ins[i].lsq = "CACHE_DISPATCH"
  BY DEF DispatchedStores
<1>13. \A i \in Dispatched : Lifecycle(i)
  BY DEF IInv, Stages
<1>14. /\ \A i \in done : i \in Dispatched /\ i \in LoadIds /\ ins[i].stage = "MEM_ACCESS"
       /\ \A i \in issued : i \in Dispatched /\ i \in LoadIds
       /\ \A i \in done \cup issued : ~ins[i].memViolation
       /\ \A i \in sent \cup taken : i \notin Dispatched /\ i \in StoreIds
  <2>1. \A i \in Dispatched : ins[i].memViolation => ins[i].lsq = "COMPLETE"
    BY DEF IInv, Stages
  <2>2. \A i \in done \cup issued : i \in Dispatched /\ i \in LoadIds
    BY <1>6, <1>8, <1>9, <1>11
  <2>3. \A i \in done : ins[i].stage = "MEM_ACCESS"
    BY <2>2, <1>11, <1>13 DEF Lifecycle, LoadIds
  <2>4. \A i \in done \cup issued : ~ins[i].memViolation
    BY <2>1, <2>2, <1>9, <1>11
  <2>5. ASSUME NEW i \in sent \cup taken PROVE i \notin Dispatched /\ i \in StoreIds
    <3>1. i \in StoreIds /\ Op(i) = "STORE"
      BY <1>7, <1>8, <1>10, <1>12 DEF StoreIds
    <3>2. ins[i].lsq \in {"COMMIT", "CACHE_DISPATCH"}
      BY <1>10, <1>12
    <3> QED BY <3>1, <3>2, <1>13 DEF Lifecycle
  <2> QED BY <2>2, <2>3, <2>4, <2>5
<1>15. ins \in [Ids -> InsState] /\ blk \in [Blocks -> BlkState]
  BY <1>3, Tables
<1>16. done \in SUBSET Ids /\ issued \in SUBSET Ids /\ sent \in SUBSET Ids
       /\ done \cap issued = {} /\ done \cap sent = {} /\ issued \cap sent = {}
  BY <1>8, <1>9, <1>10, <1>11, <1>14, <1>7
<1>s. \A i \in Ids : /\ FinishState(ins[i]) \in InsState
                     /\ FinishState(ins[i]).stage = "COMPLETE"
                     /\ FinishState(ins[i]).lsq = "COMPLETE"
                     /\ FinishState(ins[i]).memViolation = ins[i].memViolation
                     /\ FinishState(ins[i]).overtook = ins[i].overtook
                     /\ WriteState(ins[i]) \in InsState
                     /\ WriteState(ins[i]).lsq = "CACHE_DISPATCH"
                     /\ WriteState(ins[i]).stage = ins[i].stage
  BY <1>15, MemoryState
<1>17. /\ wrote \in [Ids -> InsState]
       /\ \A i \in Ids \ sent : wrote[i] = ins[i]
       /\ \A i \in sent : wrote[i] = WriteState(ins[i])
  <2>2. writing \in [sent -> InsState]
    BY <1>s, <1>16 DEF writing
  <2>3. \A i \in sent : writing[i] = WriteState(ins[i])
    BY DEF writing
  <2>4. /\ wrote \in [Ids -> InsState]
        /\ \A i \in Ids \ sent : wrote[i] = ins[i]
        /\ \A i \in sent : wrote[i] = writing[i]
    <3>1. wrote = [i \in Ids |-> IF i \in sent THEN writing[i] ELSE ins[i]]
      BY <1>15, <2>2 DEF wrote, Replace
    <3> QED BY <3>1, <2>2, <1>15, <1>16
  <2> QED BY <2>3, <2>4
<1>18. ASSUME NEW i \in issued
       PROVE  LET x == getAxesLatency(stores, i) IN
              /\ x \in InsState /\ x.stage = "MEM_ACCESS"
              /\ x.lsq \in {"FWD_FROM_SQ", "CACHE_WAIT"}
              /\ x.memViolation = ins[i].memViolation /\ x.overtook = ins[i].overtook
  <2>1. ins[i] \in InsState
    BY <1>15, <1>16
  <2> QED BY <1>9, <2>1, ReadState
<1>19. /\ read \in [Ids -> InsState]
       /\ \A i \in Ids \ issued : read[i] = wrote[i]
       /\ \A i \in issued : read[i] = getAxesLatency(stores, i)
  <2>1. reading \in [issued -> InsState]
    BY <1>18 DEF reading
  <2>2. \A i \in issued : reading[i] = getAxesLatency(stores, i)
    BY DEF reading
  <2>3. /\ read \in [Ids -> InsState]
        /\ \A i \in Ids \ issued : read[i] = wrote[i]
        /\ \A i \in issued : read[i] = reading[i]
    <3>1. read = [i \in Ids |-> IF i \in issued THEN reading[i] ELSE wrote[i]]
      BY <1>17, <2>1 DEF read, Replace
    <3> QED BY <3>1, <2>1, <1>16, <1>17
  <2> QED BY <2>2, <2>3
<1>20. /\ ins' \in [Ids -> InsState]
       /\ \A i \in Ids \ done : ins'[i] = read[i]
       /\ \A i \in done : ins'[i] = FinishState(ins[i])
  <2>2. finished \in [done -> InsState]
    BY <1>s, <1>16 DEF finished
  <2>3. \A i \in done : finished[i] = FinishState(ins[i])
    BY DEF finished
  <2> DEFINE t == Replace(read, finished)
  <2>4. /\ t \in [Ids -> InsState]
        /\ \A i \in Ids \ done : t[i] = read[i]
        /\ \A i \in done : t[i] = finished[i]
    <3>1. t = [i \in Ids |-> IF i \in done THEN finished[i] ELSE read[i]]
      BY <1>19, <2>2 DEF Replace
    <3> QED BY <3>1, <2>2, <1>16, <1>19
  <2>5. ins' = t
    BY <1>4
  <2> HIDE DEF t
  <2> QED BY <2>3, <2>4, <2>5
<1>21. \A i \in Ids \ (done \cup issued \cup sent) : ins'[i] = ins[i]
  BY <1>17, <1>19, <1>20
<1>22. \A i \in done : /\ ins'[i].stage = "COMPLETE" /\ ins'[i].lsq = "COMPLETE"
                       /\ ins'[i].memViolation = ins[i].memViolation
                       /\ ins'[i].overtook = ins[i].overtook
  <2> TAKE i \in done
  <2>1. i \in Ids /\ ins'[i] = FinishState(ins[i])
    BY <1>16, <1>20
  <2> QED BY <2>1, <1>s
<1>23. \A i \in issued : /\ ins'[i].stage = "MEM_ACCESS"
                         /\ ins'[i].lsq \in {"FWD_FROM_SQ", "CACHE_WAIT"}
                         /\ ins'[i].memViolation = ins[i].memViolation
                         /\ ins'[i].overtook = ins[i].overtook
  <2> TAKE i \in issued
  <2>1. ins'[i] = getAxesLatency(stores, i)
    BY <1>16, <1>19, <1>20
  <2> QED BY <2>1, <1>18
<1>24. \A i \in sent : ins'[i].stage = "COMMIT" /\ ins'[i].lsq = "CACHE_DISPATCH"
  <2> TAKE i \in sent
  <2>1. i \in Ids /\ ins'[i] = WriteState(ins[i])
    BY <1>16, <1>17, <1>19, <1>20
  <2> QED BY <2>1, <1>10, <1>s
<1>25. /\ SQ' \in Seq(Ids) /\ Increasing(SQ') /\ Elements(SQ') = Elements(stores) \ taken
       /\ Len(SQ') <= SQSize
  <2> DEFINE R == Ids \ taken
             f == Filter(stores, R)
  <2> HIDE DEF R
  <2>1. f \in Seq(Ids) /\ Elements(f) = Elements(stores) \cap R /\ Len(f) <= Len(stores)
    BY <1>7, FilterElements
  <2>2. Increasing(f)
    BY <1>3, <1>7, FilterIncreasing
  <2> HIDE DEF f
  <2>3. SQ' = f
    BY <1>4 DEF f, R
  <2>4. Len(f) <= SQSize
    <3>1. Len(SQ) <= SQSize /\ SQSize \in Nat /\ Len(f) \in Nat
      BY <2>1, <1>3, Sizes
    <3> QED BY <3>1, <2>1, <1>5, <1>7
  <2>5. Elements(f) = Elements(stores) \ taken
    BY <2>1, <1>7, <1>8 DEF R
  <2> QED BY <2>1, <2>2, <2>3, <2>4, <2>5
<1>26. \A i \in Dispatched : i \notin done \cup issued => ins'[i] = ins[i]
  BY <1>8, <1>14, <1>21
<1>27. \A i \in sent : BB(i) \in Elements(retired) /\ i \notin FetchedIns
  <2> TAKE i \in sent
  <2>1. i \in Elements(SQ) \ Dispatched /\ i \in Ids
    BY <1>7, <1>10, <1>14, <1>16
  <2>2. BB(i) \in Elements(retired)
    BY <2>1 DEF IInv, LSQ
  <2>3. BB(i) \in Traced => BB(i) < BB(i)
    BY <2>2 DEF IInv, TraceOrder, Before
  <2>4. BB(i) \in Nat
    BY <2>1, <1>3
  <2> QED BY <2>1, <2>2, <2>3, <2>4 DEF FetchedIns, Traced
<1>28. \A i \in FetchedIns \ Dispatched : ins'[i] = ins[i]
  BY <1>8, <1>14, <1>21, <1>27
<1>e. /\ Fetched' = Fetched /\ FetchedIns' = FetchedIns /\ Popped' = Popped
      /\ Dispatched' = Dispatched /\ InROB' = InROB /\ Units' = Units
      /\ Window' = Window /\ Traced' = Traced /\ Waiting' = Waiting
  <2>1. \A i \in FetchedIns :
           /\ ins'[i].stage = "NO_STAGE" <=> ins[i].stage = "NO_STAGE"
           /\ ins'[i].stage \in FrontStage <=> ins[i].stage \in FrontStage
    <3> TAKE i \in FetchedIns
    <3>1. CASE i \in done \cup issued
      <4>1. /\ ins[i].stage = "MEM_ACCESS" /\ ins'[i].stage \in {"MEM_ACCESS", "COMPLETE"}
        BY <3>1, <1>9, <1>14, <1>22, <1>23
      <4> QED BY <4>1 DEF FrontStage
    <3>2. CASE i \notin done \cup issued
      BY <3>2, <1>26, <1>28
    <3> QED BY <3>1, <3>2
  <2>2. /\ Fetched' = Fetched /\ FetchedIns' = FetchedIns /\ Popped' = Popped
        /\ Dispatched' = Dispatched
    BY <2>1, <1>u, SameSets
  <2> QED BY <2>2, <1>u DEF InROB, Units, Window, Traced, Waiting
<1>29. /\ blk' \in [Blocks -> BlkState]
       /\ \A b \in Blocks :
            /\ blk'[b].fetched = blk[b].fetched /\ blk'[b].doneFetch = blk[b].doneFetch
            /\ blk'[b].memViolation = blk[b].memViolation /\ blk'[b].permit = blk[b].permit
            /\ blk'[b].completed = blk[b].completed + NewIn(done, b)
            /\ b \notin Fetched => blk'[b] = blk[b]
  <2> DEFINE t == incCompletedInsCntr(blk, done)
  <2>1. /\ t \in [Blocks -> BlkState]
        /\ \A b \in Blocks :
             /\ t[b].completed = blk[b].completed + NewIn(done, b)
             /\ t[b].fetched = blk[b].fetched /\ t[b].doneFetch = blk[b].doneFetch
             /\ t[b].memViolation = blk[b].memViolation
             /\ t[b].permit = blk[b].permit
    <3>1. \A i \in done : i \in Ids
      BY <1>16
    <3> QED BY <3>1, <1>3, <1>15, CountsBlocks
  <2>2. blk' = t
    BY <1>2
  <2> HIDE DEF t
  <2>3. ASSUME NEW b \in Blocks, b \notin Fetched PROVE t[b] = blk[b]
    <3>1. NewIn(done, b) = 0
      <4>1. done \in SUBSET FetchedIns
        BY <1>8, <1>14
      <4> QED BY <4>1, <2>3, <1>3, NoneComplete
    <3>2. blk[b] \in BlkState /\ t[b] \in BlkState
      BY <1>15, <2>1
    <3>3. blk[b].completed \in Nat
      BY <3>2 DEF BlkState
    <3>4. t[b].completed = blk[b].completed
      BY <2>1, <3>1, <3>3
    <3> QED BY <2>1, <3>2, <3>4, SameBlock
  <2> QED BY <2>1, <2>2, <2>3
<1>c. \A b \in Blocks :
        /\ Cardinality(Completed(b)') =
             Cardinality(Completed(b)) + NewIn(done, b)
        /\ Cardinality(Completed(b)') <= BBsize(b)
  <2>1. /\ \A i \in done : ins[i].stage # "COMPLETE"
        /\ \A i \in Ids :
             ins'[i].stage = "COMPLETE" <=> i \in done \/ ins[i].stage = "COMPLETE"
    BY <1>9, <1>10, <1>14, <1>21, <1>22, <1>23, <1>24
  <2> QED BY <2>1, <1>3, <1>16, <1>u, NewlyComplete
<1> USE <1>u, <1>t, <1>e, <1>1
<1>30. Counting'
  <2> SUFFICES ASSUME NEW b \in Fetched
               PROVE  blk'[b].completed = Cardinality(Completed(b)')
    BY DEF Counting
  <2>1. b \in Blocks /\ blk[b].completed = Cardinality(Completed(b))
    BY <1>3, ElementTypes DEF IInv, Counting
  <2> QED BY <2>1, <1>c, <1>29
<1>31. TypeOK'
  <2>1. ins' \in [Ids' -> [stage : Stage, lsq : LsqState, memViolation : BOOLEAN,
                           cacheAxes : BOOLEAN, overtook : BOOLEAN]]
    BY <1>20 DEF InsState
  <2>2. \A q \in {fetchPort', decodePort', windows', issuePort', LQ', SQ'} : q \in Seq(Ids')
    BY <1>3, <1>4, <1>6, <1>25, QueueTypes
  <2>3. Len(LQ') <= LQSize
    <3>1. Len(LQ) <= LQSize /\ LQSize \in Nat
      BY <1>3, Sizes
    <3> QED BY <3>1, <1>4, <1>5, <1>6
  <2>4. blk' \in [Blocks' -> [fetched : Nat, doneFetch : BOOLEAN, completed : Nat,
                              memViolation : BOOLEAN, permit : BOOLEAN]]
    BY <1>29 DEF BlkState
  <2>5. \A b \in Blocks : blk'[b].fetched <= BBsize(b) /\ blk'[b].completed <= BBsize(b)
    <3> TAKE b \in Blocks
    <3>1. blk[b].fetched <= BBsize(b) /\ blk[b].completed <= BBsize(b)
      BY <1>3, Tables
    <3>2. b \in Fetched => blk'[b].completed <= BBsize(b)
      <4> SUFFICES ASSUME b \in Fetched PROVE blk'[b].completed <= BBsize(b)
        OBVIOUS
      <4>1. blk'[b].completed = Cardinality(Completed(b)')
        BY <1>30 DEF Counting
      <4> QED BY <4>1, <1>c
    <3> QED BY <3>1, <3>2, <1>29
  <2> QED BY <1>3, <1>25, <2>1, <2>2, <2>3, <2>4, <2>5 DEF TypeOK
<1>32. InOrder' /\ TraceOrder'
  BY <1>4, <1>6, <1>25 DEF IInv, InOrder, TraceOrder
<1>33. Fetching'
  <2>1. \A i \in Ids : BB(i) \notin Fetched \cup Elements(retired) => ins'[i] = ins[i]
    <3> TAKE i \in Ids
    <3> HAVE BB(i) \notin Fetched \cup Elements(retired)
    <3>1. i \notin FetchedIns /\ i \notin sent
      BY <1>27 DEF FetchedIns
    <3> QED BY <3>1, <1>8, <1>14, <1>21
  <2>2. \A b \in Blocks' : b \in Elements(bbCache') \/ b > supplied' => Fresh(b)'
    BY <2>1, <1>29, FreshStays
  <2>3. Fetched \subseteq Blocks
    BY <1>3, ElementTypes
  <2>4. currentBB' # NoBB => /\ currentBB' \in Fetched'
                             /\ \A b \in Fetched' : b <= currentBB'
                             /\ ~blk'[currentBB'].doneFetch
    BY <2>3, <1>29 DEF IInv, Fetching
  <2>5. \A b \in Fetched' \ {currentBB'} : blk'[b].fetched = BBsize(b) /\ blk'[b].doneFetch
    BY <2>3, <1>29 DEF IInv, Fetching, allFetched
  <2>6. \A i \in FetchedIns' :
         ins'[i].stage # "NO_STAGE" <=> i < BBheadID(BB(i)) + blk'[BB(i)].fetched
    <3> TAKE i \in FetchedIns'
    <3>1. BB(i) \in Blocks /\ i \in FetchedIns
      BY <1>3, <1>8
    <3>2. ins'[i].stage # "NO_STAGE" <=> ins[i].stage # "NO_STAGE"
      <4>1. ins'[i].stage # "NO_STAGE" <=> i \in Popped'
        BY DEF Popped
      <4>2. ins[i].stage # "NO_STAGE" <=> i \in Popped
        BY DEF Popped
      <4> QED BY <4>1, <4>2
    <3> QED BY <3>1, <3>2, <1>29 DEF IInv, Fetching
  <2> QED BY <2>2, <2>4, <2>5, <2>6 DEF Fetching, allFetched
<1>34. MovesOn'
  <2>2. (takeable' = takeable) /\ (frontendRunning' = frontendRunning)
    BY DEF takeable, frontendRunning
  <2> SUFFICES ASSUME pipe = "NORMAL", currentBB # NoBB, NEW i \in BlockIns(currentBB),
                      ins'[i].stage # "NO_STAGE", \A j \in BlockIns(currentBB) : j <= i
               PROVE  \/ i \in Elements(fetchPort)
                      \/ i \in Elements(decodePort) /\ (~frontendRunning \/ takeable > 0)
    BY <2>2 DEF MovesOn
  <2>3. i \in FetchedIns
    BY DEF BlockIns, FetchedIns, IInv, Fetching
  <2>4. i \in Popped'
    BY <2>3 DEF Popped
  <2>5. ins[i].stage # "NO_STAGE"
    BY <2>4 DEF Popped
  <2> QED BY <2>5 DEF IInv, MovesOn
<1>35. WindowOrder'
  BY DEF IInv, WindowOrder, FlushedIn
<1>36. Stages'
  <2>1. \A i \in FetchedIns' \ Dispatched' :
          /\ ins'[i].lsq = "NO_STATE" /\ ~ins'[i].memViolation
          /\ ~ins'[i].cacheAxes /\ ~ins'[i].overtook
    BY <1>28 DEF IInv, Stages
  <2>2. /\ \A i \in Elements(fetchPort) : ins'[i].stage = "FETCH"
        /\ \A i \in Elements(decodePort) : ins'[i].stage = "DECODE"
    <3>1. \A i \in Elements(fetchPort) \cup Elements(decodePort) : ins'[i] = ins[i]
      <4>1. Elements(fetchPort) \cup Elements(decodePort) \subseteq FetchedIns
        BY DEF IInv, WindowOrder, Window
      <4>2. \A i \in done \cup issued : ins[i].stage = "MEM_ACCESS"
        BY <1>9, <1>14
      <4> QED BY <4>1, <4>2, <1>8, <1>21, <1>27 DEF IInv, Stages
    <3> QED BY <3>1 DEF IInv, Stages
  <2>3. /\ \A i \in Elements(windows) : i \in Dispatched' /\ ins'[i].stage = "DISPATCH"
        /\ \A i \in Elements(issuePort) : i \in Dispatched' /\ ins'[i].stage = "ISSUE"
        /\ \A i \in Units : i \in Dispatched' /\ ins'[i].stage = "EXECUTE"
    <3>1. \A i \in done \cup issued : ins[i].stage = "MEM_ACCESS"
      BY <1>9, <1>14
    <3> QED BY <3>1, <1>26 DEF IInv, Stages
  <2>4. ASSUME NEW i \in Dispatched
        PROVE  /\ Lifecycle(i)'
               /\ ins'[i].stage = "EXECUTE" => i \in Units
               /\ ins'[i].memViolation =>
                    i \in LoadIds /\ ins'[i].lsq = "COMPLETE" /\ blk'[BB(i)].memViolation
    <3>0. BB(i) \in Blocks
      BY <1>3, <1>8
    <3>1. CASE i \in done \cup issued
      BY <3>1, <1>14, <1>22, <1>23 DEF Lifecycle, LoadIds
    <3>2. CASE i \notin done \cup issued
      <4>1. ins'[i] = ins[i]
        BY <3>2, <1>26
      <4>2. Lifecycle(i) /\ (ins[i].stage = "EXECUTE" => i \in Units)
            /\ (ins[i].memViolation =>
                 i \in LoadIds /\ ins[i].lsq = "COMPLETE" /\ blk[BB(i)].memViolation)
        BY DEF IInv, Stages
      <4> QED BY <3>0, <4>1, <4>2, <1>29 DEF Lifecycle
    <3> QED BY <3>1, <3>2
  <2> QED BY <2>1, <2>2, <2>3, <2>4 DEF Stages
<1>37. LSQ'
  <2>1. /\ Elements(LQ') \subseteq Dispatched' \cap LoadIds
        /\ Elements(SQ') \subseteq StoreIds
    BY <1>4, <1>6, <1>7, <1>8, <1>25
  <2>2. squashSN \in Nat
    BY <1>3, SquashNumber
  <2>3. DownClosed(Elements(LQ'), Dispatched \cap LoadIds)
    <3> SUFFICES ASSUME NEW i \in Elements(loads), NEW j \in Dispatched \cap LoadIds, j < i
                 PROVE  j \in Elements(loads)
      BY <1>4 DEF DownClosed
    <3>1. j \in Elements(LQ) /\ i \in Nat /\ j \in Nat
      BY <1>3, <1>6, <1>8 DEF IInv, LSQ, DownClosed
    <3> QED BY <3>1, <2>2, <1>6
  <2>4. DownClosed(Elements(SQ'), Dispatched \cap StoreIds)
    <3> SUFFICES ASSUME NEW i \in Elements(stores), NEW j \in Dispatched \cap StoreIds, j < i
                 PROVE  j \in Elements(SQ')
      BY <1>25 DEF DownClosed
    <3>1. j \in Elements(SQ) /\ i \in Nat /\ j \in Nat
      BY <1>3, <1>7, <1>8 DEF IInv, LSQ, DownClosed
    <3> QED BY <3>1, <2>2, <1>7, <1>14, <1>25
  <2>5. \A i \in Elements(SQ') \ Dispatched' :
          /\ BB(i) \in Elements(retired)
          /\ ins'[i].stage = "COMMIT" /\ ins'[i].lsq \in {"COMMIT", "CACHE_DISPATCH"}
    <3> TAKE i \in Elements(SQ') \ Dispatched'
    <3>1. i \in Elements(SQ) /\ i \in Ids /\ i \notin done \cup issued
      BY <1>7, <1>8, <1>14, <1>25
    <3>2. CASE i \in sent
      BY <3>2, <1>24, <1>27
    <3>3. CASE i \notin sent
      <4>1. ins'[i] = ins[i]
        BY <3>1, <3>3, <1>21
      <4> QED BY <4>1, <3>1 DEF IInv, LSQ
    <3> QED BY <3>2, <3>3
  <2>6. ASSUME NEW i \in Dispatched, pipe = "FLUSH" => i < squashSN
        PROVE  /\ i \in Elements(LQ) => i \in Elements(LQ')
               /\ i \in Elements(SQ) => i \in Elements(SQ')
    BY <2>6, <1>4, <1>6, <1>7, <1>14, <1>25
  <2>7. ASSUME NEW i \in Dispatched, pipe = "NORMAL" \/ i < squashSN \/ i \in Waiting
        PROVE  /\ i \in LoadIds => i \in Elements(LQ')
               /\ i \in StoreIds => i \in Elements(SQ')
    <3>1. pipe = "FLUSH" /\ i \in Waiting => i < squashSN
      BY DEF IInv, Flushing, FlushedIn, Waiting
    <3>2. /\ i \in LoadIds => i \in Elements(LQ)
          /\ i \in StoreIds => i \in Elements(SQ)
      BY <2>7 DEF IInv, LSQ
    <3>3. pipe = "FLUSH" => i < squashSN
      BY <2>7, <3>1
    <3> QED BY <3>2, <3>3, <2>6
  <2> QED BY <2>1, <2>3, <2>4, <2>5, <2>7 DEF LSQ
<1>38. Squashing'
  <2>1. \A i \in Dispatched : Detected(i)' <=> Detected(i)
    <3> TAKE i \in Dispatched
    <3>1. CASE i \in done \cup issued
      <4>1. /\ ins[i].stage = "MEM_ACCESS" /\ ins'[i].stage \in {"MEM_ACCESS", "COMPLETE"}
            /\ ins'[i].memViolation = ins[i].memViolation
        BY <3>1, <1>9, <1>14, <1>22, <1>23
      <4> QED BY <4>1 DEF Detected
    <3>2. CASE i \notin done \cup issued
      BY <3>2, <1>26 DEF Detected
    <3> QED BY <3>1, <3>2
  <2>2. Culprit => Culprit'
    <3> SUFFICES ASSUME Culprit PROVE Culprit'
      OBVIOUS
    <3>1. badInsID \in Dispatched
      BY DEF Culprit
    <3>2. ins'[badInsID].memViolation = ins[badInsID].memViolation
      BY <3>1, <1>22, <1>23, <1>26
    <3> QED BY <3>1, <3>2, <2>1 DEF Culprit
  <2>3. squashBB' = squashBB
    BY DEF squashBB
  <2> QED BY <2>1, <2>2, <2>3 DEF IInv, Squashing
<1>39. Flushing'
  <2>1. /\ Elements(LQ') \subseteq Elements(LQ) /\ Elements(SQ') \subseteq Elements(SQ)
        /\ pipe = "FLUSH" => \A i \in Elements(LQ') \cup Elements(SQ') : i < squashSN
    BY <1>4, <1>6, <1>7, <1>25
  <2> QED BY <2>1 DEF IInv, Flushing, FlushedIn
<1>40. Permits'
  <2>0. \A b \in Blocks : b > supplied' => blk'[b].permit
    BY <1>29 DEF IInv, Permits
  <2> SUFFICES ASSUME NEW b \in Traced, ~blk'[b].permit
               PROVE  /\ \A c \in Traced : b <= c
                      /\ ~blk'[b].memViolation
                      /\ \A i \in BlockIns(b) : ~ins'[i].overtook
                      /\ \A l \in BlockIns(b) \cap LoadIds, s \in BlockIns(b) \cap StoreIds :
                           s < l /\ ins'[l].stage = "COMPLETE" => ins'[s].stage = "COMPLETE"
    BY <2>0 DEF Permits
  <2>1. /\ b \in Blocks /\ ~blk[b].permit /\ \A c \in Traced : b <= c
        /\ ~blk'[b].memViolation /\ \A i \in BlockIns(b) : ~ins[i].overtook
    BY <1>3, <1>29, ElementTypes DEF IInv, Permits
  <2>2. \A i \in BlockIns(b) : i \in Ids /\ BB(i) = b /\ i \notin sent
    <3>1. \A i \in BlockIns(b) : i \in Ids /\ BB(i) = b
      BY DEF BlockIns
    <3>2. b \notin Elements(retired)
      <4>1. b \in Elements(retired) => b < b
        BY DEF IInv, TraceOrder, Before
      <4> QED BY <4>1, <2>1, <1>3
    <3> QED BY <3>1, <3>2, <1>27
  <2>3. \A i \in BlockIns(b) : ~ins'[i].overtook
    BY <2>1, <2>2, <1>21, <1>22, <1>23
  <2>4. ASSUME NEW l \in BlockIns(b) \cap LoadIds, NEW s \in BlockIns(b) \cap StoreIds,
               s < l, ins'[l].stage = "COMPLETE"
        PROVE  ins'[s].stage = "COMPLETE"
    <3>1. ins'[s] = ins[s]
      BY <2>2, <1>3, <1>14, <1>21
    <3>2. CASE l \in done
      BY <2>1, <2>2, <2>4, <3>1, <3>2, <1>11
    <3>3. CASE l \notin done
      <4>1. ins'[l] = ins[l]
        BY <2>2, <2>4, <3>3, <1>21, <1>23
      <4> QED BY <2>1, <2>4, <3>1, <4>1 DEF IInv, Permits
    <3> QED BY <3>2, <3>3
  <2> QED BY <2>1, <2>3, <2>4
<1> QED BY <1>30, <1>31, <1>32, <1>33, <1>34, <1>35, <1>36, <1>37, <1>38, <1>39, <1>40 DEF IInv

-----------------------------------------------------------------------------
(* Execution: what the write-back loop makes of the instructions whose     *)
(* units are done, and the culprit it is left with.                        *)

AccState == [ins : [Ids -> InsState], blk : [Blocks -> BlkState],
             bad : Ids \cup {NoIns},
             type : {"NO_MISPRED", "BP_MISPRED", "MEM_MISPRED"},
             badInsID : Ids \cup {NoIns}]

LEMMA WriteBack ==
  ASSUME TypeOK, NEW table \in [Ids -> InsState], NEW i \in Ids
  PROVE  LET t == writeBack(table, i) IN
         /\ t \in [Ids -> InsState]
         /\ \A j \in Ids : j # i => t[j] = table[j]
         /\ t[i].memViolation = table[i].memViolation
         /\ t[i].cacheAxes = table[i].cacheAxes
         /\ t[i].overtook = table[i].overtook
         /\ Op(i) = "ALU" => t[i].stage = "COMPLETE"
         /\ Op(i) = "LOAD" => t[i].stage = "MEM_ACCESS" /\ t[i].lsq = "PENDING_CACHE_DISPATCH"
         /\ Op(i) = "STORE" => t[i].stage = "COMPLETE" /\ t[i].lsq = "COMPLETE"
<1> DEFINE l == [table[i] EXCEPT !.stage = "MEM_ACCESS", !.lsq = "PENDING_CACHE_DISPATCH"]
           s == [table[i] EXCEPT !.stage = "COMPLETE", !.lsq = "COMPLETE"]
           a == [table[i] EXCEPT !.stage = "COMPLETE"]
           t == writeBack(table, i)
<1>1. Op(i) \in {"ALU", "LOAD", "STORE"} /\ table[i] \in InsState
  BY Numbers
<1>2. /\ l \in InsState /\ l.memViolation = table[i].memViolation
      /\ l.overtook = table[i].overtook /\ l.cacheAxes = table[i].cacheAxes /\ l.stage = "MEM_ACCESS"
      /\ l.lsq = "PENDING_CACHE_DISPATCH"
  BY <1>1 DEF InsState, Stage, LsqState
<1>3. /\ s \in InsState /\ s.memViolation = table[i].memViolation
      /\ s.overtook = table[i].overtook /\ s.cacheAxes = table[i].cacheAxes /\ s.stage = "COMPLETE" /\ s.lsq = "COMPLETE"
  BY <1>1 DEF InsState, Stage, LsqState
<1>4. /\ a \in InsState /\ a.memViolation = table[i].memViolation
      /\ a.overtook = table[i].overtook /\ a.cacheAxes = table[i].cacheAxes /\ a.stage = "COMPLETE"
  BY <1>1 DEF InsState, Stage
<1>5. CASE Op(i) = "LOAD"
  <2>1. t = [table EXCEPT ![i] = l]
    BY <1>5 DEF writeBack
  <2> HIDE DEF l, t
  <2> QED BY <1>2, <1>5, <2>1 DEF t
<1>6. CASE Op(i) = "STORE"
  <2>1. t = [table EXCEPT ![i] = s]
    BY <1>6 DEF writeBack
  <2> HIDE DEF s, t
  <2> QED BY <1>3, <1>6, <2>1 DEF t
<1>7. CASE Op(i) = "ALU"
  <2>1. t = [table EXCEPT ![i] = a]
    BY <1>7 DEF writeBack
  <2> HIDE DEF a, t
  <2> QED BY <1>4, <1>7, <2>1 DEF t
<1> QED BY <1>1, <1>5, <1>6, <1>7

LEMMA Violation ==
  ASSUME TypeOK, NEW table, NEW st \in Ids, isLQviolation(table, st) # NoIns
  PROVE  LET ld == isLQviolation(table, st) IN
         /\ ld \in Elements(LQ) /\ st < ld /\ Addr(ld) = Addr(st)
         /\ table[ld].lsq = "COMPLETE" /\ table[ld].cacheAxes
<1> DEFINE waw == Filter(SQ, {i \in Ids : /\ i > st
                                          /\ table[i].lsq = "COMPLETE"
                                          /\ Addr(i) = Addr(st)})
           hi == IF waw = << >> THEN Len(program) ELSE Head(waw)
           found == {LQ[n] : n \in {m \in 2 .. Len(LQ) :
                     /\ st < LQ[m] /\ LQ[m] <= hi
                     /\ Addr(LQ[m]) = Addr(st)
                     /\ table[LQ[m]].lsq = "COMPLETE"
                     /\ table[LQ[m]].cacheAxes}}
<1> HIDE DEF hi
<1>1. isLQviolation(table, st) = IF found = {} THEN NoIns ELSE Max(found)
  BY Zenon DEF isLQviolation, hi
<1> HIDE DEF found
<1>2. LQ \in Seq(Ids) /\ Len(LQ) \in Nat /\ Ids \in SUBSET Nat /\ Len(program) \in Nat
      /\ \A i \in Ids : i \in 1 .. Len(program)
  <2>1. LQ \in Seq(Ids) /\ Len(LQ) \in Nat
    BY QueueTypes
  <2>2. Ids \in SUBSET Nat /\ Len(program) \in Nat /\ \A i \in Ids : i \in 1 .. Len(program)
    BY Numbers
  <2> QED BY <2>1, <2>2
<1>3. \A x \in found : /\ x \in Elements(LQ) /\ x \in Ids /\ st < x /\ Addr(x) = Addr(st)
                       /\ table[x].lsq = "COMPLETE" /\ table[x].cacheAxes
  BY <1>2 DEF Elements, found
<1>4. found # {} /\ isLQviolation(table, st) = Max(found)
  BY <1>1
<1>5. \E x \in found : \A y \in found : y <= x
  <2>1. found \in SUBSET Nat /\ \A x \in found : x <= Len(program)
    BY <1>2, <1>3
  <2> QED BY <2>1, <1>2, <1>4, GreatestNat
<1>6. \E x \in found : \A y \in found : x >= y
  <2>1. \A x, y \in found : y <= x => x >= y
    BY <1>2, <1>3
  <2> QED BY <1>5, <2>1
<1>7. Max(found) \in found
  BY <1>6 DEF Max
<1> QED BY <1>3, <1>4, <1>7

(* The load that the write-back of i reveals, and the tables it leaves. *)
Load(table, i) == IF Op(i) = "STORE" THEN isLQviolation(writeBack(table, i), i) ELSE NoIns
Marked(table, i) ==
    IF Load(table, i) = NoIns THEN writeBack(table, i)
    ELSE [writeBack(table, i) EXCEPT ![Load(table, i)].memViolation = TRUE]
MarkedBlocks(acc, i) ==
    IF Load(acc.ins, i) = NoIns THEN incCompletedInsCntr(acc.blk, {i} \ LoadIds)
    ELSE [incCompletedInsCntr(acc.blk, {i} \ LoadIds)
            EXCEPT ![BB(Load(acc.ins, i))].memViolation = TRUE]

Updated(acc, table, blks) == [acc EXCEPT !.ins = table, !.blk = blks]
Blamed(acc, j, kind) == [acc EXCEPT !.bad = j, !.badInsID = j, !.type = kind]
After(acc, i) == Updated(acc, Marked(acc.ins, i), MarkedBlocks(acc, i))

(* An instruction replaces culprit bad if its block starts before that. *)
Older(bad, j) == bad = 0 \/ BBheadID(BB(j)) < bad

LEMMA UnitResult ==
  ASSUME NEW acc, NEW i
  PROVE  completeUnit(acc, i) =
           IF Load(acc.ins, i) # NoIns /\ Older(acc.badInsID, Load(acc.ins, i))
           THEN Blamed(After(acc, i), Load(acc.ins, i), "MEM_MISPRED")
           ELSE IF /\ WrongPath(i) \/ Marked(acc.ins, i)[i].memViolation
                   /\ Older(acc.badInsID, i)
           THEN Blamed(After(acc, i), i, "BP_MISPRED")
           ELSE After(acc, i)
BY Zenon DEF completeUnit, Load, Marked, MarkedBlocks, Updated, Blamed, After, Older

LEMMA AccFields ==
  ASSUME NEW acc \in AccState
  PROVE  /\ \A table \in [Ids -> InsState], blks \in [Blocks -> BlkState] :
              LET u == Updated(acc, table, blks)
              IN /\ u \in AccState /\ u.ins = table /\ u.blk = blks /\ u.bad = acc.bad
                 /\ u.type = acc.type /\ u.badInsID = acc.badInsID
         /\ \A j \in Ids, kind \in {"BP_MISPRED", "MEM_MISPRED"} :
              LET u == Blamed(acc, j, kind)
              IN /\ u \in AccState /\ u.ins = acc.ins /\ u.blk = acc.blk /\ u.bad = j
                 /\ u.type = kind /\ u.badInsID = j
<1> DEFINE A == [Ids -> InsState]
           B == [Blocks -> BlkState]
<1>1. AccState = [ins : A, blk : B, bad : Ids \cup {NoIns},
                  type : {"NO_MISPRED", "BP_MISPRED", "MEM_MISPRED"},
                  badInsID : Ids \cup {NoIns}]
  BY DEF AccState
<1> HIDE DEF A, B
<1>2. \A table \in A, blks \in B :
        LET u == Updated(acc, table, blks)
        IN /\ u \in AccState /\ u.ins = table /\ u.blk = blks /\ u.bad = acc.bad
           /\ u.type = acc.type /\ u.badInsID = acc.badInsID
  BY <1>1 DEF Updated
<1>3. \A j \in Ids, kind \in {"BP_MISPRED", "MEM_MISPRED"} :
        LET u == Blamed(acc, j, kind)
        IN /\ u \in AccState /\ u.ins = acc.ins /\ u.blk = acc.blk /\ u.bad = j
           /\ u.type = kind /\ u.badInsID = j
  BY <1>1 DEF Blamed
<1> QED BY <1>2, <1>3 DEF A, B

LEMMA MarkedTable ==
  ASSUME TypeOK, NEW table \in [Ids -> InsState], NEW i \in Ids
  PROVE  LET t == Marked(table, i)
             ld == Load(table, i)
         IN
         /\ t \in [Ids -> InsState]
         /\ \A j \in Ids : /\ t[j].cacheAxes = table[j].cacheAxes
                           /\ t[j].overtook = table[j].overtook
                           /\ j # i => t[j].stage = table[j].stage /\ t[j].lsq = table[j].lsq
                           /\ j # ld => t[j].memViolation = table[j].memViolation
         /\ Op(i) = "ALU" => t[i].stage = "COMPLETE"
         /\ Op(i) = "LOAD" => t[i].stage = "MEM_ACCESS" /\ t[i].lsq = "PENDING_CACHE_DISPATCH"
         /\ Op(i) = "STORE" => t[i].stage = "COMPLETE" /\ t[i].lsq = "COMPLETE"
         /\ ld # NoIns => /\ Op(i) = "STORE" /\ ld \in Elements(LQ) /\ ld \in Ids /\ i < ld
                          /\ ld # i
                          /\ Addr(ld) = Addr(i) /\ table[ld].lsq = "COMPLETE"
                          /\ table[ld].cacheAxes /\ t[ld].memViolation
<1> DEFINE w == writeBack(table, i)
           ld == Load(table, i)
           t == Marked(table, i)
<1>1. /\ w \in [Ids -> InsState]
      /\ \A j \in Ids : j # i => w[j] = table[j]
      /\ w[i].memViolation = table[i].memViolation
      /\ w[i].cacheAxes = table[i].cacheAxes /\ w[i].overtook = table[i].overtook
      /\ Op(i) = "ALU" => w[i].stage = "COMPLETE"
      /\ Op(i) = "LOAD" => w[i].stage = "MEM_ACCESS" /\ w[i].lsq = "PENDING_CACHE_DISPATCH"
      /\ Op(i) = "STORE" => w[i].stage = "COMPLETE" /\ w[i].lsq = "COMPLETE"
  BY WriteBack
<1> HIDE DEF w
<1>2. ld # NoIns => /\ Op(i) = "STORE" /\ ld \in Elements(LQ) /\ i < ld
                    /\ Addr(ld) = Addr(i) /\ w[ld].lsq = "COMPLETE" /\ w[ld].cacheAxes
  BY Violation DEF Load, w
<1>3. ld # NoIns => /\ ld \in Ids /\ ld # i
  BY <1>2, Numbers, ElementTypes
<1>4. t = IF ld = NoIns THEN w ELSE [w EXCEPT ![ld].memViolation = TRUE]
  BY DEF Marked, w
<1> HIDE DEF t, ld
<1>5. CASE ld = NoIns
  <2>1. t = w
    BY <1>4, <1>5
  <2> QED BY <2>1, <1>1, <1>5 DEF t, ld
<1>6. CASE ld # NoIns
  <2> DEFINE x == [w[ld] EXCEPT !.memViolation = TRUE]
  <2>1. t = [w EXCEPT ![ld] = x]
    BY <1>4, <1>6
  <2>2. w[ld] \in InsState /\ w[ld] = table[ld]
    BY <1>1, <1>3, <1>6
  <2>3. /\ x \in InsState /\ x.stage = w[ld].stage /\ x.lsq = w[ld].lsq
        /\ x.cacheAxes = w[ld].cacheAxes /\ x.memViolation = TRUE
        /\ x.overtook = w[ld].overtook
    BY <2>2 DEF InsState
  <2> HIDE DEF x
  <2>4. t \in [Ids -> InsState] /\ t[ld] = x /\ \A j \in Ids : j # ld => t[j] = w[j]
    BY <2>1, <2>3, <1>1, <1>3, <1>6
  <2>5. \A j \in Ids : t[j].stage = w[j].stage /\ t[j].lsq = w[j].lsq
                       /\ t[j].cacheAxes = w[j].cacheAxes /\ t[j].overtook = w[j].overtook
    BY <2>3, <2>4
  <2>6. \A j \in Ids : /\ t[j].cacheAxes = table[j].cacheAxes
                       /\ t[j].overtook = table[j].overtook
                       /\ j # i => t[j].stage = table[j].stage /\ t[j].lsq = table[j].lsq
                       /\ j # ld => t[j].memViolation = table[j].memViolation
    BY <1>1, <2>4, <2>5
  <2> QED BY <1>1, <1>2, <1>3, <1>6, <2>2, <2>3, <2>4, <2>5, <2>6 DEF t, ld
<1> QED BY <1>5, <1>6

ViolatingBlock(r) == [r EXCEPT !.memViolation = TRUE]

LEMMA MarkedBlocksTable ==
  ASSUME TypeOK, NEW acc \in AccState, NEW i \in Ids
  PROVE  LET t == MarkedBlocks(acc, i)
             ld == Load(acc.ins, i)
         IN /\ t \in [Blocks -> BlkState]
            /\ \A b \in Blocks :
                 /\ t[b].completed = acc.blk[b].completed + NewIn({i} \ LoadIds, b)
                 /\ t[b].fetched = acc.blk[b].fetched
                 /\ t[b].doneFetch = acc.blk[b].doneFetch
                 /\ t[b].permit = acc.blk[b].permit
                 /\ t[b].memViolation <=>
                      acc.blk[b].memViolation \/ (ld # NoIns /\ b = BB(ld))
<1> DEFINE t == MarkedBlocks(acc, i)
           ld == Load(acc.ins, i)
           own == {i} \ LoadIds
           w == incCompletedInsCntr(acc.blk, own)
<1>1. acc.blk \in [Blocks -> BlkState] /\ acc.ins \in [Ids -> InsState]
  BY DEF AccState
<1>2. \A j \in own : j \in Ids
  OBVIOUS
<1>3. ld # NoIns => ld \in Ids /\ BB(ld) \in Blocks
  BY <1>1, MarkedTable, Numbers
<1>4. t = IF ld = NoIns THEN w ELSE [w EXCEPT ![BB(ld)].memViolation = TRUE]
  BY DEF MarkedBlocks
<1> HIDE DEF ld, own, t
<1>5. /\ w \in [Blocks -> BlkState]
      /\ \A b \in Blocks :
           /\ w[b].completed = acc.blk[b].completed + NewIn(own, b)
           /\ w[b].fetched = acc.blk[b].fetched
           /\ w[b].doneFetch = acc.blk[b].doneFetch
           /\ w[b].memViolation = acc.blk[b].memViolation
           /\ w[b].permit = acc.blk[b].permit
  <2> DEFINE tb == acc.blk
  <2>1. tb \in [Blocks -> BlkState] /\ w = incCompletedInsCntr(tb, own)
    BY <1>1
  <2> HIDE DEF tb, w
  <2>2. /\ w \in [Blocks -> BlkState]
        /\ \A b \in Blocks :
             /\ w[b].completed = tb[b].completed + NewIn(own, b)
             /\ w[b].fetched = tb[b].fetched /\ w[b].doneFetch = tb[b].doneFetch
             /\ w[b].memViolation = tb[b].memViolation
             /\ w[b].permit = tb[b].permit
    BY <1>2, <2>1, CountsBlocks
  <2> QED BY <2>2 DEF tb
<1> HIDE DEF w
<1>6. \A b \in Blocks : acc.blk[b].memViolation \in BOOLEAN
  BY <1>1 DEF BlkState
<1>7. CASE ld = NoIns
  <2>1. t = w
    BY <1>4, <1>7
  <2> QED BY <2>1, <1>5, <1>6, <1>7 DEF t, ld, own
<1>8. CASE ld # NoIns
  <2> DEFINE x == ViolatingBlock(w[BB(ld)])
  <2>1. t = [w EXCEPT ![BB(ld)] = x]
    BY <1>4, <1>8 DEF ViolatingBlock
  <2>2. /\ x \in BlkState /\ x.completed = w[BB(ld)].completed
        /\ x.fetched = w[BB(ld)].fetched /\ x.doneFetch = w[BB(ld)].doneFetch
        /\ x.permit = w[BB(ld)].permit /\ x.memViolation = TRUE
    <3>1. w[BB(ld)] \in BlkState
      BY <1>3, <1>5, <1>8
    <3> QED BY <3>1 DEF BlkState, ViolatingBlock
  <2> HIDE DEF x
  <2>3. t \in [Blocks -> BlkState] /\ t[BB(ld)] = x /\ \A b \in Blocks : b # BB(ld) => t[b] = w[b]
    BY <2>1, <2>2, <1>3, <1>5, <1>8
  <2>4. \A b \in Blocks :
          /\ t[b].completed = w[b].completed /\ t[b].fetched = w[b].fetched
          /\ t[b].doneFetch = w[b].doneFetch /\ t[b].permit = w[b].permit
          /\ t[b].memViolation <=> w[b].memViolation \/ b = BB(ld)
    <3> TAKE b \in Blocks
    <3>1. w[b].memViolation \in BOOLEAN
      BY <1>5, <1>6
    <3>2. CASE b = BB(ld)
      BY <3>2, <2>2, <2>3
    <3>3. CASE b # BB(ld)
      BY <3>1, <3>3, <2>3
    <3> QED BY <3>2, <3>3
  <2>5. t \in [Blocks -> BlkState]
    BY <2>3
  <2> QED BY <2>4, <2>5, <1>5, <1>8 DEF t, ld, own
<1> QED BY <1>7, <1>8

LEMMA AfterFields ==
  ASSUME TypeOK, NEW acc \in AccState, NEW i \in Ids
  PROVE  LET u == After(acc, i)
         IN /\ u \in AccState /\ u.ins = Marked(acc.ins, i)
            /\ u.blk = MarkedBlocks(acc, i) /\ u.bad = acc.bad
            /\ u.type = acc.type /\ u.badInsID = acc.badInsID
<1>1. acc.ins \in [Ids -> InsState]
  BY DEF AccState
<1>2. Marked(acc.ins, i) \in [Ids -> InsState]
  BY <1>1, MarkedTable
<1>3. MarkedBlocks(acc, i) \in [Blocks -> BlkState]
  BY MarkedBlocksTable
<1> QED BY <1>2, <1>3, AccFields DEF After

LEMMA CompleteUnitType ==
  ASSUME TypeOK, NEW acc \in AccState, NEW i \in Ids
  PROVE  completeUnit(acc, i) \in AccState
<1>1. acc.ins \in [Ids -> InsState]
  BY DEF AccState
<1> DEFINE ld == Load(acc.ins, i)
           u == After(acc, i)
<1>2. ld # NoIns => ld \in Ids
  BY <1>1, MarkedTable
<1>3. u \in AccState
  BY AfterFields
<1>4. \/ completeUnit(acc, i) \in {Blamed(u, i, "BP_MISPRED"), u}
      \/ ld # NoIns /\ completeUnit(acc, i) = Blamed(u, ld, "MEM_MISPRED")
  BY UnitResult
<1> HIDE DEF u, ld
<1>5. Blamed(u, i, "BP_MISPRED") \in AccState
  BY <1>3, AccFields
<1>6. ld # NoIns => Blamed(u, ld, "MEM_MISPRED") \in AccState
  BY <1>2, <1>3, AccFields
<1> QED BY <1>3, <1>4, <1>5, <1>6


DetectedIn(table, i) ==
    \/ table[i].memViolation
    \/ WrongPath(i) /\ table[i].stage \in {"MEM_ACCESS", "COMPLETE"}

(* The table once the instructions of W have written back. *)
Processed(table, W) ==
    /\ \A i \in Ids : /\ table[i].cacheAxes = ins[i].cacheAxes
                      /\ table[i].overtook = ins[i].overtook
                      /\ ins[i].memViolation => table[i].memViolation
    /\ \A i \in Ids \ W : table[i].stage = ins[i].stage /\ table[i].lsq = ins[i].lsq
    /\ \A i \in W :
         /\ Op(i) = "ALU" => table[i].stage = "COMPLETE"
         /\ Op(i) = "LOAD" => /\ table[i].stage = "MEM_ACCESS"
                              /\ table[i].lsq = "PENDING_CACHE_DISPATCH"
         /\ Op(i) = "STORE" => table[i].stage = "COMPLETE" /\ table[i].lsq = "COMPLETE"
    /\ \A i \in Ids : table[i].memViolation =>
         \/ ins[i].memViolation
         \/ i \in Elements(LQ) /\ ins[i].lsq = "COMPLETE" /\ i \notin Units

(* The blocks have counted what completed, and a load that violates marks  *)
(* its block, which still has its permit.                                  *)
BlocksProcessed(acc, W) ==
    /\ \A b \in Blocks :
         /\ acc.blk[b].completed = blk[b].completed + NewIn(W \ LoadIds, b)
         /\ acc.blk[b].fetched = blk[b].fetched
         /\ acc.blk[b].doneFetch = blk[b].doneFetch
         /\ acc.blk[b].permit = blk[b].permit
         /\ acc.blk[b].memViolation =>
              blk[b].memViolation \/ (b \in Fetched /\ blk[b].permit)
         /\ blk[b].memViolation => acc.blk[b].memViolation
    /\ \A i \in Dispatched : acc.ins[i].memViolation => acc.blk[BB(i)].memViolation

(* The loop has kept a culprit of the oldest block that has one, and the   *)
(* kind of its squash.                                                     *)
Precedes(bad, i) == BB(bad) <= BB(i) \/ (WrongPath(i) /\ i \in StoreIds)
KeepsOldest(acc) ==
    /\ \A i \in Dispatched : DetectedIn(acc.ins, i) =>
         acc.badInsID # NoIns /\ Precedes(acc.badInsID, i)
    /\ \/ /\ acc.bad = NoIns /\ acc.type = squashType
          /\ acc.badInsID = IF pipe = "NORMAL" THEN 0 ELSE badInsID
       \/ /\ acc.bad = acc.badInsID /\ acc.bad \in Dispatched
          /\ DetectedIn(acc.ins, acc.bad)
          /\ \/ acc.type = "BP_MISPRED" /\ WrongPath(acc.bad)
             \/ acc.type = "MEM_MISPRED" /\ acc.ins[acc.bad].memViolation
          /\ pipe # "NORMAL" => BB(acc.bad) <= squashBB

(* One more instruction counts in its own block. *)
LEMMA OneMore ==
  ASSUME TypeOK, NEW W, \A j \in W : j \in Ids, NEW i \in Ids, i \notin W, NEW b \in Blocks
  PROVE  /\ NewIn((W \cup {i}) \ LoadIds, b) = NewIn(W \ LoadIds, b) + NewIn({i} \ LoadIds, b)
         /\ NewIn(W \ LoadIds, b) \in Nat /\ NewIn({i} \ LoadIds, b) \in Nat
<1> DEFINE A == {j \in W \ LoadIds : BB(j) = b}
           O == {j \in {i} \ LoadIds : BB(j) = b}
           U == {j \in (W \cup {i}) \ LoadIds : BB(j) = b}
<1>1. U = A \cup O /\ A \cap O = {} /\ A \subseteq Ids /\ O \subseteq Ids
  OBVIOUS
<1>2. NewIn(W \ LoadIds, b) = Cardinality(A) /\ NewIn({i} \ LoadIds, b) = Cardinality(O)
      /\ NewIn((W \cup {i}) \ LoadIds, b) = Cardinality(U)
  BY DEF NewIn
<1> HIDE DEF A, O, U
<1>3. IsFiniteSet(A) /\ IsFiniteSet(O)
  <2>1. IsFiniteSet(Ids)
    BY Numbers
  <2> QED BY <1>1, <2>1, FS_Subset
<1>4. Cardinality(A \cup O) = Cardinality(A) + Cardinality(O) - Cardinality(A \cap O)
  BY <1>3, FS_Union
<1>5. Cardinality(A \cap O) = 0
  BY <1>1, FS_EmptySet
<1>6. Cardinality(A) \in Nat /\ Cardinality(O) \in Nat
  BY <1>3, FS_CardinalityType
<1> QED BY <1>1, <1>2, <1>4, <1>5, <1>6

(* What the instructions that complete are, and the load one reveals.      *)
LEMMA Revealed ==
  ASSUME IInv, NEW table \in [Ids -> InsState], NEW W \in SUBSET Units, NEW i \in Units,
         Processed(table, W)
  PROVE  LET ld == Load(table, i)
         IN /\ i \in Dispatched /\ ins[i].stage = "EXECUTE" /\ ~ins[i].memViolation
            /\ ld # NoIns =>
                 /\ Op(i) = "STORE" /\ i \in StoreIds /\ i < ld
                 /\ ld \in Dispatched /\ ld \in LoadIds /\ ld \in Elements(LQ)
                 /\ ins[ld].lsq = "COMPLETE" /\ ins[ld].stage = "COMPLETE"
                 /\ ld \notin Units /\ BB(ld) \in Fetched /\ blk[BB(ld)].permit
<1> DEFINE ld == Load(table, i)
<1>1. TypeOK /\ Ids \in SUBSET Nat /\ i \in Ids /\ Units \subseteq Ids
      /\ Blocks \in SUBSET Nat /\ \A j \in Ids : BB(j) \in Blocks
  BY Numbers, ElementTypes DEF IInv
<1>2. i \in Dispatched /\ ins[i].stage = "EXECUTE" /\ ~ins[i].memViolation
  <2>1. i \in Dispatched /\ ins[i].stage = "EXECUTE" /\ Lifecycle(i)
        /\ (ins[i].memViolation => i \in LoadIds /\ ins[i].lsq = "COMPLETE")
    BY DEF IInv, Stages
  <2> QED BY <2>1 DEF Lifecycle, LoadIds
<1> SUFFICES ASSUME ld # NoIns
             PROVE  /\ Op(i) = "STORE" /\ i \in StoreIds /\ i < ld
                    /\ ld \in Dispatched /\ ld \in LoadIds /\ ld \in Elements(LQ)
                    /\ ins[ld].lsq = "COMPLETE" /\ ins[ld].stage = "COMPLETE"
                    /\ ld \notin Units /\ BB(ld) \in Fetched /\ blk[BB(ld)].permit
  BY <1>2
<1>3. /\ Op(i) = "STORE" /\ ld \in Elements(LQ) /\ ld \in Ids /\ i < ld
      /\ table[ld].lsq = "COMPLETE"
  BY <1>1, MarkedTable
<1> HIDE DEF ld
<1>4. ld \in Dispatched /\ ld \in LoadIds /\ Op(ld) = "LOAD"
  BY <1>3 DEF IInv, LSQ, LoadIds
<1>5. ld \notin W
  BY <1>3, <1>4 DEF Processed
<1>6. ins[ld].lsq = "COMPLETE"
  BY <1>3, <1>5 DEF Processed
<1>7. ins[ld].stage = "COMPLETE"
  BY <1>4, <1>6 DEF IInv, Stages, Lifecycle
<1>8. ld \notin Units
  BY <1>7 DEF IInv, Stages
<1>9. BB(ld) \in Fetched /\ BB(i) \in Fetched /\ i \in StoreIds
  <2>1. ld \in FetchedIns /\ i \in FetchedIns
    BY <1>2, <1>4, Flight
  <2> QED BY <2>1, <1>1, <1>3 DEF FetchedIns, StoreIds
<1>10. blk[BB(ld)].permit
  <2> SUFFICES ASSUME ~blk[BB(ld)].permit PROVE FALSE
    OBVIOUS
  <2>1. /\ \A c \in Traced : BB(ld) <= c
        /\ \A l \in BlockIns(BB(ld)) \cap LoadIds, s \in BlockIns(BB(ld)) \cap StoreIds :
             s < l /\ ins[l].stage = "COMPLETE" => ins[s].stage = "COMPLETE"
    BY <1>9 DEF IInv, Permits, Traced
  <2>2. BB(ld) <= BB(i)
    BY <2>1, <1>9 DEF Traced
  <2>3. BB(i) <= BB(ld)
    BY <1>1, <1>3, BlockOrder
  <2>4. BB(i) = BB(ld)
    <3>1. BB(i) \in Nat /\ BB(ld) \in Nat
      BY <1>1, <1>3
    <3> QED BY <3>1, <2>2, <2>3
  <2>5. i \in BlockIns(BB(ld)) /\ ld \in BlockIns(BB(ld))
    BY <2>4, <1>1, <1>3 DEF BlockIns
  <2> QED BY <2>1, <2>5, <1>2, <1>3, <1>4, <1>7, <1>9
<1> QED BY <1>3, <1>4, <1>6, <1>7, <1>8, <1>9, <1>10

LEMMA CompleteProcessed ==
  ASSUME IInv, NEW table \in [Ids -> InsState], NEW W \in SUBSET Units, NEW i \in Units,
         Processed(table, W)
  PROVE  LET m == Marked(table, i)
             ld == Load(table, i)
         IN /\ Processed(m, W \cup {i})
            /\ ~m[i].memViolation
            /\ \A j \in Dispatched : DetectedIn(table, j) => DetectedIn(m, j)
            /\ \A j \in Dispatched : DetectedIn(m, j) =>
                 DetectedIn(table, j) \/ (j = i /\ WrongPath(i)) \/ (j = ld /\ ld # NoIns)
            /\ WrongPath(i) => DetectedIn(m, i)
            /\ ld # NoIns => DetectedIn(m, ld) /\ m[ld].memViolation
            /\ \A j \in Ids : j # ld => m[j].memViolation = table[j].memViolation
            /\ \A j \in Dispatched : table[j].memViolation => m[j].memViolation
<1> DEFINE m == Marked(table, i)
           ld == Load(table, i)
<1>1. TypeOK /\ Ids \in SUBSET Nat /\ NoIns \notin Ids
      /\ i \in Ids /\ Units \subseteq Ids /\ Dispatched \subseteq Ids
      /\ Op(i) \in {"ALU", "LOAD", "STORE"}
  <2>1. TypeOK /\ i \in Ids
    BY ElementTypes DEF IInv
  <2> QED BY <2>1, Numbers, ElementTypes, Flight
<1>2. /\ i \in Dispatched /\ ins[i].stage = "EXECUTE" /\ ~ins[i].memViolation
      /\ ld # NoIns =>
           /\ Op(i) = "STORE" /\ i < ld /\ ld \in Dispatched /\ ld \in LoadIds
           /\ ld \in Elements(LQ)
           /\ ins[ld].lsq = "COMPLETE" /\ ins[ld].stage = "COMPLETE" /\ ld \notin Units
  BY Revealed
<1>3. /\ m \in [Ids -> InsState]
      /\ \A j \in Ids : /\ m[j].cacheAxes = table[j].cacheAxes
                        /\ m[j].overtook = table[j].overtook
                        /\ j # i => m[j].stage = table[j].stage /\ m[j].lsq = table[j].lsq
                        /\ j # ld => m[j].memViolation = table[j].memViolation
      /\ Op(i) = "ALU" => m[i].stage = "COMPLETE"
      /\ Op(i) = "LOAD" => m[i].stage = "MEM_ACCESS" /\ m[i].lsq = "PENDING_CACHE_DISPATCH"
      /\ Op(i) = "STORE" => m[i].stage = "COMPLETE" /\ m[i].lsq = "COMPLETE"
      /\ ld # NoIns => ld \in Ids /\ ld # i /\ m[ld].memViolation
  BY <1>1, MarkedTable
<1> HIDE DEF m, ld
<1>4. \A j \in Ids : table[j].memViolation => m[j].memViolation
  <2> TAKE j \in Ids
  <2>1. CASE j = ld
    BY <2>1, <1>1, <1>3
  <2>2. CASE j # ld
    BY <2>2, <1>3
  <2> QED BY <2>1, <2>2
<1>6. Processed(m, W \cup {i})
  <2>1. \A j \in Ids :
           /\ m[j].cacheAxes = ins[j].cacheAxes
           /\ m[j].overtook = ins[j].overtook
           /\ ins[j].memViolation => m[j].memViolation
    BY <1>3, <1>4 DEF Processed
  <2>2. ASSUME NEW j \in Ids \ (W \cup {i})
        PROVE  m[j].stage = ins[j].stage /\ m[j].lsq = ins[j].lsq
    BY <1>3 DEF Processed
  <2>3. ASSUME NEW j \in W \cup {i}
        PROVE /\ Op(j) = "ALU" => m[j].stage = "COMPLETE"
              /\ Op(j) = "LOAD" => /\ m[j].stage = "MEM_ACCESS"
                                   /\ m[j].lsq = "PENDING_CACHE_DISPATCH"
              /\ Op(j) = "STORE" => m[j].stage = "COMPLETE" /\ m[j].lsq = "COMPLETE"
    <3>1. CASE j = i
      BY <3>1, <1>3
    <3>2. CASE j # i
      <4>1. j \in W /\ j \in Ids
        BY <3>2, <1>1
      <4>2. m[j].stage = table[j].stage /\ m[j].lsq = table[j].lsq
        BY <3>2, <4>1, <1>3
      <4> QED BY <4>1, <4>2 DEF Processed
    <3> QED BY <3>1, <3>2
  <2>4. ASSUME NEW j \in Ids, m[j].memViolation
        PROVE  \/ ins[j].memViolation
               \/ j \in Elements(LQ) /\ ins[j].lsq = "COMPLETE" /\ j \notin Units
    <3>1. CASE j = ld
      <4>1. ld # NoIns
        BY <3>1, <1>1
      <4> QED BY <3>1, <4>1, <1>2
    <3>2. CASE j # ld
      BY <3>2, <2>4, <1>3 DEF Processed
    <3> QED BY <3>1, <3>2
  <2> QED BY <2>1, <2>2, <2>3, <2>4 DEF Processed
<1>7. ~m[i].memViolation
  BY <1>1, <1>2, <1>6 DEF Processed
<1>8. m[i].stage \in {"MEM_ACCESS", "COMPLETE"}
  BY <1>1, <1>3
<1>9. ASSUME NEW j \in Dispatched, DetectedIn(table, j) PROVE DetectedIn(m, j)
  <2>1. j \in Ids /\ (table[j].memViolation => m[j].memViolation)
    BY <1>1, <1>4
  <2>2. CASE j = i
    BY <1>9, <2>1, <2>2, <1>8 DEF DetectedIn
  <2>3. CASE j # i
    BY <1>9, <2>1, <2>3, <1>3 DEF DetectedIn
  <2> QED BY <2>2, <2>3
<1>10. ASSUME NEW j \in Dispatched, DetectedIn(m, j), j # ld
       PROVE  DetectedIn(table, j) \/ (j = i /\ WrongPath(i))
  BY <1>10, <1>1, <1>3 DEF DetectedIn
<1>11. \A j \in Dispatched : DetectedIn(m, j) =>
         DetectedIn(table, j) \/ (j = i /\ WrongPath(i)) \/ (j = ld /\ ld # NoIns)
  <2> TAKE j \in Dispatched
  <2>1. j \in Ids /\ j # NoIns
    BY <1>1
  <2> QED BY <2>1, <1>10
<1>12. WrongPath(i) => DetectedIn(m, i)
  BY <1>8 DEF DetectedIn
<1>13. ld # NoIns => DetectedIn(m, ld) /\ m[ld].memViolation
  BY <1>3 DEF DetectedIn
<1> QED BY <1>1, <1>3, <1>4, <1>6, <1>7, <1>9, <1>11, <1>12, <1>13 DEF m, ld

LEMMA BlocksUnit ==
  ASSUME IInv, NEW acc \in AccState, NEW W \in SUBSET Units, NEW i \in Units, i \notin W,
         Processed(acc.ins, W), BlocksProcessed(acc, W),
         NEW c, c.ins = Marked(acc.ins, i), c.blk = MarkedBlocks(acc, i)
  PROVE  BlocksProcessed(c, W \cup {i})
<1> DEFINE table == acc.ins
           old == acc.blk
           m == Marked(table, i)
           t == MarkedBlocks(acc, i)
           ld == Load(table, i)
<1>1. TypeOK /\ Ids \in SUBSET Nat /\ NoIns \notin Ids /\ i \in Ids
      /\ (\A j \in W : j \in Ids) /\ Dispatched \subseteq Ids
      /\ \A j \in Ids : BB(j) \in Blocks
  <2>1. TypeOK /\ i \in Ids /\ \A j \in W : j \in Ids
    BY ElementTypes DEF IInv
  <2> QED BY <2>1, Numbers, Flight
<1>2. table \in [Ids -> InsState] /\ old \in [Blocks -> BlkState] /\ blk \in [Blocks -> BlkState]
  BY <1>1, Tables DEF AccState
<1>3. \A b \in Blocks :
        /\ t[b].completed = old[b].completed + NewIn({i} \ LoadIds, b)
        /\ t[b].fetched = old[b].fetched
        /\ t[b].doneFetch = old[b].doneFetch
        /\ t[b].permit = old[b].permit
        /\ t[b].memViolation <=> old[b].memViolation \/ (ld # NoIns /\ b = BB(ld))
  BY <1>1, MarkedBlocksTable
<1>4. ld # NoIns => ld \in Dispatched /\ BB(ld) \in Fetched /\ blk[BB(ld)].permit
  BY <1>2, Revealed
<1>5. \A j \in Ids : j # ld => m[j].memViolation = table[j].memViolation
  BY <1>2, CompleteProcessed
<1> HIDE DEF m, t, ld
<1>6. \A b \in Blocks :
         /\ old[b].completed = blk[b].completed + NewIn(W \ LoadIds, b)
         /\ old[b].fetched = blk[b].fetched
         /\ old[b].doneFetch = blk[b].doneFetch
         /\ old[b].permit = blk[b].permit
         /\ old[b].memViolation =>
              blk[b].memViolation \/ (b \in Fetched /\ blk[b].permit)
         /\ blk[b].memViolation => old[b].memViolation
  BY DEF BlocksProcessed
<1>7. \A j \in Dispatched : table[j].memViolation => old[BB(j)].memViolation
  BY DEF BlocksProcessed
<1> HIDE DEF table, old
<1>8. ASSUME NEW b \in Blocks
      PROVE  /\ t[b].completed = blk[b].completed + NewIn((W \cup {i}) \ LoadIds, b)
             /\ t[b].fetched = blk[b].fetched
             /\ t[b].doneFetch = blk[b].doneFetch
             /\ t[b].permit = blk[b].permit
             /\ t[b].memViolation =>
                  blk[b].memViolation \/ (b \in Fetched /\ blk[b].permit)
             /\ blk[b].memViolation => t[b].memViolation
  <2>1. t[b].completed = blk[b].completed + NewIn((W \cup {i}) \ LoadIds, b)
    <3>1. /\ NewIn((W \cup {i}) \ LoadIds, b)
               = NewIn(W \ LoadIds, b) + NewIn({i} \ LoadIds, b)
          /\ NewIn(W \ LoadIds, b) \in Nat /\ NewIn({i} \ LoadIds, b) \in Nat
      BY <1>1, OneMore
    <3>2. t[b].completed = (blk[b].completed + NewIn(W \ LoadIds, b)) + NewIn({i} \ LoadIds, b)
      BY <1>3, <1>6
    <3>3. blk[b].completed \in Nat
      BY <1>2 DEF BlkState
    <3> QED BY <3>1, <3>2, <3>3
  <2>2. t[b].fetched = blk[b].fetched /\ t[b].doneFetch = blk[b].doneFetch
        /\ t[b].permit = blk[b].permit
    BY <1>3, <1>6
  <2>3. /\ t[b].memViolation => blk[b].memViolation \/ (b \in Fetched /\ blk[b].permit)
        /\ blk[b].memViolation => t[b].memViolation
    BY <1>3, <1>4, <1>6
  <2> QED BY <2>1, <2>2, <2>3
<1>9. ASSUME NEW j \in Dispatched, m[j].memViolation PROVE t[BB(j)].memViolation
  <2>1. j \in Ids /\ BB(j) \in Blocks /\ j # NoIns
    BY <1>1
  <2>2. CASE j = ld
    BY <2>1, <2>2, <1>3
  <2>3. CASE j # ld
    BY <2>1, <2>3, <1>3, <1>5, <1>7, <1>9
  <2> QED BY <2>2, <2>3
<1>10. c.ins = m /\ c.blk = t
  BY DEF m, t, table
<1> QED BY <1>8, <1>9, <1>10 DEF BlocksProcessed

(* Whose block the culprit precedes. *)
LEMMA OlderCulprit ==
  ASSUME TypeOK, NEW bad \in Ids \cup {NoIns}, NEW j \in Ids
  PROVE  /\ Older(bad, j) => bad = NoIns \/ BB(j) <= BB(bad)
         /\ ~Older(bad, j) => bad # NoIns /\ BB(bad) <= BB(j)
<1>1. CASE bad = NoIns
  BY <1>1 DEF Older, NoIns
<1>2. CASE bad \in Ids
  <2>1. /\ BB(bad) \in Nat /\ BB(j) \in Nat /\ bad \in Nat /\ j \in Nat
        /\ bad < BBheadID(BB(j)) <=> BB(bad) < BB(j)
        /\ BBheadID(BB(j)) \in Nat /\ BBheadID(BB(j)) <= j
        /\ bad <= j => BB(bad) <= BB(j)
    BY <1>2, BlockOrder
  <2>2. bad # NoIns
    BY <1>2, Numbers
  <2> QED BY <2>1, <2>2 DEF Older, NoIns
<1> QED BY <1>1, <1>2

LEMMA KeepsUnit ==
  ASSUME IInv, NEW acc \in AccState, NEW W \in SUBSET Units, NEW i \in Units,
         Processed(acc.ins, W), KeepsOldest(acc)
  PROVE  KeepsOldest(completeUnit(acc, i))
<1> DEFINE table == acc.ins
           m == Marked(table, i)
           ld == Load(table, i)
           u == After(acc, i)
           c == completeUnit(acc, i)
           bad == acc.badInsID
<1> SUFFICES KeepsOldest(c)
  OBVIOUS
<1>1. TypeOK /\ Ids \in SUBSET Nat /\ NoIns \notin Ids /\ i \in Ids /\ Dispatched \subseteq Ids
      /\ (\A j \in Ids : BB(j) \in Nat) /\ bad \in Ids \cup {NoIns}
      /\ table \in [Ids -> InsState]
  <2>1. TypeOK /\ i \in Ids
    BY ElementTypes DEF IInv
  <2>2. bad \in Ids \cup {NoIns} /\ table \in [Ids -> InsState]
    BY DEF AccState
  <2>3. Blocks \in SUBSET Nat /\ \A j \in Ids : BB(j) \in Blocks
    BY <2>1, Numbers
  <2> QED BY <2>1, <2>2, <2>3, Numbers, Flight
<1>2. /\ i \in Dispatched
      /\ ld # NoIns => i \in StoreIds /\ ld \in Dispatched /\ ld \in Ids
  <2>1. i \in Dispatched /\ (ld # NoIns => i \in StoreIds /\ ld \in Dispatched)
    BY <1>1, Revealed
  <2> HIDE DEF ld
  <2> QED BY <1>1, <2>1
<1>3. /\ ~m[i].memViolation
      /\ \A j \in Dispatched : DetectedIn(table, j) => DetectedIn(m, j)
      /\ \A j \in Dispatched : DetectedIn(m, j) =>
           DetectedIn(table, j) \/ (j = i /\ WrongPath(i)) \/ (j = ld /\ ld # NoIns)
      /\ WrongPath(i) => DetectedIn(m, i)
      /\ ld # NoIns => DetectedIn(m, ld) /\ m[ld].memViolation
      /\ \A j \in Dispatched : table[j].memViolation => m[j].memViolation
  BY <1>1, CompleteProcessed
<1>4. /\ u \in AccState /\ u.ins = m /\ u.bad = acc.bad /\ u.type = acc.type /\ u.badInsID = bad
  BY <1>1, AfterFields
<1>5. c = IF ld # NoIns /\ Older(bad, ld) THEN Blamed(u, ld, "MEM_MISPRED")
          ELSE IF (WrongPath(i) \/ m[i].memViolation) /\ Older(bad, i)
          THEN Blamed(u, i, "BP_MISPRED")
          ELSE u
  BY UnitResult
<1> HIDE DEF m, ld, u, c
<1>b. \A j \in Ids, kind \in {"BP_MISPRED", "MEM_MISPRED"} :
        LET v == Blamed(u, j, kind)
        IN v.ins = m /\ v.bad = j /\ v.badInsID = j /\ v.type = kind
  <2>1. \A j \in Ids, kind \in {"BP_MISPRED", "MEM_MISPRED"} :
          LET v == Blamed(u, j, kind)
          IN v.ins = u.ins /\ v.bad = j /\ v.badInsID = j /\ v.type = kind
    BY <1>4, AccFields
  <2> QED BY <2>1, <1>4
<1>6. /\ \A j \in Dispatched : DetectedIn(table, j) => bad # NoIns /\ Precedes(bad, j)
      /\ \/ /\ acc.bad = NoIns /\ acc.type = squashType
            /\ bad = IF pipe = "NORMAL" THEN 0 ELSE badInsID
         \/ /\ acc.bad = bad /\ bad \in Dispatched /\ DetectedIn(table, bad)
            /\ \/ acc.type = "BP_MISPRED" /\ WrongPath(bad)
               \/ acc.type = "MEM_MISPRED" /\ table[bad].memViolation
            /\ pipe # "NORMAL" => BB(bad) <= squashBB
  BY DEF KeepsOldest
<1>7. pipe # "NORMAL" => bad \in Ids /\ BB(bad) <= squashBB /\ squashBB \in Nat
  <2> SUFFICES ASSUME pipe # "NORMAL"
               PROVE bad \in Ids /\ BB(bad) <= squashBB /\ squashBB \in Nat
    OBVIOUS
  <2>1. badInsID \in Ids
    BY DEF IInv, Squashing
  <2>2. squashBB = BB(badInsID) /\ squashBB \in Nat
    BY <2>1, <1>1 DEF squashBB
  <2>3. CASE bad = badInsID
    BY <2>1, <2>2, <2>3
  <2>4. CASE bad \in Dispatched /\ BB(bad) <= squashBB
    BY <2>2, <2>4, <1>1
  <2> QED BY <2>3, <2>4, <1>6
<1> HIDE DEF table, bad
(* What a culprit of a block no younger than the known one precedes. *)
<1>8. ASSUME NEW x \in Dispatched, Older(bad, x)
      PROVE  /\ \A j \in Dispatched : DetectedIn(table, j) => Precedes(x, j)
             /\ pipe # "NORMAL" => BB(x) <= squashBB
             /\ x # NoIns
  <2>1. bad = NoIns \/ BB(x) <= BB(bad)
    BY <1>1, <1>8, OlderCulprit
  <2>2. x \in Ids /\ BB(x) \in Nat
    BY <1>1
  <2>3. ASSUME NEW j \in Dispatched, DetectedIn(table, j) PROVE Precedes(x, j)
    <3>1. bad # NoIns /\ Precedes(bad, j) /\ BB(j) \in Nat /\ BB(bad) \in Nat
      BY <1>1, <1>6, <2>3
    <3> QED BY <2>1, <2>2, <3>1 DEF Precedes
  <2>4. pipe # "NORMAL" => BB(x) <= squashBB
    <3>1. pipe # "NORMAL" => bad # NoIns /\ BB(bad) \in Nat
      BY <1>1, <1>7
    <3> QED BY <2>1, <2>2, <3>1, <1>7
  <2> QED BY <2>2, <2>3, <2>4, <1>1
<1>9. CASE ld # NoIns /\ Older(bad, ld)
  <2>1. c.ins = m /\ c.bad = ld /\ c.badInsID = ld /\ c.type = "MEM_MISPRED"
    <3>1. c = Blamed(u, ld, "MEM_MISPRED")
      BY <1>5, <1>9
    <3> QED BY <3>1, <1>2, <1>9, <1>b
  <2>2. \A j \in Dispatched : DetectedIn(m, j) => ld # NoIns /\ Precedes(ld, j)
    <3> TAKE j \in Dispatched
    <3>1. DetectedIn(table, j) => Precedes(ld, j)
      BY <1>2, <1>8, <1>9
    <3>2. j = i /\ WrongPath(i) => Precedes(ld, j)
      BY <1>2, <1>9 DEF Precedes
    <3>3. j = ld => Precedes(ld, j)
      BY <1>1 DEF Precedes
    <3> QED BY <3>1, <3>2, <3>3, <1>3, <1>9
  <2>3. pipe # "NORMAL" => BB(ld) <= squashBB
    BY <1>2, <1>8, <1>9
  <2>4. ld \in Dispatched /\ DetectedIn(m, ld) /\ m[ld].memViolation
    BY <1>2, <1>3, <1>9
  <2> QED BY <2>1, <2>2, <2>3, <2>4 DEF KeepsOldest
<1>10. CASE ~(ld # NoIns /\ Older(bad, ld)) /\ WrongPath(i) /\ Older(bad, i)
  <2>1. c.ins = m /\ c.bad = i /\ c.badInsID = i /\ c.type = "BP_MISPRED"
    <3>1. c = Blamed(u, i, "BP_MISPRED")
      BY <1>5, <1>10
    <3> QED BY <3>1, <1>1, <1>b
  <2>2. \A j \in Dispatched : DetectedIn(m, j) => i # NoIns /\ Precedes(i, j)
    <3> TAKE j \in Dispatched
    <3>1. DetectedIn(table, j) => Precedes(i, j)
      BY <1>2, <1>8, <1>10
    <3>2. j = i => Precedes(i, j)
      BY <1>1 DEF Precedes
    <3>3. j = ld /\ ld # NoIns => Precedes(i, j)
      <4> SUFFICES ASSUME j = ld, ld # NoIns PROVE Precedes(i, ld)
        OBVIOUS
      <4>1. bad # NoIns /\ BB(bad) <= BB(ld)
        BY <1>1, <1>2, <1>10, OlderCulprit
      <4>2. BB(i) <= BB(bad)
        BY <4>1, <1>1, <1>10, OlderCulprit
      <4>3. BB(i) \in Nat /\ BB(bad) \in Nat /\ BB(ld) \in Nat
        BY <4>1, <1>1, <1>2
      <4> QED BY <4>1, <4>2, <4>3 DEF Precedes
    <3> QED BY <3>1, <3>2, <3>3, <1>1, <1>3
  <2>3. pipe # "NORMAL" => BB(i) <= squashBB
    BY <1>2, <1>8, <1>10
  <2> QED BY <2>1, <2>2, <2>3, <1>2, <1>3, <1>10 DEF KeepsOldest
<1>11. CASE ~(ld # NoIns /\ Older(bad, ld)) /\ ~(WrongPath(i) /\ Older(bad, i))
  <2>1. c.ins = m /\ c.bad = acc.bad /\ c.badInsID = bad /\ c.type = acc.type
    <3>1. c = u
      BY <1>3, <1>5, <1>11
    <3> QED BY <3>1, <1>4
  <2>2. \A j \in Dispatched : DetectedIn(m, j) => bad # NoIns /\ Precedes(bad, j)
    <3> TAKE j \in Dispatched
    <3>1. DetectedIn(table, j) => bad # NoIns /\ Precedes(bad, j)
      BY <1>6
    <3>2. j = i /\ WrongPath(i) => bad # NoIns /\ Precedes(bad, j)
      BY <1>1, <1>11, OlderCulprit DEF Precedes
    <3>3. j = ld /\ ld # NoIns => bad # NoIns /\ Precedes(bad, j)
      BY <1>1, <1>2, <1>11, OlderCulprit DEF Precedes
    <3> QED BY <3>1, <3>2, <3>3, <1>3
  <2>3. /\ bad \in Dispatched /\ DetectedIn(table, bad) => DetectedIn(m, bad)
        /\ bad \in Dispatched /\ table[bad].memViolation => m[bad].memViolation
    BY <1>3
  <2>4. \/ /\ c.bad = NoIns /\ c.type = squashType
           /\ c.badInsID = IF pipe = "NORMAL" THEN 0 ELSE badInsID
        \/ /\ c.bad = c.badInsID /\ c.bad \in Dispatched
           /\ DetectedIn(c.ins, c.bad)
           /\ \/ c.type = "BP_MISPRED" /\ WrongPath(c.bad)
              \/ c.type = "MEM_MISPRED" /\ c.ins[c.bad].memViolation
           /\ pipe # "NORMAL" => BB(c.bad) <= squashBB
    BY <1>6, <2>1, <2>3
  <2> QED BY <2>1, <2>2, <2>4 DEF KeepsOldest
<1> QED BY <1>3, <1>9, <1>10, <1>11

(* The loop itself. *)
LEMMA CompleteSteps ==
  ASSUME IInv, NEW done \in SUBSET Units,
         NEW a \in AccState,
         a = [ins |-> ins, blk |-> blk, bad |-> NoIns, type |-> squashType,
              badInsID |-> IF pipe = "NORMAL" THEN 0 ELSE badInsID]
  PROVE  \E f \in [0 .. Width -> AccState] :
           /\ f[0] = a
           /\ \A e \in 1 .. Width :
                f[e] = IF EU[e] \in done THEN completeUnit(f[e - 1], EU[e]) ELSE f[e - 1]
           /\ completeIns(done) = f[Width]
<1> DEFINE N == Width
           Step == [p \in (1 .. N) \X AccState |->
                      IF EU[p[1]] \in done THEN completeUnit(p[2], EU[p[1]]) ELSE p[2]]
           Loop(f) == [e \in 0 .. N |->
                         IF e = 0 THEN a
                         ELSE IF EU[e] \in done THEN completeUnit(f[e - 1], EU[e])
                         ELSE f[e - 1]]
           after == CHOOSE f : f = Loop(f)
<1>0. N \in Nat /\ \A e \in 1 .. N : e - 1 \in 0 .. N /\ e # 0 /\ e \in 0 .. N
  BY SizesAssumption
<1>1. completeIns(done) = after[N]
  BY Zenon DEF completeIns
<1>t. TypeOK /\ done \subseteq Ids
  BY ElementTypes DEF IInv
<1> HIDE DEF N
<1>2. Step \in [(1 .. N) \X AccState -> AccState]
  <2>1. ASSUME NEW p \in (1 .. N) \X AccState
        PROVE  (IF EU[p[1]] \in done THEN completeUnit(p[2], EU[p[1]]) ELSE p[2]) \in AccState
    <3>1. p[2] \in AccState
      OBVIOUS
    <3>2. CASE EU[p[1]] \in done
      <4>1. EU[p[1]] \in Ids
        BY <3>2, <1>t
      <4>2. completeUnit(p[2], EU[p[1]]) \in AccState
        BY <4>1, <3>1, <1>t, CompleteUnitType
      <4> QED BY <3>2, <4>2
    <3> QED BY <3>1, <3>2
  <2> QED BY <2>1
<1>r. PICK f : Recursive(f, N, AccState, a, Step)
  <2> HIDE DEF Step
  <2> QED BY <1>0, <1>2, Recursion
<1>3. /\ f \in [0 .. N -> AccState]
      /\ f[0] = a /\ \A n \in 1 .. N : f[n] = Step[<<n, f[n - 1]>>]
  BY <1>r DEF Recursive
<1>4. ASSUME NEW e \in 1 .. N
      PROVE  f[e] = IF EU[e] \in done THEN completeUnit(f[e - 1], EU[e]) ELSE f[e - 1]
  <2>1. f[e - 1] \in AccState
    BY <1>0, <1>3
  <2>2. Step[<<e, f[e - 1]>>] =
          IF EU[e] \in done THEN completeUnit(f[e - 1], EU[e]) ELSE f[e - 1]
    BY <2>1
  <2> QED BY <2>2, <1>3
<1> HIDE DEF Step
<1>5. f = Loop(f)
  <2>1. \A n \in 0 .. N : f[n] = Loop(f)[n]
    <3> TAKE n \in 0 .. N
    <3>1. CASE n = 0
      BY <3>1, <1>3
    <3>2. CASE n # 0
      <4>1. n \in 1 .. N
        BY <3>2, <1>0
      <4> QED BY <4>1, <3>2, <1>4
    <3> QED BY <3>1, <3>2
  <2>2. f \in [0 .. N -> AccState] /\ DOMAIN Loop(f) = 0 .. N
    BY <1>3
  <2>3. Loop(f) = [n \in 0 .. N |-> Loop(f)[n]] /\ f = [n \in 0 .. N |-> f[n]]
    BY <2>2, Zenon
  <2> HIDE DEF Loop
  <2> QED BY <2>1, <2>3, Zenon
<1>6. after = Loop(after)
  <2> HIDE DEF Loop
  <2> QED BY <1>5, Zenon
<1> HIDE DEF after
<1>7. /\ after[0] = a
      /\ \A e \in 1 .. N : after[e] = IF EU[e] \in done
                                      THEN completeUnit(after[e - 1], EU[e])
                                      ELSE after[e - 1]
  <2>1. \A e \in 0 .. N : after[e] = IF e = 0 THEN a
                                     ELSE IF EU[e] \in done
                                     THEN completeUnit(after[e - 1], EU[e])
                                     ELSE after[e - 1]
    BY <1>6
  <2>2. after[0] = a
    BY <2>1, <1>0
  <2>3. \A e \in 1 .. N : after[e] = IF EU[e] \in done
                                     THEN completeUnit(after[e - 1], EU[e])
                                     ELSE after[e - 1]
    BY <2>1, <1>0
  <2> QED BY <2>2, <2>3
<1>8. \A e \in 0 .. N : after[e] = f[e]
  <2> DEFINE G == {e \in 0 .. N : after[e] = f[e]}
  <2>1. 0 \in G
    BY <1>0, <1>3, <1>7
  <2>2. ASSUME NEW e \in 1 .. N, e - 1 \in G PROVE e \in G
    BY <2>2, <1>0, <1>4, <1>7
  <2>3. \A e \in 0 .. N : e \in G
    <3> HIDE DEF G
    <3> QED BY <1>0, <2>1, <2>2, UpTo
  <2> QED BY <2>3
<1>9. completeIns(done) = f[N]
  BY <1>0, <1>1, <1>8
<1> QED BY <1>3, <1>4, <1>9 DEF N

(* What the loop keeps, unit by unit. *)
Kept(acc, W) == Processed(acc.ins, W) /\ BlocksProcessed(acc, W) /\ KeepsOldest(acc)

LEMMA CompleteUnit ==
  ASSUME IInv, NEW acc \in AccState, NEW W \in SUBSET Units, NEW i \in Units, i \notin W,
         Kept(acc, W)
  PROVE  Kept(completeUnit(acc, i), W \cup {i})
<1> DEFINE c == completeUnit(acc, i)
           u == After(acc, i)
           ld == Load(acc.ins, i)
<1>1. TypeOK /\ i \in Ids
  BY ElementTypes DEF IInv
<1>2. acc.ins \in [Ids -> InsState] /\ Processed(acc.ins, W) /\ BlocksProcessed(acc, W)
      /\ KeepsOldest(acc)
  BY DEF AccState, Kept
<1>3. u \in AccState /\ u.ins = Marked(acc.ins, i) /\ u.blk = MarkedBlocks(acc, i)
  BY <1>1, AfterFields
<1>4. ld # NoIns => ld \in Ids
  BY <1>1, <1>2, MarkedTable
<1>5. \/ c \in {Blamed(u, i, "BP_MISPRED"), u}
      \/ ld # NoIns /\ c = Blamed(u, ld, "MEM_MISPRED")
  BY UnitResult
<1> HIDE DEF u, ld
<1>6. \A j \in Ids, kind \in {"BP_MISPRED", "MEM_MISPRED"} :
        Blamed(u, j, kind).ins = u.ins /\ Blamed(u, j, kind).blk = u.blk
  BY <1>3, AccFields
<1>7. KeepsOldest(c)
  BY <1>2, KeepsUnit
<1>9. Processed(Marked(acc.ins, i), W \cup {i})
  BY <1>2, CompleteProcessed
<1> HIDE DEF c
<1>8. c.ins = Marked(acc.ins, i) /\ c.blk = MarkedBlocks(acc, i)
  BY <1>1, <1>3, <1>4, <1>5, <1>6
<1>10. BlocksProcessed(c, W \cup {i})
  BY <1>2, <1>8, BlocksUnit
<1>11. Kept(c, W \cup {i})
  BY <1>7, <1>8, <1>9, <1>10 DEF Kept
<1> QED BY <1>11 DEF c

LEMMA CompleteResult ==
  ASSUME IInv, NEW done \in SUBSET Units
  PROVE  LET c == completeIns(done)
         IN c \in AccState /\ Kept(c, done)
<1> DEFINE a == [ins |-> ins, blk |-> blk, bad |-> NoIns, type |-> squashType,
                 badInsID |-> IF pipe = "NORMAL" THEN 0 ELSE badInsID]
<1>1. TypeOK /\ Ids \in SUBSET Nat /\ Width \in Nat /\ EU \in [1 .. Width -> Ids \cup {NoIns}]
      /\ Dispatched \subseteq Ids /\ Units \subseteq Ids /\ NoIns \notin Ids
      /\ \A i \in Ids : BB(i) \in Blocks
  <2>1. TypeOK /\ Width \in Nat
    BY SizesAssumption DEF IInv
  <2> QED BY <2>1, Numbers, Flight, ElementTypes, UnitsType
<1>2. ins \in [Ids -> InsState] /\ blk \in [Blocks -> BlkState]
  BY <1>1, Tables
<1>3. a \in AccState
  <2>1. squashType \in {"NO_MISPRED", "BP_MISPRED", "MEM_MISPRED"} /\ badInsID \in Ids \cup {0}
    BY <1>1 DEF TypeOK
  <2> QED BY <1>2, <2>1 DEF AccState, NoIns
<1>4. /\ a.ins = ins /\ a.blk = blk /\ a.bad = NoIns /\ a.type = squashType
      /\ a.badInsID = IF pipe = "NORMAL" THEN 0 ELSE badInsID
  OBVIOUS
<1>5. PICK f \in [0 .. Width -> AccState] :
           /\ f[0] = a
           /\ \A e \in 1 .. Width :
                f[e] = IF EU[e] \in done THEN completeUnit(f[e - 1], EU[e]) ELSE f[e - 1]
           /\ completeIns(done) = f[Width]
  BY <1>3, CompleteSteps
<1> HIDE DEF a
<1>6. Kept(a, {})
  <2>1. Processed(a.ins, {})
    BY <1>4 DEF Processed
  <2>2. BlocksProcessed(a, {})
    <3>1. ASSUME NEW b \in Blocks PROVE blk[b].completed = blk[b].completed + NewIn({} \ LoadIds, b)
      <4>1. {i \in {} \ LoadIds : BB(i) = b} = {}
        OBVIOUS
      <4>2. Cardinality({}) = 0
        BY FS_EmptySet
      <4>3. NewIn({} \ LoadIds, b) = 0
        BY <4>1, <4>2 DEF NewIn
      <4>4. blk[b].completed \in Nat
        BY <1>2 DEF BlkState
      <4> QED BY <4>3, <4>4
    <3>2. \A i \in Dispatched : ins[i].memViolation => blk[BB(i)].memViolation
      BY DEF IInv, Stages
    <3> QED BY <3>1, <3>2, <1>4 DEF BlocksProcessed
  <2>3. KeepsOldest(a)
    <3>1. ASSUME NEW i \in Dispatched, DetectedIn(ins, i)
          PROVE  a.badInsID # NoIns /\ Precedes(a.badInsID, i)
      <4>1. pipe # "NORMAL" /\ (squashBB <= BB(i) \/ (WrongPath(i) /\ i \in StoreIds))
        BY <3>1 DEF IInv, Squashing, Detected, DetectedIn
      <4>2. badInsID \in Ids
        BY <4>1 DEF IInv, Squashing
      <4> QED BY <4>1, <4>2, <1>1, <1>4 DEF Precedes, squashBB
    <3> QED BY <3>1, <1>4 DEF KeepsOldest
  <2> QED BY <2>1, <2>2, <2>3 DEF Kept
<1> DEFINE W(e) == {EU[d] : d \in 1 .. e} \cap done
           G == {e \in 0 .. Width : Kept(f[e], W(e))}
<1>7. 0 \in G
  <2>1. W(0) = {}
    OBVIOUS
  <2> HIDE DEF W
  <2>2. Kept(f[0], W(0))
    BY <2>1, <1>5, <1>6
  <2> QED BY <2>2, <1>1
<1>8. ASSUME NEW e \in 1 .. Width, e - 1 \in G PROVE e \in G
  <2>1. e \in 0 .. Width /\ e - 1 \in 0 .. Width /\ 1 .. e = (1 .. e - 1) \cup {e}
        /\ \A d \in 1 .. e - 1 : d \in 1 .. Width /\ d # e
    BY <1>1
  <2>2. f[e - 1] \in AccState /\ Kept(f[e - 1], W(e - 1))
    BY <1>5, <1>8, <2>1
  <2>3. {EU[d] : d \in 1 .. e} = {EU[d] : d \in 1 .. e - 1} \cup {EU[e]}
    BY <2>1
  <2>4. CASE EU[e] \in done
    <3>1. f[e] = completeUnit(f[e - 1], EU[e])
      BY <2>4, <1>5
    <3>2. W(e) = W(e - 1) \cup {EU[e]}
      BY <2>3, <2>4
    <3>3. W(e - 1) \in SUBSET Units /\ EU[e] \in Units
      BY <2>4
    <3>4. EU[e] \notin W(e - 1)
      <4>1. \A d, g \in 1 .. Width : EU[d] = EU[g] /\ EU[d] # NoIns => d = g
        BY DEF IInv, InOrder
      <4>2. EU[e] # NoIns
        BY <3>3, <1>1
      <4> QED BY <4>1, <4>2, <2>1
    <3> HIDE DEF W
    <3>5. Kept(f[e], W(e - 1) \cup {EU[e]})
      BY <2>2, <3>1, <3>3, <3>4, CompleteUnit
    <3> QED BY <2>1, <3>2, <3>5
  <2>5. CASE EU[e] \notin done
    <3>1. f[e] = f[e - 1]
      BY <2>5, <1>5
    <3>2. W(e) = W(e - 1)
      BY <2>3, <2>5
    <3> QED BY <2>1, <2>2, <3>1, <3>2
  <2> QED BY <2>4, <2>5
<1>9. Width \in G
  <2>1. \A e \in 0 .. Width : e \in G
    <3> HIDE DEF G
    <3> QED BY <1>1, <1>7, <1>8, UpTo
  <2> HIDE DEF G
  <2> QED BY <2>1, <1>1
<1>10. W(Width) = done
  <2>1. \A i \in Units : \E e \in 1 .. Width : i = EU[e]
    <3>1. Len(EU) = Width
      BY <1>1
    <3> QED BY <3>1 DEF Units, Elements
  <2> QED BY <2>1
<1>11. f[Width] \in AccState
  BY <1>1, <1>5
<1> QED BY <1>5, <1>9, <1>10, <1>11

(* Every number up to that of its members is the rank of one member. *)
Ranked(S) ==
    /\ Cardinality(S) \in Nat
    /\ \A e \in S : Rank(S, e) \in Nat \ {0}
    /\ \A n \in 1 .. Cardinality(S) : \E e \in S : Rank(S, e) = n

LEMMA RankOf ==
  ASSUME NEW N \in Nat, NEW S \in SUBSET (1 .. N)
  PROVE  Ranked(S)
BY Ranks, Zenon DEF Rank, Ranked

(* Different members of a set of numbers have different ranks. *)
LEMMA RanksDiffer ==
  ASSUME NEW N \in Nat, NEW S \in SUBSET (1 .. N), NEW d \in S, NEW e \in S, d < e
  PROVE  Rank(S, d) < Rank(S, e)
<1> DEFINE A == {f \in S : f <= d}
           B == {f \in S : f <= e}
<1>1. IsFiniteSet(1 .. N)
  BY FS_Interval
<1>0. d \in Nat /\ e \in Nat /\ \A f \in S : f \in Nat /\ f \in 1 .. N
  OBVIOUS
<1>2. A \subseteq B /\ B \subseteq 1 .. N /\ e \in B /\ e \notin A
  <2>1. \A f \in S : f <= d => f <= e
    BY <1>0
  <2>2. e <= e /\ ~(e <= d)
    BY <1>0
  <2> QED BY <1>0, <2>1, <2>2
<1> HIDE DEF A, B
<1>3. IsFiniteSet(B) /\ IsFiniteSet(A)
  BY <1>1, <1>2, FS_Subset
<1>4. Cardinality(A) <= Cardinality(B) /\ (Cardinality(B) = Cardinality(A) => B = A)
  BY <1>2, <1>3, FS_Subset
<1>5. Cardinality(A) \in Nat /\ Cardinality(B) \in Nat
  BY <1>3, FS_CardinalityType
<1>6. Cardinality(A) < Cardinality(B)
  BY <1>2, <1>4, <1>5
<1> QED BY <1>6 DEF A, B, Rank

(* Free units take the instructions that leave the issue port, one each.   *)
LEMMA Issue ==
  ASSUME IInv, NEW done \in SUBSET Units, NEW next \in Seq(Ids), Distinct(next),
         Elements(next) \cap Units = {},
         LET units == [e \in 1 .. Width |-> IF EU[e] \in done THEN NoIns ELSE EU[e]]
             free == {e \in 1 .. Width : units[e] = NoIns}
             nth(e) == Cardinality({f \in free : f <= e})
         IN /\ Len(next) <= Cardinality(free)
            /\ EU' = [e \in 1 .. Width |-> IF e \in free /\ nth(e) <= Len(next)
                                           THEN next[nth(e)] ELSE units[e]]
  PROVE  /\ EU' \in [1 .. Width -> Ids \cup {NoIns}]
         /\ Units' = (Units \ done) \cup Elements(next)
         /\ \A d, e \in 1 .. Width : EU'[d] = EU'[e] /\ EU'[d] # NoIns => d = e
<1> DEFINE units == [e \in 1 .. Width |-> IF EU[e] \in done THEN NoIns ELSE EU[e]]
           free == {e \in 1 .. Width : units[e] = NoIns}
           nth(e) == Rank(free, e)
           k == Len(next)
<1>1. /\ Width \in Nat /\ EU \in [1 .. Width -> Ids \cup {NoIns}] /\ NoIns \notin Ids
      /\ k \in Nat
      /\ \A d, e \in 1 .. Width : EU[d] = EU[e] /\ EU[d] # NoIns => d = e
  <2>1. TypeOK /\ Width \in Nat
    BY SizesAssumption DEF IInv
  <2>2. \A d, e \in 1 .. Width : EU[d] = EU[e] /\ EU[d] # NoIns => d = e
    BY DEF IInv, InOrder
  <2>3. NoIns \notin Ids /\ EU \in [1 .. Width -> Ids \cup {NoIns}]
    BY <2>1, Numbers, UnitsType
  <2>4. k \in Nat
    OBVIOUS
  <2> QED BY <2>1, <2>2, <2>3, <2>4
<1>2. /\ k <= Cardinality(free)
      /\ EU' = [e \in 1 .. Width |-> IF e \in free /\ nth(e) <= k
                                     THEN next[nth(e)] ELSE units[e]]
  BY DEF Rank
<1>3. /\ Cardinality(free) \in Nat
      /\ \A e \in free : nth(e) \in Nat \ {0}
      /\ \A n \in 1 .. Cardinality(free) : \E e \in free : nth(e) = n
      /\ \A d, e \in free : d < e => nth(d) < nth(e)
  <2>1. free \in SUBSET (1 .. Width)
    OBVIOUS
  <2>w. Width \in Nat
    BY <1>1
  <2> HIDE DEF free
  <2>2. /\ Cardinality(free) \in Nat
        /\ \A e \in free : nth(e) \in Nat \ {0}
        /\ \A n \in 1 .. Cardinality(free) : \E e \in free : nth(e) = n
    <3>1. Ranked(free)
      BY <2>1, <2>w, RankOf, Zenon
    <3> QED BY <3>1 DEF Ranked
  <2>3. \A d, e \in free : d < e => nth(d) < nth(e)
    BY <2>1, <2>w, RanksDiffer, Zenon
  <2> QED BY <2>2, <2>3
<1>4. \A e \in 1 .. Width : units[e] \in Ids \cup {NoIns}
  BY <1>1
<1>5. free \subseteq 1 .. Width /\ \A e \in 1 .. Width : e \notin free <=> units[e] # NoIns
  OBVIOUS
<1>6. \A e \in 1 .. Width : units[e] = IF EU[e] \in done THEN NoIns ELSE EU[e]
  OBVIOUS
<1> HIDE DEF units, free, nth
<1>7. Elements(next) = {next[n] : n \in 1 .. k}
  BY DEF Elements
<1>8. \A n \in 1 .. k : next[n] \in Ids /\ next[n] \notin Units
  BY <1>7
<1> HIDE DEF k
<1>9. \A e \in 1 .. Width :
        /\ e \in free /\ nth(e) <= k => nth(e) \in 1 .. k /\ EU'[e] = next[nth(e)]
        /\ ~(e \in free /\ nth(e) <= k) => EU'[e] = units[e]
  <2> TAKE e \in 1 .. Width
  <2>1. EU'[e] = IF e \in free /\ nth(e) <= k THEN next[nth(e)] ELSE units[e]
    BY <1>2
  <2>2. e \in free /\ nth(e) <= k => nth(e) \in 1 .. k
    BY <1>1, <1>3
  <2> QED BY <2>1, <2>2
<1>10. EU' \in [1 .. Width -> Ids \cup {NoIns}]
  <2>1. \A e \in 1 .. Width : EU'[e] \in Ids \cup {NoIns}
    BY <1>4, <1>8, <1>9
  <2>2. EU' = [e \in 1 .. Width |-> EU'[e]]
    BY <1>2
  <2> QED BY <2>1, <2>2
<1>11. Units = {EU[e] : e \in 1 .. Width} \ {NoIns}
  <2>1. Len(EU) = Width
    BY <1>1
  <2> QED BY <2>1 DEF Units, Elements
<1>12. Units' = {EU'[e] : e \in 1 .. Width} \ {NoIns}
  <2>1. Len(EU') = Width
    BY <1>1, <1>10
  <2> QED BY <2>1 DEF Units, Elements
<1>13. ASSUME NEW i \in Units' PROVE i \in (Units \ done) \cup Elements(next)
  <2>1. PICK e \in 1 .. Width : i = EU'[e] /\ i # NoIns
    BY <1>12
  <2>2. CASE e \in free /\ nth(e) <= k
    BY <2>1, <2>2, <1>7, <1>9
  <2>3. CASE ~(e \in free /\ nth(e) <= k)
    BY <2>1, <2>3, <1>6, <1>9, <1>11
  <2> QED BY <2>2, <2>3
<1>14. ASSUME NEW i \in Units \ done PROVE i \in Units'
  <2>1. PICK e \in 1 .. Width : i = EU[e] /\ i # NoIns
    BY <1>11
  <2>2. units[e] = i /\ e \notin free
    BY <2>1, <1>5, <1>6
  <2> QED BY <2>1, <2>2, <1>9, <1>12
<1>15. ASSUME NEW i \in Elements(next) PROVE i \in Units'
  <2>1. PICK n \in 1 .. k : i = next[n]
    BY <1>7
  <2>2. n \in 1 .. Cardinality(free)
    BY <1>1, <1>2, <1>3
  <2>3. PICK e \in free : nth(e) = n
    BY <2>2, <1>3
  <2>4. EU'[e] = i /\ i # NoIns /\ e \in 1 .. Width
    <3>1. e \in 1 .. Width /\ nth(e) <= k /\ n \in Nat
      BY <2>3, <1>1, <1>5
    <3>2. EU'[e] = next[n]
      BY <3>1, <2>3, <1>9
    <3>3. i \in Ids
      BY <2>1, <1>8
    <3> QED BY <3>1, <3>2, <3>3, <2>1, <1>1
  <2> QED BY <2>4, <1>12
(* No two units have the same instruction: neither kept nor taken. *)
<1>16. ASSUME NEW d \in 1 .. Width, NEW e \in 1 .. Width, EU'[d] = EU'[e], EU'[d] # NoIns
       PROVE  d = e
  <2>1. \A f \in 1 .. Width : ~(f \in free /\ nth(f) <= k) /\ EU'[f] # NoIns =>
          EU'[f] = EU[f] /\ EU'[f] \in Units
    BY <1>5, <1>6, <1>9, <1>11
  <2>2. \A f \in 1 .. Width : f \in free /\ nth(f) <= k => EU'[f] \notin Units
    BY <1>8, <1>9
  <2>3. CASE (d \in free /\ nth(d) <= k) /\ (e \in free /\ nth(e) <= k)
    <3>1. nth(d) \in 1 .. k /\ nth(e) \in 1 .. k /\ next[nth(d)] = next[nth(e)]
      BY <2>3, <1>9, <1>16
    <3>2. nth(d) = nth(e)
      BY <3>1 DEF Distinct, k
    <3>3. ~(d < e) /\ ~(e < d)
      BY <3>1, <3>2, <2>3, <1>1, <1>3
    <3> QED BY <3>3, <1>1
  <2>4. CASE ~(d \in free /\ nth(d) <= k) /\ ~(e \in free /\ nth(e) <= k)
    BY <2>1, <2>4, <1>1, <1>16
  <2>5. CASE (d \in free /\ nth(d) <= k) /\ ~(e \in free /\ nth(e) <= k)
    BY <2>1, <2>2, <2>5, <1>16
  <2>6. CASE ~(d \in free /\ nth(d) <= k) /\ (e \in free /\ nth(e) <= k)
    BY <2>1, <2>2, <2>6, <1>16
  <2> QED BY <2>3, <2>4, <2>5, <2>6
<1> QED BY <1>10, <1>13, <1>14, <1>15, <1>16

-----------------------------------------------------------------------------
(* The squash state machine, given what the loop is left with. *)

LEMMA NewSquashNumber ==
  ASSUME IInv, NEW c \in AccState, KeepsOldest(c)
  PROVE  /\ c.bad = NoIns => setSquashSN(c.bad) = squashSN
         /\ c.bad # NoIns =>
              /\ c.bad = c.badInsID /\ c.bad \in Dispatched
              /\ setSquashSN(c.bad) = BBheadID(BB(c.badInsID))
              /\ setSquashSN(c.bad) # 0
              /\ pipe # "NORMAL" => setSquashSN(c.bad) <= squashSN
              /\ pipe # "NORMAL" /\ setSquashSN(c.bad) = squashSN => BB(c.bad) = squashBB
<1>1. CASE c.bad = NoIns
  BY <1>1 DEF setSquashSN
<1>2. CASE c.bad # NoIns
  <2>1. /\ c.bad = c.badInsID /\ c.bad \in Dispatched
        /\ pipe # "NORMAL" => BB(c.bad) <= squashBB
    BY <1>2 DEF KeepsOldest
  <2>2. TypeOK /\ Ids \in SUBSET Nat /\ NoIns \notin Ids /\ c.bad \in Ids
    BY <2>1, Numbers, Flight DEF IInv
  <2>3. /\ pipe = "NORMAL" => squashSN = 0
        /\ pipe # "NORMAL" => badInsID \in Ids /\ squashSN = BBheadID(squashBB)
    BY DEF IInv, Squashing
  <2> DEFINE h == BBheadID(BB(c.bad))
  <2>4. h \in Ids /\ h \in Nat /\ h # 0
    BY <2>2, BlockOrder DEF NoIns
  <2>5. CASE pipe = "NORMAL"
    BY <2>1, <2>3, <2>4, <2>5, <1>2 DEF setSquashSN
  <2>6. CASE pipe # "NORMAL"
    <3>1. /\ BB(c.bad) \in Nat /\ squashBB \in Nat
          /\ BBheadID(squashBB) \in Nat /\ BBheadID(squashBB) \in Ids
          /\ h < BBheadID(squashBB) <=> BB(c.bad) < squashBB
          /\ h = BBheadID(squashBB) <=> BB(c.bad) = squashBB
      BY <2>2, <2>3, <2>6, BlockOrder DEF squashBB
    <3>2. squashSN # 0
      BY <2>2, <2>3, <2>6, <3>1 DEF NoIns
    <3> QED BY <2>1, <2>3, <2>4, <2>6, <3>1, <3>2, <1>2 DEF setSquashSN
  <2> QED BY <2>5, <2>6
<1> QED BY <1>1, <1>2

(* The outcome of a turn of the squash state machine. *)
Blames(c) ==
    /\ badInsID' \in Dispatched /\ squashSN' = BBheadID(BB(badInsID'))
    /\ DetectedIn(c.ins, badInsID')
    /\ \/ squashType' = "BP_MISPRED" /\ WrongPath(badInsID')
       \/ squashType' = "MEM_MISPRED" /\ c.ins[badInsID'].memViolation
    /\ pipe # "NORMAL" => squashSN' <= squashSN

LEMMA SquashOutcome ==
  ASSUME IInv, turn = "EXECUTE", NEW done \in SUBSET Units, NEW c \in AccState,
         Kept(c, done), squashCtrl(setSquashSN(c.bad), c.type, EU'), badInsID' = c.badInsID
  PROVE  /\ pipe' \in {"NORMAL", "WAIT_FLUSH", "FLUSH", "DRAIN", "SQUASH_ROB"}
         /\ squashSN' \in HeadIds \cup {0}
         /\ squashType' \in {"NO_MISPRED", "BP_MISPRED", "MEM_MISPRED"}
         /\ pipe' = "NORMAL" => squashSN' = 0 /\ (pipe = "NORMAL" \/ Fetched = {})
         /\ pipe' # "NORMAL" => Blames(c)
         /\ \A i \in Dispatched : DetectedIn(c.ins, i) =>
              pipe' # "NORMAL" /\ Precedes(badInsID', i)
         /\ pipe' = "FLUSH" => \A e \in 1 .. Width : EU'[e] = NoIns
         /\ pipe' \in {"DRAIN", "SQUASH_ROB"} =>
              /\ pipe \in {"FLUSH", "DRAIN"} /\ squashSN' = squashSN
              /\ setSquashSN(c.bad) = squashSN
         /\ pipe' = "SQUASH_ROB" =>
              /\ bbROB # << >> /\ BBheadID(bbROB[1]) >= squashSN'
<1> DEFINE sn == setSquashSN(c.bad)
<1>1. TypeOK /\ Ids \in SUBSET Nat /\ NoIns \notin Ids /\ Dispatched \subseteq Ids
      /\ squashSN \in HeadIds \cup {0}
      /\ c.type \in {"NO_MISPRED", "BP_MISPRED", "MEM_MISPRED"}
      /\ pipe \in {"NORMAL", "WAIT_FLUSH", "FLUSH", "DRAIN", "SQUASH_ROB"}
  BY Numbers, Flight DEF IInv, TypeOK, AccState
<1>2. KeepsOldest(c)
  BY DEF Kept
<1>3. /\ c.bad = NoIns => sn = squashSN
      /\ c.bad # NoIns =>
           /\ c.bad = c.badInsID /\ c.bad \in Dispatched
           /\ sn = BBheadID(BB(c.badInsID)) /\ sn # 0
           /\ pipe # "NORMAL" => sn <= squashSN
           /\ pipe # "NORMAL" /\ sn = squashSN => BB(c.bad) = squashBB
  BY <1>2, NewSquashNumber
<1> HIDE DEF sn
<1>4. squashCtrl(sn, c.type, EU')
  BY DEF sn
<1>5. sn \in HeadIds \cup {0}
  <2>1. CASE c.bad = NoIns
    BY <2>1, <1>1, <1>3
  <2>2. CASE c.bad # NoIns
    <3>1. BB(c.bad) \in Blocks
      BY <2>2, <1>1, <1>3, Numbers
    <3> QED BY <3>1, <2>2, <1>1, <1>3, BlockShape
  <2> QED BY <2>1, <2>2
<1>6. \A i \in Dispatched : DetectedIn(c.ins, i) => c.badInsID # NoIns /\ Precedes(c.badInsID, i)
  BY <1>2 DEF KeepsOldest
(* A culprit that the loop found. *)
<1>7. ASSUME c.bad # NoIns, squashSN' = sn, squashType' = c.type PROVE Blames(c)
  <2>1. /\ DetectedIn(c.ins, c.bad)
        /\ \/ c.type = "BP_MISPRED" /\ WrongPath(c.bad)
           \/ c.type = "MEM_MISPRED" /\ c.ins[c.bad].memViolation
    BY <1>2, <1>7 DEF KeepsOldest
  <2> QED BY <2>1, <1>3, <1>7 DEF Blames
(* The one known before is a culprit still. *)
<1>8. ASSUME c.bad = NoIns, pipe \in {"WAIT_FLUSH", "FLUSH", "DRAIN"},
             squashSN' = sn, squashType' = c.type
      PROVE  Blames(c)
  <2>1. c.badInsID = badInsID /\ c.type = squashType
    BY <1>2, <1>8 DEF KeepsOldest
  <2>2. Culprit /\ squashSN = BBheadID(squashBB)
    BY <1>8 DEF IInv, Squashing
  <2>3. badInsID \in Dispatched /\ badInsID \in Ids
    BY <2>2, <1>1 DEF Culprit
  <2>4. Processed(c.ins, done)
    BY DEF Kept
  <2>5. ins[badInsID].memViolation => c.ins[badInsID].memViolation
    BY <2>3, <2>4 DEF Processed
  <2>6. ins[badInsID].stage \in {"MEM_ACCESS", "COMPLETE"} =>
          c.ins[badInsID].stage \in {"MEM_ACCESS", "COMPLETE"}
    <3> HAVE ins[badInsID].stage \in {"MEM_ACCESS", "COMPLETE"}
    <3>1. badInsID \notin done
      BY DEF IInv, Stages
    <3> QED BY <3>1, <2>3, <2>4 DEF Processed
  <2>7. DetectedIn(c.ins, badInsID)
    BY <2>2, <2>5, <2>6 DEF Culprit, Detected, DetectedIn
  <2>8. squashSN' = squashSN /\ squashSN \in Nat
    BY <1>1, <1>3, <1>8, SquashNumber
  <2> QED BY <2>1, <2>2, <2>3, <2>5, <2>7, <2>8, <1>8 DEF Culprit, Blames, squashBB
<1>9. pipe = "SQUASH_ROB" => bbROB = << >> /\ Fetched = {} /\ Dispatched = {}
  <2> HAVE pipe = "SQUASH_ROB"
  <2>1. bbROB = << >> /\ bbQUE = << >>
    BY DEF IInv, Squashing
  <2>2. Fetched = {}
    BY <2>1 DEF Fetched, Elements
  <2> QED BY <2>1, <2>2 DEF FetchedIns, Popped, Dispatched
<1>10. CASE sn # squashSN
  <2>1. pipe' = "WAIT_FLUSH" /\ squashSN' = sn /\ squashType' = c.type
    BY <1>4, <1>10 DEF squashCtrl
  <2>2. c.bad # NoIns
    BY <1>3, <1>10
  <2>3. Blames(c)
    BY <2>1, <2>2, <1>7
  <2> QED BY <2>1, <2>3, <1>1, <1>5, <1>6
<1>11. CASE sn = squashSN /\ (pipe = "NORMAL" \/ pipe = "SQUASH_ROB")
  <2>1. pipe' = "NORMAL" /\ squashSN' = 0 /\ squashType' = "NO_MISPRED"
    BY <1>4, <1>9, <1>11 DEF squashCtrl
  <2>2. pipe = "NORMAL" => squashSN = 0
    BY DEF IInv, Squashing
  <2>3. \A i \in Dispatched : ~DetectedIn(c.ins, i)
    <3>1. CASE pipe = "NORMAL"
      <4>1. c.bad = NoIns
        BY <3>1, <2>2, <1>3, <1>11
      <4>2. c.badInsID = 0
        BY <4>1, <3>1, <1>2 DEF KeepsOldest, NoIns
      <4> QED BY <4>2, <1>6 DEF NoIns
    <3>2. CASE pipe = "SQUASH_ROB"
      BY <3>2, <1>9
    <3> QED BY <3>1, <3>2, <1>11
  <2> QED BY <2>1, <2>3, <1>9, <1>11
<1>12. CASE sn = squashSN /\ pipe \in {"WAIT_FLUSH", "FLUSH", "DRAIN"}
  <2>1. /\ squashSN' = sn /\ squashType' = c.type
        /\ \/ /\ pipe = "WAIT_FLUSH"
              /\ pipe' = IF \A e \in 1 .. Width : EU'[e] = NoIns
                         THEN "FLUSH" ELSE "WAIT_FLUSH"
           \/ /\ pipe = "FLUSH"
              /\ pipe' = "DRAIN"
           \/ /\ pipe = "DRAIN"
              /\ bbROB # << >> /\ BBheadID(bbROB[1]) >= sn
              /\ pipe' = "SQUASH_ROB"
           \/ /\ pipe = "DRAIN"
              /\ pipe' = pipe
    BY <1>4, <1>12 DEF squashCtrl
  <2>2. Blames(c)
    BY <2>1, <1>7, <1>8, <1>12
  <2>3. pipe' \in {"WAIT_FLUSH", "FLUSH", "DRAIN", "SQUASH_ROB"}
    BY <2>1
  <2>4. \A i \in Dispatched : DetectedIn(c.ins, i) => pipe' # "NORMAL" /\ Precedes(badInsID', i)
    BY <2>3, <1>6
  <2>5. pipe' = "FLUSH" => \A e \in 1 .. Width : EU'[e] = NoIns
    BY <2>1
  <2>6. /\ pipe' \in {"DRAIN", "SQUASH_ROB"} => pipe \in {"FLUSH", "DRAIN"}
        /\ pipe' = "SQUASH_ROB" => bbROB # << >> /\ BBheadID(bbROB[1]) >= sn
    BY <2>1
  <2> QED BY <2>1, <2>2, <2>3, <2>4, <2>5, <2>6, <1>1, <1>5, <1>12 DEF sn
<1> QED BY <1>1, <1>10, <1>11, <1>12

(* Of a queue in program order the first is the least. *)
LEMMA FirstIsLeast ==
  ASSUME NEW D \in SUBSET Nat, NEW q \in Seq(D), Increasing(q), NEW b \in Elements(q)
  PROVE  q # << >> /\ q[1] \in D /\ q[1] <= b
<1>1. Len(q) \in Nat /\ \A n \in 1 .. Len(q) : q[n] \in D
  BY ElementsIn
<1>2. PICK n \in 1 .. Len(q) : b = q[n]
  BY DEF Elements
<1>3. 1 \in 1 .. Len(q) /\ q # << >>
  <2>1. Len(q) # 0
    BY <1>1, <1>2
  <2> QED BY <2>1, <1>1, EmptySeq
<1>n. q[1] \in D /\ q[1] \in Nat /\ q[n] \in Nat
  <2>1. q[1] \in D /\ q[n] \in D
    BY <1>1, <1>2, <1>3
  <2> QED BY <2>1
<1>4. CASE n = 1
  BY <1>n, <1>2, <1>3, <1>4
<1>5. CASE n # 1
  <2>1. 1 < n
    BY <1>1, <1>2, <1>5
  <2>2. q[1] < q[n]
    BY <2>1, <1>2, <1>3 DEF Increasing
  <2> QED BY <2>2, <1>n, <1>2, <1>3
<1> QED BY <1>4, <1>5

LEMMA HeadsOfBlocks ==
  ASSUME TypeOK, NEW b \in Blocks, NEW d \in Blocks
  PROVE  /\ BBheadID(b) \in Nat /\ BBheadID(d) \in Nat
         /\ BBheadID(b) < BBheadID(d) <=> b < d
         /\ BBheadID(b) <= BBheadID(d) <=> b <= d
         /\ BBheadID(b) = BBheadID(d) <=> b = d
<1>1. PICK i \in Ids, j \in Ids : BB(i) = b /\ BB(j) = d
  BY Numbers
<1>2. /\ BB(i) \in Nat /\ BB(j) \in Nat
      /\ BBheadID(BB(i)) \in Nat
      /\ BBheadID(BB(i)) < BBheadID(BB(j)) <=> BB(i) < BB(j)
      /\ BBheadID(BB(i)) = BBheadID(BB(j)) <=> BB(i) = BB(j)
  BY BlockOrder
<1>3. BBheadID(BB(j)) \in Nat
  BY BlockOrder
<1> QED BY <1>1, <1>2, <1>3

LEMMA SameIns ==
  ASSUME NEW r \in InsState, NEW t \in InsState,
         t.stage = r.stage, t.lsq = r.lsq, t.memViolation = r.memViolation,
         t.cacheAxes = r.cacheAxes, t.overtook = r.overtook
  PROVE  t = r
BY DEF InsState

(* The table once the instructions of done have written back and those of  *)
(* start have gone to their units.                                         *)
Executed(table, done, start) ==
    /\ \A i \in Ids :
         /\ table[i].overtook = ins[i].overtook
         /\ i \notin Dispatched => table[i] = ins[i]
         /\ i \notin done \cup start => table[i].stage = ins[i].stage
         /\ i \notin done => table[i].lsq = ins[i].lsq
    /\ \A i \in start : table[i].stage = "EXECUTE"
    /\ \A i \in done :
         /\ Op(i) = "ALU" => table[i].stage = "COMPLETE"
         /\ Op(i) = "LOAD" => /\ table[i].stage = "MEM_ACCESS"
                              /\ table[i].lsq = "PENDING_CACHE_DISPATCH"
         /\ Op(i) = "STORE" => table[i].stage = "COMPLETE" /\ table[i].lsq = "COMPLETE"
    /\ \A i \in Dispatched : table[i].memViolation =>
         i \in LoadIds /\ table[i].lsq = "COMPLETE"

LEMMA ExecutedTable ==
  ASSUME IInv, NEW done, NEW start, done \subseteq Units, start \subseteq Elements(issuePort),
         NEW c \in AccState, Processed(c.ins, done)
  PROVE  LET t == AtStage(start, "EXECUTE", c.ins)
         IN /\ t \in [Ids -> InsState] /\ Executed(t, done, start)
            /\ \A i \in Ids : /\ t[i].memViolation = c.ins[i].memViolation
                              /\ DetectedIn(t, i) <=> DetectedIn(c.ins, i)
<1> DEFINE t == AtStage(start, "EXECUTE", c.ins)
           new == start
<1>1. /\ TypeOK /\ ins \in [Ids -> InsState] /\ c.ins \in [Ids -> InsState]
      /\ Dispatched \subseteq Ids /\ Waiting \subseteq Dispatched
  BY Tables, Flight DEF IInv, AccState
<1>2. /\ \A i \in start : i \in Dispatched /\ ins[i].stage = "ISSUE"
      /\ \A i \in done : i \in Dispatched /\ ins[i].stage = "EXECUTE"
      /\ \A i \in Dispatched : /\ Lifecycle(i)
                               /\ ins[i].memViolation => i \in LoadIds /\ ins[i].lsq = "COMPLETE"
      /\ Elements(LQ) \subseteq Dispatched \cap LoadIds
  BY DEF IInv, Stages, LSQ
<1>3. new \in SUBSET Ids
  BY <1>1, <1>2
<1> HIDE DEF new
<1>4. /\ t \in [Ids -> InsState]
      /\ \A i \in Ids \ new : t[i] = c.ins[i]
      /\ \A i \in new : t[i].stage = "EXECUTE"
      /\ \A i \in Ids : /\ t[i].lsq = c.ins[i].lsq
                        /\ t[i].memViolation = c.ins[i].memViolation
                        /\ t[i].cacheAxes = c.ins[i].cacheAxes
                        /\ t[i].overtook = c.ins[i].overtook
  <2> DEFINE table == c.ins
             u == AtStage(new, "EXECUTE", table)
  <2>1. table \in [Ids -> InsState] /\ "EXECUTE" \in Stage
    BY <1>1 DEF Stage
  <2> HIDE DEF table
  <2>2. /\ u \in [Ids -> InsState]
        /\ \A i \in Ids \ new : u[i] = table[i]
        /\ \A i \in new : u[i].stage = "EXECUTE"
        /\ \A i \in Ids : /\ u[i].lsq = table[i].lsq
                          /\ u[i].memViolation = table[i].memViolation
                          /\ u[i].cacheAxes = table[i].cacheAxes
                          /\ u[i].overtook = table[i].overtook
    <3> DEFINE D == Ids
               s == "EXECUTE"
    <3>1. new \in SUBSET D /\ table \in [D -> InsState] /\ s \in Stage
      BY <2>1, <1>3
    <3> HIDE DEF D, s
    <3>2. /\ AtStage(new, s, table) \in [D -> InsState]
          /\ \A i \in D \ new : AtStage(new, s, table)[i] = table[i]
          /\ \A i \in new : AtStage(new, s, table)[i].stage = s
          /\ \A i \in D : /\ AtStage(new, s, table)[i].lsq = table[i].lsq
                          /\ AtStage(new, s, table)[i].memViolation = table[i].memViolation
                          /\ AtStage(new, s, table)[i].cacheAxes = table[i].cacheAxes
                          /\ AtStage(new, s, table)[i].overtook = table[i].overtook
      BY <3>1, AtStageTable
    <3> QED BY <3>2 DEF D, s
  <2>3. u = t
    BY DEF table, new
  <2> HIDE DEF u
  <2> QED BY <2>2, <2>3 DEF table
<1> HIDE DEF t
<1>5. start = new /\ start \cap done = {}
  BY <1>2 DEF new
<1>6. /\ \A i \in Ids : /\ c.ins[i].cacheAxes = ins[i].cacheAxes
                        /\ c.ins[i].overtook = ins[i].overtook
                        /\ ins[i].memViolation => c.ins[i].memViolation
                        /\ i \notin done =>
                             c.ins[i].stage = ins[i].stage /\ c.ins[i].lsq = ins[i].lsq
                        /\ c.ins[i].memViolation =>
                             \/ ins[i].memViolation
                             \/ i \in Elements(LQ) /\ ins[i].lsq = "COMPLETE" /\ i \notin Units
      /\ \A i \in done :
           /\ Op(i) = "ALU" => c.ins[i].stage = "COMPLETE"
           /\ Op(i) = "LOAD" => /\ c.ins[i].stage = "MEM_ACCESS"
                                /\ c.ins[i].lsq = "PENDING_CACHE_DISPATCH"
           /\ Op(i) = "STORE" => c.ins[i].stage = "COMPLETE" /\ c.ins[i].lsq = "COMPLETE"
  BY DEF Processed
<1>7. ASSUME NEW i \in Ids, i \notin Dispatched PROVE t[i] = ins[i]
  <2>1. i \notin done /\ i \notin start /\ i \notin Elements(LQ)
    BY <1>2, <1>7
  <2>2. t[i] = c.ins[i] /\ c.ins[i] \in InsState /\ ins[i] \in InsState
    BY <2>1, <1>1, <1>4, <1>5
  <2>3. c.ins[i].memViolation = ins[i].memViolation
    <3>1. c.ins[i].memViolation \in BOOLEAN /\ ins[i].memViolation \in BOOLEAN
      BY <2>2 DEF InsState
    <3> QED BY <3>1, <2>1, <1>6
  <2> QED BY <2>1, <2>2, <2>3, <1>6, SameIns
<1>8. ASSUME NEW i \in Dispatched, t[i].memViolation
      PROVE  i \in LoadIds /\ t[i].lsq = "COMPLETE"
  <2>1. c.ins[i].memViolation /\ i \in Ids /\ t[i].lsq = c.ins[i].lsq
    BY <1>1, <1>4, <1>8
  <2>2. i \in LoadIds /\ ins[i].lsq = "COMPLETE"
    BY <2>1, <1>2, <1>6
  <2>3. i \notin done
    BY <2>2, <1>2 DEF Lifecycle, LoadIds
  <2> QED BY <2>1, <2>2, <2>3, <1>6
<1>9. Executed(t, done, start)
  <2>1. \A i \in Ids : /\ t[i].overtook = ins[i].overtook
                       /\ i \notin done \cup start => t[i].stage = ins[i].stage
                       /\ i \notin done => t[i].lsq = ins[i].lsq
    BY <1>4, <1>5, <1>6
  <2>2. \A i \in done :
         /\ Op(i) = "ALU" => t[i].stage = "COMPLETE"
         /\ Op(i) = "LOAD" => /\ t[i].stage = "MEM_ACCESS"
                              /\ t[i].lsq = "PENDING_CACHE_DISPATCH"
         /\ Op(i) = "STORE" => t[i].stage = "COMPLETE" /\ t[i].lsq = "COMPLETE"
    <3> TAKE i \in done
    <3>1. i \in Ids \ new
      BY <1>1, <1>2, <1>5
    <3>2. t[i] = c.ins[i]
      BY <3>1, <1>4
    <3> QED BY <3>2, <1>6
  <2>3. \A i \in start : t[i].stage = "EXECUTE"
    BY <1>4, <1>5
  <2> QED BY <2>1, <2>2, <2>3, <1>7, <1>8 DEF Executed
<1>10. ASSUME NEW i \in Ids PROVE DetectedIn(t, i) <=> DetectedIn(c.ins, i)
  <2>1. CASE i \in start
    <3>1. i \notin done
      BY <2>1, <1>5
    <3>2. c.ins[i].stage = "ISSUE" /\ t[i].stage = "EXECUTE"
      BY <3>1, <2>1, <1>2, <1>4, <1>5, <1>6
    <3> QED BY <3>2, <1>4 DEF DetectedIn
  <2>2. CASE i \notin start
    BY <2>2, <1>4, <1>5 DEF DetectedIn
  <2> QED BY <2>1, <2>2
<1> QED BY <1>4, <1>9, <1>10 DEF t

(* The blocks that are not fetched count nothing. *)
LEMMA BlocksStay ==
  ASSUME IInv, NEW done, done \subseteq Units, NEW c \in AccState, BlocksProcessed(c, done)
  PROVE  \A b \in Blocks : b \notin Fetched => c.blk[b] = blk[b]
<1>1. TypeOK /\ blk \in [Blocks -> BlkState] /\ c.blk \in [Blocks -> BlkState]
      /\ Units \subseteq FetchedIns
  BY Tables, Flight DEF IInv, AccState, Waiting
<1> SUFFICES ASSUME NEW b \in Blocks, b \notin Fetched PROVE c.blk[b] = blk[b]
  OBVIOUS
<1>2. c.blk[b] \in BlkState /\ blk[b] \in BlkState
  BY <1>1
<1>3. NewIn(done \ LoadIds, b) = 0
  <2> DEFINE W == done \ LoadIds
  <2>1. W \in SUBSET FetchedIns
    BY <1>1
  <2> HIDE DEF W
  <2>2. NewIn(W, b) = 0
    BY <2>1, <1>1, NoneComplete
  <2> QED BY <2>2 DEF W
<1>4. blk[b].completed \in Nat /\ c.blk[b].memViolation \in BOOLEAN
      /\ blk[b].memViolation \in BOOLEAN
  BY <1>2 DEF BlkState
<1>5. c.blk[b].completed = blk[b].completed
  BY <1>3, <1>4 DEF BlocksProcessed
<1>6. c.blk[b].memViolation = blk[b].memViolation
  <2>2. c.blk[b].memViolation => blk[b].memViolation
    BY DEF BlocksProcessed
  <2>3. blk[b].memViolation => c.blk[b].memViolation
    BY DEF BlocksProcessed
  <2> QED BY <2>2, <2>3, <1>4
<1> QED BY <1>2, <1>5, <1>6, SameBlock DEF BlocksProcessed

LEMMA ExecuteStep ==
  ASSUME IInv, doEXECUTION
  PROVE  IInv'
<1> USE DEF frontVars, history
<1>u. UNCHANGED <<program, supplied, bbCache, currentBB, retired, deleted, bbQUE,
                  fetchPort, decodePort, windows, bbROB, LQ, SQ>>
  BY DEF doEXECUTION
<1>t. /\ Ids' = Ids /\ Blocks' = Blocks /\ LoadIds' = LoadIds /\ StoreIds' = StoreIds
      /\ HeadIds' = HeadIds /\ LastBlock' = LastBlock
      /\ \A i : Op(i)' = Op(i) /\ BB(i)' = BB(i) /\ WrongPath(i)' = WrongPath(i)
      /\ \A b : /\ BlockIns(b)' = BlockIns(b) /\ BBsize(b)' = BBsize(b)
                /\ BBheadID(b)' = BBheadID(b) /\ isOnWrongPath(b)' = isOnWrongPath(b)
  BY <1>u, ProgramStays
<1>3. TypeOK /\ Ids \in SUBSET Nat /\ Blocks \in SUBSET Nat /\ LoadIds \subseteq Ids
      /\ StoreIds \subseteq Ids /\ LoadIds \cap StoreIds = {} /\ NoIns \notin Ids
      /\ \A i \in Ids : BB(i) \in Blocks /\ Op(i) \in {"ALU", "LOAD", "STORE"}
  BY Numbers DEF IInv, LoadIds, StoreIds
<1>1. turn = "EXECUTE" /\ turn' = IF pipe' = "SQUASH_ROB" THEN "SQUASH" ELSE "SCHEDULE"
  BY DEF doEXECUTION
<1>2. PICK done \in SUBSET Units, start \in SUBSET Elements(issuePort) :
         LET c == completeIns(done)
             units == [e \in 1 .. Width |-> IF EU[e] \in done THEN NoIns ELSE EU[e]]
             free == {e \in 1 .. Width : units[e] = NoIns}
             nth(e) == Cardinality({f \in free : f <= e})
             next == Filter(issuePort, start)
         IN
         /\ setSquashSN(c.bad) # squashSN \/ pipe \in {"WAIT_FLUSH", "FLUSH"} => start = {}
         /\ Len(next) <= Cardinality(free)
         /\ EU' = [e \in 1 .. Width |-> IF e \in free /\ nth(e) <= Len(next)
                                        THEN next[nth(e)] ELSE units[e]]
         /\ issuePort' = Without(issuePort, start)
         /\ ins' = AtStage(start, "EXECUTE", c.ins)
         /\ blk' = c.blk
         /\ badInsID' = c.badInsID
         /\ squashCtrl(setSquashSN(c.bad), c.type, EU')
  BY DEF doEXECUTION, Units
<1> DEFINE c == completeIns(done)
           next == Filter(issuePort, start)
<1>4. c \in AccState /\ Kept(c, done)
  BY CompleteResult
<1>5. /\ setSquashSN(c.bad) # squashSN \/ pipe \in {"WAIT_FLUSH", "FLUSH"} => start = {}
      /\ issuePort' = Filter(issuePort, Ids \ start)
      /\ ins' = AtStage(start, "EXECUTE", c.ins)
      /\ blk' = c.blk /\ badInsID' = c.badInsID
      /\ squashCtrl(setSquashSN(c.bad), c.type, EU')
  BY <1>2 DEF Without
<1>6. /\ Dispatched \subseteq FetchedIns /\ FetchedIns \subseteq Ids
      /\ Waiting \subseteq Dispatched /\ Units \subseteq Ids /\ Fetched \subseteq Blocks
      /\ Elements(LQ) \subseteq Dispatched /\ Elements(issuePort) \subseteq Dispatched
      /\ Units \subseteq Dispatched
  BY Flight DEF IInv, LSQ, Waiting
<1>7. /\ \A i \in start : i \in Dispatched /\ ins[i].stage = "ISSUE"
      /\ \A i \in done : i \in Dispatched /\ ins[i].stage = "EXECUTE"
      /\ \A i \in Units : ins[i].stage = "EXECUTE"
      /\ \A i \in Dispatched : Lifecycle(i)
  BY DEF IInv, Stages
<1>8. next \in Seq(Ids) /\ Distinct(next) /\ Elements(next) = start
  <2> DEFINE f == Filter(issuePort, start)
  <2>1. issuePort \in Seq(Ids) /\ Distinct(issuePort)
    BY <1>3, QueueTypes DEF IInv, InOrder
  <2>2. f \in Seq(Ids) /\ Elements(f) = Elements(issuePort) \cap start
    BY <2>1, FilterElements
  <2>3. Distinct(f)
    BY <2>1, FilterDistinct
  <2> QED BY <2>2, <2>3
<1>9. /\ EU' \in [1 .. Width -> Ids \cup {NoIns}]
      /\ Units' = (Units \ done) \cup start
      /\ \A d, e \in 1 .. Width : EU'[d] = EU'[e] /\ EU'[d] # NoIns => d = e
  <2>1. Elements(next) \cap Units = {}
    BY <1>7, <1>8
  <2>2. LET units == [e \in 1 .. Width |-> IF EU[e] \in done THEN NoIns ELSE EU[e]]
            free == {e \in 1 .. Width : units[e] = NoIns}
            nth(e) == Cardinality({f \in free : f <= e})
        IN /\ Len(next) <= Cardinality(free)
           /\ EU' = [e \in 1 .. Width |-> IF e \in free /\ nth(e) <= Len(next)
                                          THEN next[nth(e)] ELSE units[e]]
    BY <1>2
  <2> HIDE DEF next
  <2>3. /\ EU' \in [1 .. Width -> Ids \cup {NoIns}]
        /\ Units' = (Units \ done) \cup Elements(next)
        /\ \A d, e \in 1 .. Width : EU'[d] = EU'[e] /\ EU'[d] # NoIns => d = e
    BY <2>1, <2>2, <1>8, Issue
  <2> QED BY <2>3, <1>8
<1>10. /\ issuePort' \in Seq(Ids) /\ Distinct(issuePort') /\ Len(issuePort') <= Len(issuePort)
       /\ Elements(issuePort') = Elements(issuePort) \ start
       /\ Len(issuePort') \in Nat /\ Len(issuePort) \in Nat
  <2> DEFINE R == Ids \ start
             f == Filter(issuePort, R)
  <2> HIDE DEF R
  <2>1. issuePort \in Seq(Ids) /\ Distinct(issuePort)
    BY <1>3, QueueTypes DEF IInv, InOrder
  <2>2. f \in Seq(Ids) /\ Elements(f) = Elements(issuePort) \cap R /\ Len(f) <= Len(issuePort)
    BY <2>1, FilterElements
  <2>3. Distinct(f)
    BY <2>1, FilterDistinct
  <2> HIDE DEF f
  <2>4. issuePort' = f
    BY <1>5 DEF f, R
  <2>5. Elements(f) = Elements(issuePort) \ start
    BY <2>2, <1>6 DEF R
  <2> QED BY <2>1, <2>2, <2>3, <2>4, <2>5
<1> HIDE DEF c, next
<1>11. /\ ins' \in [Ids -> InsState] /\ Executed(ins', done, start)
       /\ \A i \in Ids : /\ ins'[i].memViolation = c.ins[i].memViolation
                         /\ DetectedIn(ins', i) <=> DetectedIn(c.ins, i)
  <2> DEFINE s == AtStage(start, "EXECUTE", c.ins)
  <2>1. /\ s \in [Ids -> InsState] /\ Executed(s, done, start)
        /\ \A i \in Ids : /\ s[i].memViolation = c.ins[i].memViolation
                          /\ DetectedIn(s, i) <=> DetectedIn(c.ins, i)
    BY <1>4, ExecutedTable DEF Kept
  <2>2. ins' = s
    BY <1>5
  <2> HIDE DEF s
  <2> QED BY <2>1, <2>2
<1>12. /\ \A i \in Ids :
            /\ ins'[i].overtook = ins[i].overtook
            /\ i \notin Dispatched => ins'[i] = ins[i]
            /\ i \notin done \cup start => ins'[i].stage = ins[i].stage
            /\ i \notin done => ins'[i].lsq = ins[i].lsq
       /\ \A i \in start : ins'[i].stage = "EXECUTE"
       /\ \A i \in done :
            /\ Op(i) = "ALU" => ins'[i].stage = "COMPLETE"
            /\ Op(i) = "LOAD" => /\ ins'[i].stage = "MEM_ACCESS"
                                 /\ ins'[i].lsq = "PENDING_CACHE_DISPATCH"
            /\ Op(i) = "STORE" => ins'[i].stage = "COMPLETE" /\ ins'[i].lsq = "COMPLETE"
       /\ \A i \in Dispatched : ins'[i].memViolation =>
            i \in LoadIds /\ ins'[i].lsq = "COMPLETE"
  BY <1>11 DEF Executed
<1>13. /\ blk' \in [Blocks -> BlkState]
       /\ \A b \in Blocks :
            /\ blk'[b].fetched = blk[b].fetched /\ blk'[b].doneFetch = blk[b].doneFetch
            /\ blk'[b].permit = blk[b].permit
            /\ blk'[b].completed = blk[b].completed + NewIn(done \ LoadIds, b)
            /\ blk'[b].memViolation =>
                 blk[b].memViolation \/ (b \in Fetched /\ blk[b].permit)
            /\ b \notin Fetched => blk'[b] = blk[b]
       /\ \A i \in Dispatched : ins'[i].memViolation => blk'[BB(i)].memViolation
  <2>1. blk' = c.blk /\ c.blk \in [Blocks -> BlkState] /\ BlocksProcessed(c, done)
    BY <1>4, <1>5 DEF AccState, Kept
  <2>2. \A b \in Blocks : b \notin Fetched => c.blk[b] = blk[b]
    BY <2>1, <1>4, BlocksStay
  <2> QED BY <2>1, <2>2, <1>6, <1>11 DEF BlocksProcessed
<1>14. /\ pipe' \in {"NORMAL", "WAIT_FLUSH", "FLUSH", "DRAIN", "SQUASH_ROB"}
       /\ squashSN' \in HeadIds \cup {0}
       /\ squashType' \in {"NO_MISPRED", "BP_MISPRED", "MEM_MISPRED"}
       /\ pipe' = "NORMAL" => squashSN' = 0 /\ (pipe = "NORMAL" \/ Fetched = {})
       /\ pipe' # "NORMAL" => Blames(c)
       /\ \A i \in Dispatched : DetectedIn(c.ins, i) =>
            pipe' # "NORMAL" /\ Precedes(badInsID', i)
       /\ pipe' = "FLUSH" => \A e \in 1 .. Width : EU'[e] = NoIns
       /\ pipe' \in {"DRAIN", "SQUASH_ROB"} =>
            /\ pipe \in {"FLUSH", "DRAIN"} /\ squashSN' = squashSN
            /\ setSquashSN(c.bad) = squashSN
       /\ pipe' = "SQUASH_ROB" =>
            /\ bbROB # << >> /\ BBheadID(bbROB[1]) >= squashSN'
  BY <1>1, <1>4, <1>5, SquashOutcome
<1>e. /\ Fetched' = Fetched /\ FetchedIns' = FetchedIns /\ Popped' = Popped
      /\ Dispatched' = Dispatched /\ InROB' = InROB
      /\ Window' = Window /\ Traced' = Traced
  <2>1. \A i \in FetchedIns :
           /\ ins'[i].stage = "NO_STAGE" <=> ins[i].stage = "NO_STAGE"
           /\ ins'[i].stage \in FrontStage <=> ins[i].stage \in FrontStage
    <3> TAKE i \in FetchedIns
    <3>1. CASE i \in done \cup start
      <4>1. i \in Ids /\ ins[i].stage \in {"ISSUE", "EXECUTE"}
            /\ ins'[i].stage \in {"EXECUTE", "MEM_ACCESS", "COMPLETE"}
        BY <3>1, <1>3, <1>6, <1>7, <1>12
      <4> QED BY <4>1 DEF FrontStage
    <3>2. CASE i \notin done \cup start
      BY <3>2, <1>6, <1>12
    <3> QED BY <3>1, <3>2
  <2>2. /\ Fetched' = Fetched /\ FetchedIns' = FetchedIns /\ Popped' = Popped
        /\ Dispatched' = Dispatched
    BY <2>1, <1>u, SameSets
  <2> QED BY <2>2, <1>u DEF InROB, Window, Traced
<1>w. Waiting' \subseteq Waiting
  BY <1>9, <1>10, <1>u DEF Waiting
<1>c. \A b \in Blocks :
        /\ Cardinality(Completed(b)') =
             Cardinality(Completed(b)) + NewIn(done \ LoadIds, b)
        /\ Cardinality(Completed(b)') <= BBsize(b)
  <2> DEFINE D == done \ LoadIds
  <2>1. D \in SUBSET Ids
    BY <1>6
  <2>2. \A i \in D : ins[i].stage # "COMPLETE"
    BY <1>7
  <2>3. \A i \in Ids : ins'[i].stage = "COMPLETE" <=> i \in D \/ ins[i].stage = "COMPLETE"
    <3> TAKE i \in Ids
    <3>1. CASE i \in done
      BY <3>1, <1>3, <1>7, <1>12 DEF LoadIds
    <3>2. CASE i \in start
      BY <3>2, <1>7, <1>12
    <3>3. CASE i \notin done \cup start
      BY <3>3, <1>12
    <3> QED BY <3>1, <3>2, <3>3
  <2> HIDE DEF D
  <2>4. \A b \in Blocks :
          /\ Cardinality(Completed(b)') = Cardinality(Completed(b)) + NewIn(D, b)
          /\ Cardinality(Completed(b)') <= BBsize(b)
    BY <2>1, <2>2, <2>3, <1>3, <1>u, NewlyComplete
  <2> QED BY <2>4 DEF D
<1>f. FlushedIn({"EXECUTE"})' => /\ FlushedIn({"EXECUTE"}) /\ squashSN' = squashSN
                                 /\ pipe' \in {"DRAIN", "SQUASH_ROB"}
  BY <1>1, <1>14 DEF FlushedIn
<1>g. /\ FlushedIn({"DECODE", "FETCH", "COMMIT", "MEMORY", "EXECUTE"})' => FlushedIn({"EXECUTE"})'
      /\ FlushedIn({"FETCH", "COMMIT", "MEMORY", "EXECUTE"})' => FlushedIn({"EXECUTE"})'
      /\ FlushedIn({"COMMIT", "MEMORY", "EXECUTE"})' => FlushedIn({"EXECUTE"})'
      /\ FlushedIn({"EXECUTE"}) =>
           /\ FlushedIn({"DECODE", "FETCH", "COMMIT", "MEMORY", "EXECUTE"})
           /\ FlushedIn({"FETCH", "COMMIT", "MEMORY", "EXECUTE"})
           /\ FlushedIn({"COMMIT", "MEMORY", "EXECUTE"})
  BY <1>1 DEF FlushedIn
<1> USE <1>u, <1>t, <1>e
<1>30. Counting'
  <2> SUFFICES ASSUME NEW b \in Fetched
               PROVE  blk'[b].completed = Cardinality(Completed(b)')
    BY DEF Counting
  <2>1. b \in Blocks /\ blk[b].completed = Cardinality(Completed(b))
    BY <1>3, ElementTypes DEF IInv, Counting
  <2> QED BY <2>1, <1>c, <1>13
<1>31. TypeOK'
  <2>1. ins' \in [Ids' -> [stage : Stage, lsq : LsqState, memViolation : BOOLEAN,
                           cacheAxes : BOOLEAN, overtook : BOOLEAN]]
    BY <1>11 DEF InsState
  <2>2. \A q \in {fetchPort', decodePort', windows', issuePort', LQ', SQ'} : q \in Seq(Ids')
    BY <1>3, <1>10, QueueTypes
  <2>3. Len(issuePort') <= PortLen
    <3>1. Len(issuePort) <= PortLen /\ PortLen \in Nat
      BY <1>3, Sizes
    <3> QED BY <3>1, <1>10
  <2>4. blk' \in [Blocks' -> [fetched : Nat, doneFetch : BOOLEAN, completed : Nat,
                              memViolation : BOOLEAN, permit : BOOLEAN]]
    BY <1>13 DEF BlkState
  <2>5. \A b \in Blocks : blk'[b].fetched <= BBsize(b) /\ blk'[b].completed <= BBsize(b)
    <3> TAKE b \in Blocks
    <3>1. blk[b].fetched <= BBsize(b) /\ blk[b].completed <= BBsize(b)
      BY <1>3, Tables
    <3>2. b \in Fetched => blk'[b].completed <= BBsize(b)
      <4> SUFFICES ASSUME b \in Fetched PROVE blk'[b].completed <= BBsize(b)
        OBVIOUS
      <4>1. blk'[b].completed = Cardinality(Completed(b)')
        BY <1>30 DEF Counting
      <4> QED BY <4>1, <1>c
    <3> QED BY <3>1, <3>2, <1>13
  <2>6. badInsID' \in Ids \cup {0}
    BY <1>4, <1>5 DEF AccState, NoIns
  <2>7. turn' \in {"COMMIT", "MEMORY", "EXECUTE", "SQUASH", "SCHEDULE", "DECODE",
                   "FETCH", "FRONTEND", "HALT"}
    BY <1>1
  <2> QED BY <1>3, <1>9, <1>14, <2>1, <2>2, <2>3, <2>4, <2>5, <2>6, <2>7 DEF TypeOK
<1>32. InOrder' /\ TraceOrder'
  BY <1>9, <1>10 DEF IInv, InOrder, TraceOrder
<1>33. Fetching'
  <2>1. \A i \in Ids : BB(i) \notin Fetched \cup Elements(retired) => ins'[i] = ins[i]
    <3> TAKE i \in Ids
    <3> HAVE BB(i) \notin Fetched \cup Elements(retired)
    <3>1. i \notin Dispatched
      BY <1>6 DEF FetchedIns
    <3> QED BY <3>1, <1>12
  <2>2. \A b \in Blocks' : b \in Elements(bbCache') \/ b > supplied' => Fresh(b)'
    BY <2>1, <1>13, FreshStays
  <2>4. currentBB' # NoBB => /\ currentBB' \in Fetched'
                             /\ \A b \in Fetched' : b <= currentBB'
                             /\ ~blk'[currentBB'].doneFetch
    BY <1>6, <1>13 DEF IInv, Fetching
  <2>5. \A b \in Fetched' \ {currentBB'} : blk'[b].fetched = BBsize(b) /\ blk'[b].doneFetch
    BY <1>6, <1>13 DEF IInv, Fetching, allFetched
  <2>6. \A i \in FetchedIns' :
         ins'[i].stage # "NO_STAGE" <=> i < BBheadID(BB(i)) + blk'[BB(i)].fetched
    <3> TAKE i \in FetchedIns'
    <3>1. BB(i) \in Blocks /\ i \in FetchedIns
      BY <1>3, <1>6
    <3>2. ins'[i].stage # "NO_STAGE" <=> ins[i].stage # "NO_STAGE"
      <4>1. ins'[i].stage # "NO_STAGE" <=> i \in Popped'
        BY DEF Popped
      <4>2. ins[i].stage # "NO_STAGE" <=> i \in Popped
        BY DEF Popped
      <4> QED BY <4>1, <4>2
    <3> QED BY <3>1, <3>2, <1>13 DEF IInv, Fetching
  <2> QED BY <2>2, <2>4, <2>5, <2>6 DEF Fetching, allFetched
<1>34. MovesOn'
  <2>2. (takeable' = takeable) /\ (frontendRunning' = frontendRunning)
    BY DEF takeable, frontendRunning
  <2> SUFFICES ASSUME pipe' = "NORMAL", currentBB # NoBB, NEW i \in BlockIns(currentBB),
                      ins'[i].stage # "NO_STAGE", \A j \in BlockIns(currentBB) : j <= i
               PROVE  \/ i \in Elements(fetchPort)
                      \/ i \in Elements(decodePort) /\ (~frontendRunning \/ takeable > 0)
    BY <2>2 DEF MovesOn
  <2>3. i \in FetchedIns /\ currentBB \in Fetched
    BY DEF BlockIns, FetchedIns, IInv, Fetching
  <2>4. i \in Popped'
    BY <2>3 DEF Popped
  <2>5. ins[i].stage # "NO_STAGE" /\ pipe = "NORMAL"
    BY <2>3, <2>4, <1>14 DEF Popped
  <2> QED BY <2>5, <1>1 DEF IInv, MovesOn
<1>35. WindowOrder'
  <2>1. /\ Before(Dispatched, Elements(decodePort) \cup Elements(fetchPort))
        /\ Before(Elements(decodePort), Elements(fetchPort))
        /\ Window \subseteq FetchedIns
        /\ InROB = {BB(i) : i \in Dispatched}
        /\ DownClosed(Dispatched, FetchedIns)
        /\ DownClosed(Window, FetchedIns)
        /\ pipe = "NORMAL" => Popped \subseteq Window
        /\ FlushedIn({"FETCH", "COMMIT", "MEMORY", "EXECUTE"}) => decodePort = << >>
        /\ FlushedIn({"COMMIT", "MEMORY", "EXECUTE"}) => fetchPort = << >>
    BY <1>1 DEF IInv, WindowOrder
  <2>2. InROB' = {BB(i) : i \in Dispatched}
    BY <2>1
  <2>3. pipe' = "NORMAL" => Popped \subseteq Window
    BY <2>1, <1>14 DEF Popped, FetchedIns
  <2> QED BY <2>1, <2>2, <2>3, <1>f, <1>g DEF WindowOrder
<1>36. Stages'
  <2>1. \A i \in FetchedIns' \ Dispatched' :
          /\ ins'[i].lsq = "NO_STATE" /\ ~ins'[i].memViolation
          /\ ~ins'[i].cacheAxes /\ ~ins'[i].overtook
    BY <1>6, <1>12 DEF IInv, Stages
  <2>2. /\ \A i \in Elements(fetchPort) : ins'[i].stage = "FETCH"
        /\ \A i \in Elements(decodePort) : ins'[i].stage = "DECODE"
    <3>1. Elements(fetchPort) \cup Elements(decodePort) \subseteq Ids
      BY <1>3, ElementTypes
    <3> QED BY <3>1, <1>7, <1>12 DEF IInv, Stages
  <2>3. /\ \A i \in Elements(windows) : i \in Dispatched' /\ ins'[i].stage = "DISPATCH"
        /\ \A i \in Elements(issuePort') : i \in Dispatched' /\ ins'[i].stage = "ISSUE"
        /\ \A i \in Units' : i \in Dispatched' /\ ins'[i].stage = "EXECUTE"
    <3>1. /\ \A i \in Elements(windows) : i \in Dispatched /\ ins[i].stage = "DISPATCH"
          /\ \A i \in Elements(issuePort) : i \in Dispatched /\ ins[i].stage = "ISSUE"
          /\ \A i \in Units : i \in Dispatched /\ ins[i].stage = "EXECUTE"
          /\ Dispatched \subseteq Ids
      BY <1>6 DEF IInv, Stages
    <3> QED BY <3>1, <1>7, <1>9, <1>10, <1>12
  <2>4. ASSUME NEW i \in Dispatched
        PROVE  /\ Lifecycle(i)'
               /\ ins'[i].stage = "EXECUTE" => i \in Units'
               /\ ins'[i].memViolation =>
                    i \in LoadIds /\ ins'[i].lsq = "COMPLETE" /\ blk'[BB(i)].memViolation
    <3>0. i \in Ids /\ Lifecycle(i) /\ (ins[i].stage = "EXECUTE" => i \in Units)
      BY <1>6 DEF IInv, Stages
    <3>1. ins'[i].memViolation =>
            i \in LoadIds /\ ins'[i].lsq = "COMPLETE" /\ blk'[BB(i)].memViolation
      BY <1>12, <1>13
    <3>2. CASE i \in done
      <4>1. Lifecycle(i)' /\ ins'[i].stage # "EXECUTE"
        BY <3>0, <3>2, <1>3, <1>12 DEF Lifecycle
      <4> QED BY <3>1, <4>1
    <3>3. CASE i \in start
      <4>1. ins[i].stage = "ISSUE" /\ ins'[i].stage = "EXECUTE" /\ ins'[i].lsq = ins[i].lsq
        BY <3>0, <3>3, <1>7, <1>12
      <4> QED BY <3>0, <3>1, <3>3, <4>1, <1>9 DEF Lifecycle
    <3>4. CASE i \notin done \cup start
      <4>1. ins'[i].stage = ins[i].stage /\ ins'[i].lsq = ins[i].lsq
        BY <3>0, <3>4, <1>12
      <4> QED BY <3>0, <3>1, <3>4, <4>1, <1>9 DEF Lifecycle
    <3> QED BY <3>2, <3>3, <3>4
  <2> QED BY <2>1, <2>2, <2>3, <2>4 DEF Stages
<1>37. LSQ'
  <2>1. ASSUME NEW i \in Dispatched, pipe' = "NORMAL" \/ i < squashSN' \/ i \in Waiting'
        PROVE  pipe = "NORMAL" \/ i < squashSN \/ i \in Waiting
    <3>1. i \in Nat /\ i # 0 /\ i \in FetchedIns
      BY <1>3, <1>6 DEF NoIns
    <3>2. CASE pipe' = "NORMAL"
      BY <3>1, <3>2, <1>14 DEF FetchedIns
    <3>3. CASE pipe' # "NORMAL" /\ pipe # "NORMAL" /\ i < squashSN'
      <4>1. squashSN' <= squashSN
        BY <3>3, <1>14 DEF Blames
      <4>2. squashSN' \in Nat /\ squashSN \in Nat
        BY <1>3, <1>31, <1>14, SquashNumber, Numbers
      <4> QED BY <3>1, <3>3, <4>1, <4>2
    <3> QED BY <3>2, <3>3, <2>1, <1>w
  <2>2. \A i \in Elements(SQ) \ Dispatched :
          /\ BB(i) \in Elements(retired)
          /\ ins'[i].stage = "COMMIT" /\ ins'[i].lsq \in {"COMMIT", "CACHE_DISPATCH"}
    <3>1. Elements(SQ) \subseteq Ids
      BY <1>3, ElementTypes
    <3> QED BY <3>1, <1>12 DEF IInv, LSQ
  <2>3. /\ Elements(LQ) \subseteq Dispatched \cap LoadIds
        /\ DownClosed(Elements(LQ), Dispatched \cap LoadIds)
        /\ Elements(SQ) \subseteq StoreIds
        /\ DownClosed(Elements(SQ), Dispatched \cap StoreIds)
    BY DEF IInv, LSQ
  <2>4. \A i \in Dispatched : (pipe' = "NORMAL" \/ i < squashSN' \/ i \in Waiting') =>
         /\ i \in LoadIds => i \in Elements(LQ)
         /\ i \in StoreIds => i \in Elements(SQ)
    BY <2>1 DEF IInv, LSQ
  <2> QED BY <2>2, <2>3, <2>4 DEF LSQ
<1>38. Squashing'
  <2>1. \A i \in Dispatched : Detected(i)' <=> DetectedIn(c.ins, i)
    <3> TAKE i \in Dispatched
    <3>1. i \in Ids /\ (DetectedIn(ins', i) <=> DetectedIn(c.ins, i))
      BY <1>6, <1>11
    <3>2. Detected(i)' <=> DetectedIn(ins', i)
      BY DEF Detected, DetectedIn
    <3> QED BY <3>1, <3>2
  <2>2. pipe' # "NORMAL" => Culprit' /\ badInsID' \in Ids /\ squashSN' = BBheadID(BB(badInsID'))
    <3> SUFFICES ASSUME pipe' # "NORMAL"
                 PROVE  Culprit' /\ badInsID' \in Ids /\ squashSN' = BBheadID(BB(badInsID'))
      OBVIOUS
    <3>1. Blames(c)
      BY <1>14
    <3>2. badInsID' \in Dispatched /\ badInsID' \in Ids /\ squashSN' = BBheadID(BB(badInsID'))
      BY <3>1, <1>6 DEF Blames
    <3>3. ins'[badInsID'].memViolation = c.ins[badInsID'].memViolation
      BY <3>2, <1>11
    <3>4. Detected(badInsID)'
      BY <3>1, <3>2, <1>11 DEF Blames, Detected, DetectedIn
    <3> QED BY <3>1, <3>2, <3>3, <3>4 DEF Blames, Culprit
  <2>3. squashBB' = BB(badInsID')
    BY DEF squashBB
  <2>4. ASSUME pipe' = "SQUASH_ROB", NEW b \in Fetched PROVE squashBB' <= b
    <3>1. bbROB # << >> /\ BBheadID(bbROB[1]) >= BBheadID(squashBB')
      BY <2>2, <2>3, <2>4, <1>14
    <3>2. bbROB[1] = bbQUE[1] /\ bbQUE # << >> /\ bbQUE \in Seq(Blocks) /\ Increasing(bbQUE)
      <4>1. IsPrefixOf(bbROB, bbQUE) /\ Len(bbROB) \in 0 .. Len(bbQUE)
        BY RobPrefix
      <4>2. bbQUE \in Seq(Blocks) /\ Increasing(bbQUE) /\ bbROB \in Seq(Blocks)
        BY <1>3, QueueTypes DEF IInv, InOrder
      <4>3. Len(bbROB) # 0
        BY <3>1, <4>2, EmptySeq
      <4> QED BY <4>1, <4>2, <4>3 DEF IsPrefixOf
    <3>3. bbQUE[1] <= b /\ bbQUE[1] \in Blocks
      <4>1. b \in Elements(bbQUE)
        BY DEF Fetched
      <4> QED BY <4>1, <3>2, <1>3, FirstIsLeast
    <3>4. squashBB' \in Blocks /\ b \in Blocks
      BY <2>2, <2>3, <2>4, <1>3, <1>6
    <3>5. squashBB' <= bbQUE[1]
      BY <3>1, <3>2, <3>3, <3>4, <1>3, HeadsOfBlocks
    <3>6. squashBB' \in Nat /\ b \in Nat /\ bbQUE[1] \in Nat
      BY <3>3, <3>4, <1>3
    <3> QED BY <3>3, <3>5, <3>6
  <2>5. \A i \in Dispatched : Detected(i)' =>
         /\ pipe' # "NORMAL"
         /\ squashBB' <= BB(i) \/ (WrongPath(i) /\ i \in StoreIds)
    BY <2>1, <2>3, <1>14 DEF Precedes
  <2>6. pipe' = "NORMAL" => squashSN' = 0
    BY <1>14
  <2> QED BY <2>2, <2>3, <2>4, <2>5, <2>6, <1>1 DEF Squashing
<1>39. Flushing'
  <2>1. pipe' = "FLUSH" => Units' = {}
    <3>1. Len(EU') = Width
      BY <1>9, Sizes, <1>3
    <3> QED BY <3>1, <1>14 DEF Units, Elements
  <2>2. FlushedIn({"EXECUTE"})' =>
          /\ \A i \in Elements(windows) \cup Elements(issuePort') : i < squashSN'
          /\ \A i \in Units' : i < squashSN'
          /\ \A i \in Elements(LQ) \cup Elements(SQ) : i < squashSN'
    <3> SUFFICES ASSUME FlushedIn({"EXECUTE"})'
                 PROVE  /\ \A i \in Elements(windows) \cup Elements(issuePort') : i < squashSN
                        /\ \A i \in Units' : i < squashSN
                        /\ \A i \in Elements(LQ) \cup Elements(SQ) : i < squashSN
      BY <1>f
    <3>1. FlushedIn({"EXECUTE"})
          /\ FlushedIn({"DECODE", "FETCH", "COMMIT", "MEMORY", "EXECUTE"})
      BY <1>f, <1>g
    <3>2. /\ \A i \in Elements(windows) \cup Elements(issuePort) : i < squashSN
          /\ \A i \in Elements(LQ) \cup Elements(SQ) : i < squashSN
      BY <3>1 DEF IInv, Flushing
    <3>3. \A i \in Units : i < squashSN
      BY <3>1 DEF IInv, Flushing, FlushedIn
    <3> QED BY <3>2, <3>3, <1>9, <1>10
  <2>3. pipe' \in {"DRAIN", "SQUASH_ROB"} => FlushedIn({"EXECUTE"})'
    BY DEF FlushedIn
  <2> QED BY <2>1, <2>2, <2>3, <1>g DEF Flushing
<1>40. Permits'
  <2>0. \A b \in Blocks : b > supplied' => blk'[b].permit
    BY <1>13 DEF IInv, Permits
  <2> SUFFICES ASSUME NEW b \in Traced, ~blk'[b].permit
               PROVE  /\ \A d \in Traced : b <= d
                      /\ ~blk'[b].memViolation
                      /\ \A i \in BlockIns(b) : ~ins'[i].overtook
                      /\ \A l \in BlockIns(b) \cap LoadIds, s \in BlockIns(b) \cap StoreIds :
                           s < l /\ ins'[l].stage = "COMPLETE" => ins'[s].stage = "COMPLETE"
    BY <2>0 DEF Permits
  <2>1. /\ b \in Blocks /\ ~blk[b].permit
    BY <1>3, <1>13, ElementTypes
  <2>2. /\ \A d \in Traced : b <= d
        /\ ~blk[b].memViolation
        /\ \A i \in BlockIns(b) : ~ins[i].overtook
        /\ \A l \in BlockIns(b) \cap LoadIds, s \in BlockIns(b) \cap StoreIds :
             s < l /\ ins[l].stage = "COMPLETE" => ins[s].stage = "COMPLETE"
    BY <2>1 DEF IInv, Permits
  <2>3. ~blk'[b].memViolation
    BY <2>1, <2>2, <1>13
  <2>4. BlockIns(b) \subseteq Ids
    BY DEF BlockIns
  <2>5. \A i \in BlockIns(b) : ~ins'[i].overtook
    BY <2>2, <2>4, <1>12
  <2>6. ASSUME NEW l \in BlockIns(b) \cap LoadIds, NEW s \in BlockIns(b) \cap StoreIds,
               s < l, ins'[l].stage = "COMPLETE"
        PROVE  ins'[s].stage = "COMPLETE"
    <3>1. l \notin start /\ l \notin done
      BY <2>6, <1>12 DEF LoadIds
    <3>2. ins[l].stage = "COMPLETE"
      BY <3>1, <2>4, <2>6, <1>12
    <3>3. ins[s].stage = "COMPLETE"
      BY <3>2, <2>2, <2>6
    <3>4. s \notin done \cup start
      BY <3>3, <1>7
    <3> QED BY <3>3, <3>4, <2>4, <1>12
  <2> QED BY <2>2, <2>3, <2>5, <2>6
<1> QED BY <1>30, <1>31, <1>32, <1>33, <1>34, <1>35, <1>36, <1>37, <1>38, <1>39, <1>40 DEF IInv

-----------------------------------------------------------------------------
(* The squash.  The block squashed is the oldest in flight, and nothing is *)
(* left of it or of younger ones but in bbROB and bbQUE.                   *)

LEMMA BeforeSquash ==
  ASSUME IInv, turn = "SQUASH"
  PROVE  /\ pipe = "SQUASH_ROB" /\ Culprit /\ squashSN = BBheadID(squashBB)
         /\ squashBB \in Fetched /\ squashBB \in InROB
         /\ \A b \in Fetched : squashBB <= b /\ BBheadID(b) >= squashSN
         /\ \A i \in FetchedIns : i >= squashSN
         /\ fetchPort = << >> /\ decodePort = << >>
         /\ windows = << >> /\ issuePort = << >> /\ LQ = << >> /\ Units = {}
         /\ Elements(SQ) \cap Dispatched = {}
         /\ \A i \in Elements(SQ) : i < squashSN
<1>1. /\ TypeOK /\ Ids \in SUBSET Nat /\ Blocks \in SUBSET Nat
      /\ \A i \in Ids : BB(i) \in Blocks
  BY Numbers DEF IInv
<1>2. /\ pipe = "SQUASH_ROB" /\ Culprit /\ squashSN = BBheadID(squashBB)
      /\ \A b \in Fetched : squashBB <= b
  BY DEF IInv, Squashing
<1>3. /\ FetchedIns \subseteq Ids /\ Dispatched \subseteq FetchedIns
      /\ Waiting \subseteq Dispatched /\ Fetched \subseteq Blocks
      /\ InROB = {BB(i) : i \in Dispatched} /\ InROB \subseteq Fetched
  BY Flight DEF IInv, WindowOrder
<1>4. squashBB \in InROB /\ squashBB \in Fetched /\ squashBB \in Blocks
  BY <1>2, <1>3 DEF Culprit, squashBB
<1>5. ASSUME NEW b \in Fetched PROVE BBheadID(b) >= squashSN /\ BBheadID(b) \in Nat /\ squashSN \in Nat
  <2>1. b \in Blocks /\ squashBB \in Blocks /\ squashBB <= b
    BY <1>2, <1>3, <1>4, <1>5
  <2>2. /\ BBheadID(b) \in Nat /\ BBheadID(squashBB) \in Nat
        /\ BBheadID(squashBB) <= BBheadID(b) <=> squashBB <= b
    BY <2>1, <1>1, HeadsOfBlocks
  <2> QED BY <2>1, <2>2, <1>2
<1>6. ASSUME NEW i \in FetchedIns PROVE i >= squashSN
  <2>1. BB(i) \in Fetched /\ i \in Ids /\ i \in Nat
    BY <1>1, <1>3 DEF FetchedIns
  <2>2. BBheadID(BB(i)) <= i
    BY <2>1, <1>1, BlockOrder
  <2> QED BY <2>1, <2>2, <1>5
<1>7. /\ fetchPort = << >> /\ decodePort = << >>
      /\ \A i \in Elements(windows) \cup Elements(issuePort) : i < squashSN
      /\ \A i \in Units : i < squashSN
      /\ \A i \in Elements(LQ) \cup Elements(SQ) : i < squashSN
  BY <1>2 DEF IInv, WindowOrder, Flushing, FlushedIn
<1>8. ASSUME NEW i \in Dispatched PROVE ~(i < squashSN)
  <2>1. i >= squashSN /\ i \in Nat /\ squashSN \in Nat
    BY <1>1, <1>3, <1>5, <1>4, <1>6
  <2> QED BY <2>1
<1>9. Elements(windows) = {} /\ Elements(issuePort) = {} /\ Units = {}
  BY <1>3, <1>7, <1>8 DEF Waiting
<1>10. Elements(LQ) = {} /\ Elements(SQ) \cap Dispatched = {}
  BY <1>7, <1>8 DEF IInv, LSQ
<1>11. windows = << >> /\ issuePort = << >> /\ LQ = << >>
  BY <1>1, <1>9, <1>10, QueueTypes, ElementsIn
<1> QED BY <1>2, <1>4, <1>5, <1>6, <1>7, <1>9, <1>10, <1>11

(* Blocks that are put back start again, and nothing is in flight.         *)
PutsBack(k) ==
    /\ UNCHANGED <<program, supplied, retired, fetchPort, decodePort, windows,
                   issuePort, EU, LQ, SQ, pipe, squashSN, badInsID>>
    /\ turn' = "SCHEDULE" /\ currentBB' = NoBB /\ squashType' = "NO_MISPRED"
    /\ bbQUE' = << >> /\ bbROB' = << >>
    /\ bbCache' = Drop(bbQUE, k) \o bbCache
    /\ deleted' \subseteq Blocks
    /\ ins' \in [Ids -> InsState] /\ blk' \in [Blocks -> BlkState]
    /\ \A i \in Ids : ins'[i] = IF BB(i) \in Elements(Drop(bbQUE, k)) THEN NewIns ELSE ins[i]
    /\ \A b \in Blocks \ Elements(Drop(bbQUE, k)) : blk'[b] = blk[b]
    /\ \A b \in Elements(Drop(bbQUE, k)) :
         /\ blk'[b] = [NewBlock EXCEPT !.permit = blk'[b].permit]
         /\ ~blk'[b].permit => ~blk[b].permit \/ b = squashBB

LEMMA PutBack ==
  ASSUME IInv, turn = "SQUASH", NEW k \in 0 .. Len(bbQUE), PutsBack(k)
  PROVE  IInv'
<1> DEFINE back == Drop(bbQUE, k)
           B == Elements(back)
<1>u. /\ UNCHANGED <<program, supplied, retired, fetchPort, decodePort, windows,
                     issuePort, EU, LQ, SQ, pipe, squashSN, badInsID>>
      /\ turn' = "SCHEDULE" /\ currentBB' = NoBB /\ squashType' = "NO_MISPRED"
      /\ bbQUE' = << >> /\ bbROB' = << >>
      /\ bbCache' = back \o bbCache
      /\ deleted' \subseteq Blocks
      /\ ins' \in [Ids -> InsState] /\ blk' \in [Blocks -> BlkState]
      /\ \A i \in Ids : ins'[i] = IF BB(i) \in B THEN NewIns ELSE ins[i]
      /\ \A b \in Blocks \ B : blk'[b] = blk[b]
      /\ \A b \in B :
           /\ blk'[b] = [NewBlock EXCEPT !.permit = blk'[b].permit]
           /\ ~blk'[b].permit => ~blk[b].permit \/ b = squashBB
  BY DEF PutsBack
<1>t. /\ Ids' = Ids /\ Blocks' = Blocks /\ LoadIds' = LoadIds /\ StoreIds' = StoreIds
      /\ HeadIds' = HeadIds /\ LastBlock' = LastBlock
      /\ \A i : Op(i)' = Op(i) /\ BB(i)' = BB(i) /\ WrongPath(i)' = WrongPath(i)
      /\ \A b : /\ BlockIns(b)' = BlockIns(b) /\ BBsize(b)' = BBsize(b)
                /\ BBheadID(b)' = BBheadID(b) /\ isOnWrongPath(b)' = isOnWrongPath(b)
  BY <1>u, ProgramStays
<1>3. /\ TypeOK /\ Ids \in SUBSET Nat /\ Blocks \in SUBSET Nat /\ NoBB \notin Blocks
      /\ \A i \in Ids : BB(i) \in Blocks
  BY Numbers DEF IInv
<1>4. /\ bbQUE \in Seq(Blocks) /\ Increasing(bbQUE) /\ bbCache \in Seq(Blocks)
      /\ Increasing(bbCache) /\ Fetched \subseteq Blocks /\ Traced \subseteq Blocks
  BY <1>3, QueueTypes, ElementTypes DEF IInv, InOrder
<1>5. /\ pipe = "SQUASH_ROB" /\ Culprit /\ squashSN = BBheadID(squashBB)
      /\ squashBB \in Fetched
      /\ \A b \in Fetched : squashBB <= b
      /\ fetchPort = << >> /\ decodePort = << >>
      /\ windows = << >> /\ issuePort = << >> /\ LQ = << >> /\ Units = {}
      /\ Elements(SQ) \cap Dispatched = {}
      /\ \A i \in Elements(SQ) : i < squashSN
  BY BeforeSquash
<1>6. /\ back \in Seq(Blocks) /\ Increasing(back) /\ B \subseteq Fetched
      /\ \A b \in B, d \in Fetched : b <= d => d \in B
  <2> DEFINE front == Take(bbQUE, k)
  <2>1. back \in Seq(Blocks)
    BY <1>4, TakeDrop
  <2>2. /\ Increasing(back) /\ Before(Elements(front), B)
        /\ B = Elements(bbQUE) \ Elements(front)
    BY <1>3, <1>4, IncreasingTakeDrop
  <2>3. ASSUME NEW b \in B, NEW d \in Fetched, b <= d PROVE d \in B
    <3>1. d \in Elements(front) => d < b
      BY <2>2, <2>3 DEF Before
    <3>2. b \in Nat /\ d \in Nat
      BY <2>2, <2>3, <1>3, <1>4 DEF Fetched
    <3> QED BY <3>1, <3>2, <2>2, <2>3 DEF Fetched
  <2> QED BY <2>1, <2>2, <2>3 DEF Fetched
<1>7. /\ Before(Fetched, Elements(bbCache)) /\ Before(Elements(retired), Traced)
      /\ Elements(retired) \cup Traced \subseteq 1 .. supplied
      /\ \A b \in Elements(retired) : ~isOnWrongPath(b)
      /\ \A b \in Traced : b .. supplied \subseteq Traced
  BY DEF IInv, TraceOrder
<1> HIDE DEF back
<1>8. /\ bbCache' \in Seq(Blocks) /\ Increasing(bbCache')
      /\ Elements(bbCache') = B \cup Elements(bbCache)
  <2>1. Before(B, Elements(bbCache))
    BY <1>6, <1>7 DEF Before
  <2>2. /\ back \o bbCache \in Seq(Blocks)
        /\ Elements(back \o bbCache) = Elements(back) \cup Elements(bbCache)
    BY <1>4, <1>6, Concat, ZenonT(60)
  <2>3. Increasing(back \o bbCache)
    BY <2>1, <1>4, <1>6, Concat
  <2> QED BY <2>2, <2>3, <1>u
<1> HIDE DEF B
<1>e. /\ Fetched' = {} /\ FetchedIns' = {} /\ Popped' = {} /\ Dispatched' = {}
      /\ InROB' = {} /\ Units' = {} /\ Window' = {} /\ Waiting' = {}
      /\ Traced' = B \cup Elements(bbCache)
  <2>1. Elements(<< >>) = {}
    BY DEF Elements
  <2>2. Fetched' = {} /\ InROB' = {}
    BY <2>1, <1>u DEF Fetched, InROB
  <2>3. FetchedIns' = {} /\ Popped' = {} /\ Dispatched' = {}
    BY <2>2 DEF FetchedIns, Popped, Dispatched
  <2>4. Units' = {}
    BY <1>5, <1>u DEF Units
  <2>5. Window' = {} /\ Waiting' = {}
    BY <2>1, <2>3, <2>4, <1>5, <1>u DEF Window, Waiting
  <2> QED BY <2>2, <2>3, <2>4, <2>5, <1>8 DEF Traced
<1>9. Traced' \subseteq Traced
  BY <1>e, <1>6 DEF Traced
<1>10. ASSUME NEW b \in Traced' PROVE b .. supplied \subseteq Traced'
  <2> SUFFICES ASSUME NEW d \in b .. supplied PROVE d \in Traced'
    OBVIOUS
  <2>1. b \in Traced /\ d \in Traced
    BY <1>7, <1>9
  <2>2. b \in Nat /\ d \in Nat /\ b <= d
    BY <2>1, <1>3, <1>4
  <2>3. CASE d \in Elements(bbCache)
    BY <2>3, <1>e
  <2>4. CASE d \in Fetched
    <3>1. b \notin Elements(bbCache)
      BY <2>2, <2>4, <1>7 DEF Before
    <3> QED BY <3>1, <2>2, <2>4, <1>6, <1>e
  <2> QED BY <2>1, <2>3, <2>4 DEF Traced
<1>11. /\ ins \in [Ids -> InsState] /\ blk \in [Blocks -> BlkState]
       /\ \A b \in Blocks : blk[b].fetched <= BBsize(b) /\ blk[b].completed <= BBsize(b)
  BY <1>3, Tables
<1>12. \A b \in B : /\ blk'[b].fetched = 0 /\ blk'[b].completed = 0
                    /\ ~blk'[b].doneFetch /\ ~blk'[b].memViolation
  <2> TAKE b \in B
  <2>1. blk'[b] = [NewBlock EXCEPT !.permit = blk'[b].permit]
    BY <1>u
  <2> QED BY <2>1 DEF NewBlock
<1> USE <1>u, <1>t, <1>e
<1>31. TypeOK'
  <2>1. ins' \in [Ids' -> [stage : Stage, lsq : LsqState, memViolation : BOOLEAN,
                           cacheAxes : BOOLEAN, overtook : BOOLEAN]]
    BY DEF InsState
  <2>2. \A q \in {bbCache', bbQUE', bbROB', retired'} : q \in Seq(Blocks')
    <3>1. << >> \in Seq(Blocks) /\ retired \in Seq(Blocks)
      BY <1>3, QueueTypes
    <3>2. bbCache' \in Seq(Blocks)
      BY <1>8
    <3> QED BY <3>1, <3>2
  <2>3. Len(bbROB') <= RobSize
    BY <1>3, Sizes
  <2>4. blk' \in [Blocks' -> [fetched : Nat, doneFetch : BOOLEAN, completed : Nat,
                              memViolation : BOOLEAN, permit : BOOLEAN]]
    BY DEF BlkState
  <2>5. \A b \in Blocks : blk'[b].fetched <= BBsize(b) /\ blk'[b].completed <= BBsize(b)
    <3> TAKE b \in Blocks
    <3>1. CASE b \in B
      <4>1. BBsize(b) \in Nat
        BY <1>3, BlockShape
      <4>2. blk'[b].fetched = 0 /\ blk'[b].completed = 0
        BY <3>1, <1>12
      <4> QED BY <4>1, <4>2
    <3>2. CASE b \notin B
      BY <3>2, <1>11
    <3> QED BY <3>1, <3>2
  <2>6. currentBB' \in Blocks' \cup {NoBB}
    OBVIOUS
  <2> QED BY <1>3, <2>1, <2>2, <2>3, <2>4, <2>5, <2>6 DEF TypeOK
<1>32. InOrder'
  <2>1. Increasing(<< >>)
    BY DEF Increasing
  <2> QED BY <2>1, <1>8 DEF IInv, InOrder
<1>33. TraceOrder'
  <2>1. Before(Elements(retired), Traced') /\ Before({}, Elements(bbCache'))
    BY <1>7, <1>9 DEF Before
  <2>2. Elements(retired) \cup Traced' \subseteq 1 .. supplied
    BY <1>7, <1>9
  <2> QED BY <2>1, <2>2, <1>7, <1>10 DEF TraceOrder
<1>34. Fetching'
  <2> SUFFICES ASSUME NEW b \in Blocks, b \in Elements(bbCache') \/ b > supplied
               PROVE  Fresh(b)'
    BY DEF Fetching
  <2>1. \A i \in BlockIns(b) : i \in Ids /\ BB(i) = b
    BY DEF BlockIns
  <2>2. CASE b \in B
    <3>1. \A i \in BlockIns(b) : ins'[i] = NewIns
      BY <2>1, <2>2
    <3> QED BY <3>1, <2>2 DEF Fresh
  <2>3. CASE b \notin B
    <3>1. Fresh(b)
      BY <2>3, <1>8 DEF IInv, Fetching
    <3>2. blk'[b] = blk[b] /\ \A i \in BlockIns(b) : ins'[i] = ins[i]
      BY <2>1, <2>3
    <3> QED BY <3>1, <3>2 DEF Fresh
  <2> QED BY <2>2, <2>3
<1>35. MovesOn'
  BY DEF MovesOn
<1>36. WindowOrder'
  BY <1>5 DEF WindowOrder, Before, DownClosed, Elements
<1>37. Stages'
  BY <1>5 DEF Stages, Elements
<1>38. Counting'
  BY DEF Counting
<1>39. LSQ'
  <2>1. \A i \in Elements(SQ) :
          /\ BB(i) \in Elements(retired)
          /\ ins'[i].stage = "COMMIT" /\ ins'[i].lsq \in {"COMMIT", "CACHE_DISPATCH"}
    <3> TAKE i \in Elements(SQ)
    <3>1. i \in Ids /\ i \notin Dispatched
      BY <1>3, <1>5, ElementTypes
    <3>2. /\ BB(i) \in Elements(retired) /\ ins[i].stage = "COMMIT"
          /\ ins[i].lsq \in {"COMMIT", "CACHE_DISPATCH"}
      BY <3>1 DEF IInv, LSQ
    <3>3. BB(i) \notin B
      <4>1. BB(i) \in B => BB(i) < BB(i)
        BY <3>2, <1>6, <1>7 DEF Before, Traced
      <4>2. BB(i) \in Nat
        BY <3>1, <1>3
      <4> QED BY <4>1, <4>2
    <3> QED BY <3>1, <3>2, <3>3
  <2>2. Elements(SQ) \subseteq StoreIds /\ Elements(LQ) = {}
    BY <1>5 DEF IInv, LSQ, Elements
  <2> QED BY <2>1, <2>2 DEF LSQ, DownClosed
<1>40. Squashing'
  BY <1>5 DEF IInv, Squashing, squashBB
<1>41. Flushing'
  BY <1>5 DEF Flushing, Elements
<1>42. Permits'
  <2>1. \A b \in Blocks : b > supplied => blk'[b].permit
    <3> TAKE b \in Blocks
    <3> HAVE b > supplied
    <3>1. b \notin B
      BY <1>3, <1>6, <1>7, Tables DEF Traced
    <3> QED BY <3>1 DEF IInv, Permits
  <2> SUFFICES ASSUME NEW b \in Traced', ~blk'[b].permit
               PROVE  /\ \A d \in Traced' : b <= d
                      /\ ~blk'[b].memViolation
                      /\ \A i \in BlockIns(b) : ~ins'[i].overtook
                      /\ \A l \in BlockIns(b) \cap LoadIds, s \in BlockIns(b) \cap StoreIds :
                           s < l /\ ins'[l].stage = "COMPLETE" => ins'[s].stage = "COMPLETE"
    BY <2>1 DEF Permits
  <2>2. b \in Traced /\ \A i \in BlockIns(b) : i \in Ids /\ BB(i) = b
    BY <1>9 DEF BlockIns
  <2>3. CASE b \in B
    <3>1. \A i \in BlockIns(b) : ins'[i] = NewIns
      BY <2>2, <2>3
    <3>2. \A d \in Traced : b <= d
      <4>1. CASE ~blk[b].permit
        BY <4>1, <2>2 DEF IInv, Permits
      <4>2. CASE b = squashBB
        <5>1. \A d \in Elements(bbCache) : b < d
          BY <4>2, <1>5, <1>7 DEF Before
        <5>2. \A d \in Traced : d \in Nat /\ b \in Nat
          BY <2>2, <1>3, <1>4
        <5> QED BY <4>2, <5>1, <5>2, <1>5 DEF Traced
      <4> QED BY <4>1, <4>2, <2>3
    <3>3. ~blk'[b].memViolation
      BY <2>3, <1>9, <1>12
    <3>4. \A i \in BlockIns(b) : ~ins'[i].overtook /\ ins'[i].stage # "COMPLETE"
      BY <3>1 DEF NewIns
    <3> QED BY <3>2, <3>3, <3>4, <1>9
  <2>4. CASE b \notin B
    <3>1. blk'[b] = blk[b] /\ \A i \in BlockIns(b) : ins'[i] = ins[i]
      BY <2>2, <2>4, <1>4
    <3>2. ~blk[b].permit
      BY <3>1
    <3>3. /\ \A d \in Traced : b <= d
          /\ ~blk[b].memViolation
          /\ \A i \in BlockIns(b) : ~ins[i].overtook
          /\ \A l \in BlockIns(b) \cap LoadIds, s \in BlockIns(b) \cap StoreIds :
               s < l /\ ins[l].stage = "COMPLETE" => ins[s].stage = "COMPLETE"
      BY <3>2, <2>2 DEF IInv, Permits
    <3>4. \A d \in Traced' : b <= d
      BY <3>3, <1>9
    <3>5. ~blk'[b].memViolation /\ \A i \in BlockIns(b) : ~ins'[i].overtook
      BY <3>1, <3>3
    <3>6. ASSUME NEW l \in BlockIns(b) \cap LoadIds, NEW s \in BlockIns(b) \cap StoreIds,
                 s < l, ins'[l].stage = "COMPLETE"
          PROVE  ins'[s].stage = "COMPLETE"
      <4>1. ins'[l] = ins[l] /\ ins'[s] = ins[s]
        BY ONLY <3>1, <3>6
      <4>2. ins[l].stage = "COMPLETE"
        BY ONLY <3>6, <4>1
      <4>3. ins[s].stage = "COMPLETE"
        BY ONLY <3>3, <3>6, <4>2
      <4> QED BY ONLY <4>1, <4>3
    <3> QED BY ONLY <3>4, <3>5, <3>6
  <2> QED BY <2>3, <2>4
<1> QED BY <1>31, <1>32, <1>33, <1>34, <1>35, <1>36, <1>37, <1>38, <1>39, <1>40, <1>41, <1>42 DEF IInv

(* When the squash comes nothing in flight is older than the squash        *)
(* number: both queues empty.                                              *)
LEMMA NothingOlder ==
  ASSUME IInv, turn = "SQUASH", NEW q \in {bbQUE, bbROB}
  PROVE  FlushBlocks(q, squashSN) = << >>
<1>1. /\ Elements(q) \subseteq Fetched /\ q \in Seq(Blocks) /\ Len(q) \in Nat
      /\ \A n \in 1 .. Len(q) : q[n] \in Elements(q)
  <2>1. q \in Seq(Blocks) /\ Elements(q) \subseteq Fetched
    BY QueueTypes, Flight DEF IInv, Fetched, InROB
  <2> QED BY <2>1, ElementsIn
<1>2. \A n \in 1 .. Len(q) : BBheadID(q[n]) >= squashSN /\ BBheadID(q[n]) \in Nat
  <2> TAKE n \in 1 .. Len(q)
  <2>1. q[n] \in Fetched /\ q[n] \in Blocks /\ TypeOK
    BY <1>1, Flight DEF IInv
  <2> QED BY <2>1, BeforeSquash, BlockShape
<1>3. squashSN \in Nat
  BY SquashNumber DEF IInv
<1> DEFINE M == {0} \cup {n \in 1 .. Len(q) : BBheadID(q[n]) < squashSN}
<1>4. M = {0}
  BY <1>2, <1>3
<1>5. Max(M) = 0
  <2>1. Max({0}) = 0
    BY DEF Max
  <2> QED BY <2>1, <1>4
<1>6. FlushBlocks(q, squashSN) = Take(q, 0)
  BY <1>5 DEF FlushBlocks
<1>7. Take(q, 0) \in Seq(Blocks) /\ Len(Take(q, 0)) = 0
  <2>1. 0 \in 0 .. Len(q)
    BY <1>1
  <2> QED BY <2>1, <1>1, TakeDrop
<1> QED BY <1>6, <1>7, EmptySeq

ResetBlock(b, permit) == [NewBlock EXCEPT !.permit = permit]

LEMMA ResetFields ==
  ASSUME NEW b, NEW permit \in BOOLEAN
  PROVE  LET t == ResetBlock(b, permit)
         IN t \in BlkState /\ t.permit = permit /\ t = [NewBlock EXCEPT !.permit = t.permit]
BY DEF ResetBlock, NewBlock, BlkState

(* The blocks of B start again, each with its permit. *)
Resets(B, permit) ==
    /\ B \subseteq Blocks /\ \A b \in B : permit[b] \in BOOLEAN
    /\ ins' = Replace(ins, [i \in {j \in Ids : BB(j) \in B} |-> NewIns])
    /\ blk' = Replace(blk, [b \in B |-> ResetBlock(b, permit[b])])

HasReset(B, permit) ==
    /\ ins' \in [Ids -> InsState] /\ blk' \in [Blocks -> BlkState]
    /\ \A i \in Ids : ins'[i] = IF BB(i) \in B THEN NewIns ELSE ins[i]
    /\ \A b \in Blocks \ B : blk'[b] = blk[b]
    /\ \A b \in B : /\ blk'[b] = [NewBlock EXCEPT !.permit = blk'[b].permit]
                    /\ blk'[b].permit = permit[b]

LEMMA ResetTables ==
  ASSUME IInv, NEW B, NEW permit, Resets(B, permit)
  PROVE  HasReset(B, permit)
<1> USE DEF Resets
<1>1. /\ ins \in [Ids -> InsState] /\ blk \in [Blocks -> BlkState]
      /\ NewIns \in InsState
  BY Tables DEF IInv
<1>2. ins' = [i \in Ids |-> IF BB(i) \in B THEN NewIns ELSE ins[i]]
  BY <1>1 DEF Replace
<1>3. blk' = [b \in Blocks |-> IF b \in B THEN ResetBlock(b, permit[b]) ELSE blk[b]]
  BY <1>1 DEF Replace
<1>4. \A b \in B : /\ ResetBlock(b, permit[b]) \in BlkState
                   /\ ResetBlock(b, permit[b]).permit = permit[b]
                   /\ ResetBlock(b, permit[b]) = [NewBlock EXCEPT !.permit = ResetBlock(b, permit[b]).permit]
  BY ResetFields
<1>5. /\ ins' \in [Ids -> InsState]
      /\ \A i \in Ids : ins'[i] = IF BB(i) \in B THEN NewIns ELSE ins[i]
  BY <1>1, <1>2
<1>6. \A b \in Blocks : blk'[b] = IF b \in B THEN ResetBlock(b, permit[b]) ELSE blk[b]
  BY <1>3
<1>7. blk' \in [Blocks -> BlkState]
  BY <1>1, <1>3, <1>4
<1>8. \A b \in B : blk'[b] = ResetBlock(b, permit[b])
  BY <1>6
<1> QED BY <1>4, <1>5, <1>6, <1>7, <1>8 DEF HasReset

(* The block squashed is the first of bbQUE. *)
LEMMA SquashedFirst ==
  ASSUME IInv, turn = "SQUASH"
  PROVE  /\ bbROB # << >> /\ bbQUE # << >>
         /\ bbQUE[1] = squashBB /\ 1 \in 1 .. Len(bbQUE)
         /\ Drop(bbQUE, 0) \in Seq(Blocks) /\ Drop(bbQUE, 0) # << >>
         /\ Head(Drop(bbQUE, 0)) = squashBB
<1>2. /\ TypeOK /\ Blocks \in SUBSET Nat /\ bbQUE \in Seq(Blocks) /\ Increasing(bbQUE)
      /\ Fetched \subseteq Blocks /\ deleted \subseteq Blocks /\ Len(bbQUE) \in Nat
      /\ blk \in [Blocks -> BlkState]
  <2>1. TypeOK /\ Blocks \in SUBSET Nat /\ deleted \subseteq Blocks
    BY Numbers DEF IInv, TypeOK
  <2> QED BY <2>1, QueueTypes, ElementTypes, ElementsIn, Tables DEF IInv, InOrder
<1>3. /\ squashBB \in Fetched /\ squashBB \in InROB /\ squashSN = BBheadID(squashBB)
      /\ \A b \in Fetched : squashBB <= b
  BY BeforeSquash
<1>4. bbROB # << >> /\ bbQUE # << >>
  BY <1>3 DEF InROB, Fetched, Elements
<1>5. bbQUE[1] = squashBB /\ 1 \in 1 .. Len(bbQUE)
  <2>1. 1 \in 1 .. Len(bbQUE)
    BY <1>2, <1>4, EmptySeq
  <2>2. bbQUE[1] \in Fetched
    BY <2>1 DEF Fetched, Elements
  <2>3. bbQUE[1] <= squashBB /\ squashBB <= bbQUE[1]
    <3>1. squashBB \in Elements(bbQUE)
      BY <1>3 DEF Fetched
    <3> QED BY <3>1, <2>2, <1>2, <1>3, FirstIsLeast
  <2>4. bbQUE[1] \in Nat /\ squashBB \in Nat
    BY <2>2, <1>2, <1>3
  <2> QED BY <2>1, <2>3, <2>4
<1>6. /\ Drop(bbQUE, 0) \in Seq(Blocks) /\ Drop(bbQUE, 0) # << >>
      /\ Head(Drop(bbQUE, 0)) = squashBB
  <2> DEFINE back == Drop(bbQUE, 0)
  <2>1. 0 \in 0 .. Len(bbQUE)
    BY <1>2
  <2>2. /\ back \in Seq(Blocks) /\ Len(back) = Len(bbQUE) - 0
        /\ \A n \in 1 .. Len(bbQUE) - 0 : back[n] = bbQUE[0 + n]
    BY <2>1, <1>2, TakeDrop
  <2> HIDE DEF back
  <2>3. Len(back) # 0 /\ 1 \in 1 .. Len(bbQUE) - 0
    BY <2>2, <1>2, <1>5
  <2>4. back[1] = bbQUE[0 + 1] /\ back # << >>
    BY <2>2, <2>3, EmptySeq
  <2>5. Head(back) = back[1]
    BY <2>2, <2>4
  <2> QED BY <1>5, <2>2, <2>4, <2>5 DEF back
<1> QED BY <1>4, <1>5, <1>6

(* A branch squash deletes the front of bbQUE, the squashed block and what  *)
(* follows it on the wrong path, and puts the rest back.                   *)
Deletes(stop) ==
    /\ insertFrontBBcache(Drop(bbQUE, stop))
    /\ blk' = Replace(blk, [b \in Elements(Drop(bbQUE, stop)) |-> resetStates(b)])
    /\ deleted' = deleted \cup {bbQUE[n] : n \in 1 .. stop}
    /\ bbQUE' = << >>
    /\ \A n \in 2 .. stop : ~endsWrongPath(bbQUE[n])

LEMMA BranchSquash ==
  ASSUME IInv, turn = "SQUASH", bpMispredSquash
  PROVE  \E stop \in 0 .. Len(bbQUE) : Deletes(stop)
<1>2. /\ TypeOK /\ Blocks \in SUBSET Nat /\ bbQUE \in Seq(Blocks) /\ Increasing(bbQUE)
      /\ Fetched \subseteq Blocks /\ Len(bbQUE) \in Nat
  <2>1. TypeOK /\ Blocks \in SUBSET Nat
    BY Numbers DEF IInv, TypeOK
  <2> QED BY <2>1, QueueTypes, ElementTypes, ElementsIn DEF IInv, InOrder
<1>3. squashBB \in Fetched /\ squashSN = BBheadID(squashBB)
  BY BeforeSquash
<1>5. bbQUE[1] = squashBB /\ 1 \in 1 .. Len(bbQUE)
  BY SquashedFirst
<1> DEFINE at == {n \in 1 .. Len(bbQUE) : BBheadID(bbQUE[n]) = squashSN}
           start == IF at = {} THEN 1 ELSE Max(at)
           right == {n \in 1 .. Len(bbQUE) :
                       BBheadID(bbQUE[n]) > squashSN /\ endsWrongPath(bbQUE[n])}
           stop == IF right = {} THEN Len(bbQUE) ELSE Min(right) - 1
           back == Drop(bbQUE, stop)
<1>6. /\ insertFrontBBcache(back)
      /\ blk' = Replace(blk, [b \in Elements(back) |-> resetStates(b)])
      /\ deleted' = deleted \cup {bbQUE[n] : n \in start .. stop}
      /\ bbQUE' = Take(bbQUE, start - 1)
  BY DEF bpMispredSquash
<1>7. \A n \in 2 .. Len(bbQUE) : /\ BBheadID(bbQUE[n]) > squashSN
                                /\ BBheadID(bbQUE[n]) # squashSN
  <2> TAKE n \in 2 .. Len(bbQUE)
  <2>1. n \in 1 .. Len(bbQUE) /\ 1 < n
    BY <1>2
  <2>2. bbQUE[1] < bbQUE[n]
    BY <2>1, <1>2, <1>5 DEF Increasing
  <2>3. bbQUE[n] \in Blocks /\ squashBB \in Blocks
    BY <2>1, <1>2, <1>3, ElementsIn
  <2>4. /\ BBheadID(squashBB) \in Nat /\ BBheadID(bbQUE[n]) \in Nat
        /\ BBheadID(squashBB) < BBheadID(bbQUE[n])
    BY <2>2, <2>3, <1>2, <1>5, HeadsOfBlocks
  <2> QED BY <2>4, <1>3
<1>8. start = 1
  <2>1. 1 \in at
    BY <1>3, <1>5
  <2>2. ASSUME NEW n \in at PROVE n = 1
    BY <1>2, <1>7
  <2>3. at = {1}
    BY <2>1, <2>2
  <2>4. Max({1}) = 1
    BY DEF Max
  <2> QED BY <2>3, <2>4
<1>9. stop \in 0 .. Len(bbQUE) /\ \A n \in 2 .. stop : n \notin right
  <2> DEFINE R == right
  <2>1. R \in SUBSET Nat /\ R \subseteq 1 .. Len(bbQUE)
    BY <1>2
  <2>2. stop = IF R = {} THEN Len(bbQUE) ELSE Min(R) - 1
    OBVIOUS
  <2> HIDE DEF R, stop
  <2>3. CASE R = {}
    BY <2>2, <2>3, <1>2 DEF R
  <2>4. CASE R # {}
    <3>1. \E n \in R : \A m \in R : n <= m
      BY <2>1, <2>4, LeastNat
    <3>2. Min(R) \in R /\ \A m \in R : Min(R) <= m
      BY <3>1 DEF Min
    <3> DEFINE x == Min(R)
    <3>3. /\ x \in 1 .. Len(bbQUE) /\ stop = x - 1 /\ x \in Nat
          /\ \A m \in R : x <= m /\ m \in Nat
      BY <3>2, <2>1, <2>2, <2>4
    <3> HIDE DEF x
    <3>4. stop \in 0 .. Len(bbQUE)
      BY <3>3, <1>2
    <3>5. \A n \in 2 .. stop : n \notin R
      BY <3>3, <1>2
    <3> QED BY <3>4, <3>5 DEF R
  <2> QED BY <2>3, <2>4
<1>10. \A n \in 2 .. stop : ~endsWrongPath(bbQUE[n])
  <2> TAKE n \in 2 .. stop
  <2>1. n \in 2 .. Len(bbQUE) /\ n \in 1 .. Len(bbQUE) /\ n \notin right
    <3> HIDE DEF stop, right
    <3> QED BY <1>9, <1>2
  <2> QED BY <2>1, <1>7
<1> HIDE DEF stop, start, at, right
<1>11. bbQUE' = << >>
  <2>1. start - 1 = 0 /\ 0 \in 0 .. Len(bbQUE)
    BY <1>8, <1>2
  <2>2. Take(bbQUE, 0) \in Seq(Blocks) /\ Len(Take(bbQUE, 0)) = 0
    BY <2>1, <1>2, TakeDrop
  <2> QED BY <2>1, <2>2, <1>6, EmptySeq
<1>12. Deletes(stop)
  BY <1>6, <1>8, <1>10, <1>11 DEF Deletes
<1> QED BY <1>9, <1>12

LEMMA SquashStep ==
  ASSUME IInv, squash
  PROVE  IInv'
<1>1. turn = "SQUASH"
  BY DEF squash
<1>2. /\ TypeOK /\ Blocks \in SUBSET Nat /\ bbQUE \in Seq(Blocks) /\ Increasing(bbQUE)
      /\ Fetched \subseteq Blocks /\ deleted \subseteq Blocks /\ Len(bbQUE) \in Nat
      /\ blk \in [Blocks -> BlkState]
  <2>1. TypeOK /\ Blocks \in SUBSET Nat /\ deleted \subseteq Blocks
    BY Numbers DEF IInv, TypeOK
  <2> QED BY <2>1, QueueTypes, ElementTypes, ElementsIn, Tables DEF IInv, InOrder
<1>3. /\ squashBB \in Fetched /\ squashBB \in InROB /\ squashSN = BBheadID(squashBB)
      /\ \A b \in Fetched : squashBB <= b
  BY <1>1, BeforeSquash
<1>4. bbROB # << >> /\ bbQUE # << >>
  BY <1>1, SquashedFirst
<1>5. bbQUE[1] = squashBB /\ 1 \in 1 .. Len(bbQUE)
  BY <1>1, SquashedFirst
<1>6. FlushBlocks(bbROB, squashSN) = << >> /\ FlushBlocks(bbQUE, squashSN) = << >>
  BY <1>1, NothingOlder
<1>7. /\ turn' = "SCHEDULE" /\ currentBB' = NoBB /\ bbROB' = << >>
      /\ squashType' = "NO_MISPRED"
      /\ UNCHANGED <<program, supplied, retired, fetchPort, decodePort, windows,
                     issuePort, EU, LQ, SQ, pipe, squashSN, badInsID>>
      /\ bpMispredSquash \/ memMispredSquash
  BY <1>4, <1>6 DEF squash
<1>8. CASE bpMispredSquash
  <2>s. PICK stop \in 0 .. Len(bbQUE) : Deletes(stop)
    BY <1>1, <1>8, BranchSquash
  <2> DEFINE back == Drop(bbQUE, stop)
  <2>1. /\ insertFrontBBcache(back)
        /\ blk' = Replace(blk, [b \in Elements(back) |-> resetStates(b)])
        /\ deleted' = deleted \cup {bbQUE[n] : n \in 1 .. stop}
        /\ bbQUE' = << >>
    BY <2>s DEF Deletes
  <2>4. stop \in 0 .. Len(bbQUE)
    BY <2>s
  <2>5. bbQUE' = << >>
    BY <2>1
  <2>6. deleted' \subseteq Blocks
    <3>1. \A n \in 1 .. stop : bbQUE[n] \in Blocks
      BY <2>4, <1>2, ElementsIn
    <3> QED BY <3>1, <2>1, <1>2
  <2>7. Elements(back) \subseteq Blocks
    <3>1. back \in Seq(Blocks)
      BY <2>4, <1>2, TakeDrop
    <3> QED BY <3>1, ElementsIn
  <2> DEFINE B == Elements(back)
             permit == [b \in Blocks |-> blk[b].permit]
  <2> HIDE DEF back
  <2>8. /\ bbCache' = back \o bbCache
        /\ ins' = Replace(ins, [i \in {j \in Ids : BB(j) \in B} |-> NewIns])
    BY <2>1 DEF insertFrontBBcache
  <2>9. blk' = Replace(blk, [b \in B |-> ResetBlock(b, permit[b])])
    <3>1. \A b \in B : resetStates(b) = ResetBlock(b, permit[b])
      BY <2>7 DEF resetStates, ResetBlock
    <3>2. [b \in B |-> resetStates(b)] = [b \in B |-> ResetBlock(b, permit[b])]
      BY <3>1
    <3> QED BY <3>2, <2>1
  <2>10. \A b \in B : permit[b] \in BOOLEAN /\ permit[b] = blk[b].permit
    BY <2>7, <1>2 DEF BlkState
  <2>11. /\ ins' \in [Ids -> InsState] /\ blk' \in [Blocks -> BlkState]
         /\ \A i \in Ids : ins'[i] = IF BB(i) \in B THEN NewIns ELSE ins[i]
         /\ \A b \in Blocks \ B : blk'[b] = blk[b]
         /\ \A b \in B : /\ blk'[b] = [NewBlock EXCEPT !.permit = blk'[b].permit]
                         /\ blk'[b].permit = permit[b]
    <3> HIDE DEF B, permit
    <3>1. B \subseteq Blocks /\ \A b \in B : permit[b] \in BOOLEAN
      BY <2>7, <2>10 DEF B
    <3>2. Resets(B, permit)
      BY <3>1, <2>8, <2>9 DEF Resets
    <3>3. HasReset(B, permit)
      BY <3>2, ResetTables, Zenon
    <3> QED BY <3>3 DEF HasReset
  <2>12. PutsBack(stop)
    BY <1>7, <2>5, <2>6, <2>8, <2>10, <2>11 DEF PutsBack, back
  <2> QED BY <2>4, <2>12, <1>1, PutBack
<1>9. CASE memMispredSquash
  <2> DEFINE back == Drop(bbQUE, 0)
             B == Elements(back)
             permit == [b \in Blocks |-> blk[b].permit /\ b # Head(back)]
  <2>1. /\ insertFrontBBcache(back)
        /\ blk' = Replace(blk, [b \in B |->
                                 [resetStates(b) EXCEPT !.permit = @ /\ b # Head(back)]])
        /\ bbQUE' = << >> /\ deleted' = deleted
    <3>1. Len(<< >>) = 0
      OBVIOUS
    <3> QED BY <3>1, <1>6, <1>9 DEF memMispredSquash
  <2>2. 0 \in 0 .. Len(bbQUE)
    BY <1>2
  <2>3. B \subseteq Blocks /\ Head(back) = squashBB
    <3>1. back \in Seq(Blocks) /\ Head(back) = squashBB
      BY <1>1, SquashedFirst
    <3> QED BY <3>1, ElementsIn
  <2> HIDE DEF back
  <2>8. /\ bbCache' = back \o bbCache
        /\ ins' = Replace(ins, [i \in {j \in Ids : BB(j) \in B} |-> NewIns])
    BY <2>1 DEF insertFrontBBcache
  <2>9. blk' = Replace(blk, [b \in B |-> ResetBlock(b, permit[b])])
    <3>1. ASSUME NEW b \in B
          PROVE  [resetStates(b) EXCEPT !.permit = @ /\ b # Head(back)] = ResetBlock(b, permit[b])
      BY <2>3 DEF resetStates, ResetBlock, NewBlock
    <3>2. [b \in B |-> [resetStates(b) EXCEPT !.permit = @ /\ b # Head(back)]]
            = [b \in B |-> ResetBlock(b, permit[b])]
      BY <3>1
    <3> QED BY <3>2, <2>1
  <2>10. \A b \in B : /\ permit[b] \in BOOLEAN
                      /\ ~permit[b] => ~blk[b].permit \/ b = squashBB
    BY <2>3, <1>2 DEF BlkState
  <2>11. /\ ins' \in [Ids -> InsState] /\ blk' \in [Blocks -> BlkState]
         /\ \A i \in Ids : ins'[i] = IF BB(i) \in B THEN NewIns ELSE ins[i]
         /\ \A b \in Blocks \ B : blk'[b] = blk[b]
         /\ \A b \in B : /\ blk'[b] = [NewBlock EXCEPT !.permit = blk'[b].permit]
                         /\ blk'[b].permit = permit[b]
    <3> HIDE DEF B, permit
    <3>1. B \subseteq Blocks /\ \A b \in B : permit[b] \in BOOLEAN
      BY <2>3, <2>10 DEF B
    <3>2. Resets(B, permit)
      BY <3>1, <2>8, <2>9 DEF Resets
    <3>3. HasReset(B, permit)
      BY <3>2, ResetTables, Zenon
    <3> QED BY <3>3 DEF HasReset
  <2>12. PutsBack(0)
    <3>1. \A b \in B : ~blk'[b].permit => ~blk[b].permit \/ b = squashBB
      BY <2>10, <2>11
    <3> HIDE DEF permit
    <3>2. deleted' \subseteq Blocks
      BY <2>1, <1>2
    <3> QED BY <1>7, <2>1, <2>8, <2>11, <3>1, <3>2 DEF PutsBack, back
  <2> QED BY <2>2, <2>12, <1>1, PutBack
<1> QED BY <1>7, <1>8, <1>9

-----------------------------------------------------------------------------
(* The steps together. *)

LEMMA InitTypes ==
  ASSUME Init
  PROVE  /\ TypeOK /\ Increasing(bbCache) /\ Elements(bbCache) = 1 .. supplied
         /\ supplied \in Nat /\ 1 .. supplied \subseteq Blocks /\ Units = {}
<1> USE DEF Init
<1>1. /\ Ids \in SUBSET Nat /\ Blocks = 1 .. LastBlock /\ LastBlock \in Nat
      /\ Blocks \in SUBSET Nat /\ IsFiniteSet(Ids)
  BY ProgramNumbers
<1>2. /\ supplied \in Blocks /\ supplied \in Nat /\ 1 .. supplied \subseteq Blocks
  <2>1. supplied \in Blocks
    BY DEF supplyPoints
  <2> QED BY <2>1, <1>1
<1>3. /\ bbCache \in Seq(Blocks) /\ Increasing(bbCache)
      /\ Elements(bbCache) = 1 .. supplied
  <2>1. Len(bbCache) = supplied /\ \A b \in 1 .. supplied : bbCache[b] = b
    BY <1>2
  <2>2. bbCache \in Seq(Blocks)
    BY <1>2
  <2>3. Elements(bbCache) = 1 .. supplied
    BY <2>1 DEF Elements
  <2>4. Increasing(bbCache)
    BY <2>1, <1>2 DEF Increasing
  <2> QED BY <2>2, <2>3, <2>4
<1>4. /\ << >> \in Seq(Ids) /\ << >> \in Seq(Blocks) /\ Len(<< >>) = 0
  BY EmptyQueue
<1>5. Units = {}
  <2>1. Width \in Nat
    BY SizesAssumption
  <2>2. Len(EU) = Width /\ \A e \in 1 .. Width : EU[e] = NoIns
    BY <2>1
  <2> QED BY <2>2 DEF Units, Elements
<1>6. TypeOK
  <2>1. \A q \in {bbCache, bbQUE, bbROB, retired} : q \in Seq(Blocks)
    BY <1>3, <1>4
  <2>2. \A q \in {fetchPort, decodePort, windows, issuePort, LQ, SQ} : q \in Seq(Ids)
    BY <1>4
  <2>3. EU \in [1 .. Width -> Ids \cup {NoIns}]
    OBVIOUS
  <2>4. NewIns \in [stage : Stage, lsq : LsqState, memViolation : BOOLEAN,
                    cacheAxes : BOOLEAN, overtook : BOOLEAN]
    BY DEF NewIns, Stage, LsqState
  <2>5. ins \in [Ids -> [stage : Stage, lsq : LsqState, memViolation : BOOLEAN,
                         cacheAxes : BOOLEAN, overtook : BOOLEAN]]
    BY <2>4
  <2>6. NewBlock \in [fetched : Nat, doneFetch : BOOLEAN, completed : Nat,
                      memViolation : BOOLEAN, permit : BOOLEAN]
    BY DEF NewBlock
  <2>7. blk \in [Blocks -> [fetched : Nat, doneFetch : BOOLEAN, completed : Nat,
                            memViolation : BOOLEAN, permit : BOOLEAN]]
    BY <2>6
  <2>8. ASSUME NEW b \in Blocks
        PROVE  blk[b].fetched <= BBsize(b) /\ blk[b].completed <= BBsize(b)
    <3>1. BlockIns(b) \subseteq Ids
      BY DEF BlockIns
    <3>2. BBsize(b) \in Nat
      BY <3>1, <1>1, FS_Subset, FS_CardinalityType DEF BBsize
    <3>3. blk[b] = NewBlock /\ NewBlock.fetched = 0 /\ NewBlock.completed = 0
      BY DEF NewBlock
    <3> QED BY <3>2, <3>3
  <2>9. {PortLen, RobSize, LQSize, SQSize} \subseteq Nat
    BY SizesAssumption
  <2>10. /\ \A q \in {fetchPort, decodePort, issuePort} : Len(q) <= PortLen
         /\ Len(bbROB) <= RobSize /\ Len(LQ) <= LQSize /\ Len(SQ) <= SQSize
    BY <1>4, <2>9
  <2>11. /\ turn = "COMMIT" /\ currentBB \in Blocks \cup {NoBB}
         /\ pipe = "NORMAL" /\ squashSN \in HeadIds \cup {0}
         /\ squashType = "NO_MISPRED" /\ badInsID \in Ids \cup {0} /\ deleted \subseteq Blocks
    OBVIOUS
  <2> QED BY <1>2, <2>1, <2>2, <2>3, <2>5, <2>7, <2>8, <2>10, <2>11 DEF TypeOK
<1> QED BY <1>2, <1>3, <1>5, <1>6

LEMMA InitHolds ==
  ASSUME Init
  PROVE  IInv
<1>1. /\ TypeOK /\ Increasing(bbCache) /\ Elements(bbCache) = 1 .. supplied
      /\ supplied \in Nat /\ 1 .. supplied \subseteq Blocks /\ Units = {}
      /\ Blocks \in SUBSET Nat
  BY InitTypes, Numbers
<1> USE DEF Init
<1>2. /\ Len(<< >>) = 0 /\ Elements(<< >>) = {} /\ Increasing(<< >>) /\ Distinct(<< >>)
  BY EmptyQueue
<1>3. Fetched = {} /\ InROB = {} /\ Traced = 1 .. supplied
  BY <1>1, <1>2 DEF Fetched, InROB, Traced
<1>4. FetchedIns = {} /\ Popped = {} /\ Dispatched = {} /\ Window = {}
  BY <1>2, <1>3 DEF FetchedIns, Popped, Dispatched, Window
<1>5. \A b \in Blocks : blk[b] = NewBlock
  OBVIOUS
<1>6. \A b \in Blocks : Fresh(b) /\ blk[b].permit
  <2> TAKE b \in Blocks
  <2>1. blk[b].permit = TRUE /\ blk[b] = [NewBlock EXCEPT !.permit = blk[b].permit]
    BY <1>5 DEF NewBlock
  <2>2. \A i \in BlockIns(b) : ins[i] = NewIns
    BY DEF BlockIns
  <2> QED BY <2>1, <2>2 DEF Fresh
<1>7. InOrder
  BY <1>1, <1>2 DEF InOrder
<1>8. TraceOrder
  <2>1. \A b \in 1 .. supplied : b .. supplied \subseteq 1 .. supplied
    BY <1>1
  <2> QED BY <1>2, <1>3, <2>1 DEF TraceOrder, Before
<1>9. Fetching
  BY <1>3, <1>4, <1>6 DEF Fetching
<1>10. MovesOn
  BY DEF MovesOn
<1>11. WindowOrder
  BY <1>2, <1>3, <1>4 DEF WindowOrder, Before, DownClosed, FlushedIn
<1>12. Stages
  BY <1>1, <1>2, <1>4 DEF Stages
<1>13. Counting
  BY <1>3 DEF Counting
<1>14. LSQ
  BY <1>2, <1>4 DEF LSQ, DownClosed
<1>15. Squashing
  BY <1>4 DEF Squashing
<1>16. Flushing
  BY <1>1 DEF Flushing, FlushedIn
<1>17. Permits
  BY <1>1, <1>3, <1>6 DEF Permits
<1> QED BY <1>1, <1>7, <1>8, <1>9, <1>10, <1>11, <1>12, <1>13, <1>14, <1>15, <1>16,
           <1>17 DEF IInv

LEMMA StutterHolds ==
  ASSUME IInv, UNCHANGED vars
  PROVE  IInv'
<1> USE DEF vars, work, frontVars, queues, insVars, squashVars, history
<1>1. /\ Ids' = Ids /\ LoadIds' = LoadIds /\ StoreIds' = StoreIds
      /\ HeadIds' = HeadIds /\ LastBlock' = LastBlock /\ Blocks' = Blocks
      /\ \A i : /\ Op(i)' = Op(i) /\ Addr(i)' = Addr(i) /\ BB(i)' = BB(i)
                /\ WrongPath(i)' = WrongPath(i)
      /\ \A b : /\ BlockIns(b)' = BlockIns(b) /\ BBsize(b)' = BBsize(b)
                /\ BBheadID(b)' = BBheadID(b)
                /\ isOnWrongPath(b)' = isOnWrongPath(b)
  BY ProgramStays
<1>2. /\ Fetched' = Fetched /\ InROB' = InROB /\ Units' = Units /\ Traced' = Traced
  BY DEF Fetched, InROB, Units, Traced
<1>3. FetchedIns' = FetchedIns
  BY <1>1, <1>2 DEF FetchedIns
<1>4. Popped' = Popped /\ Dispatched' = Dispatched
  BY <1>3 DEF Popped, Dispatched
<1>5. Window' = Window /\ Waiting' = Waiting
  BY <1>2, <1>4 DEF Window, Waiting
<1> USE <1>1, <1>2, <1>3, <1>4, <1>5
<1>6. TypeOK'
  BY DEF IInv, TypeOK
<1>7. InOrder'
  BY DEF IInv, InOrder
<1>8. TraceOrder'
  BY DEF IInv, TraceOrder
<1>9. Fetching'
  BY DEF IInv, Fetching, Fresh, allFetched
<1>10. MovesOn'
  BY DEF IInv, MovesOn, frontendRunning, takeable
<1>11. WindowOrder'
  BY DEF IInv, WindowOrder, FlushedIn
<1>12. Stages'
  BY DEF IInv, Stages, Lifecycle
<1>13. Counting'
  BY DEF IInv, Counting, Completed
<1>14. LSQ'
  BY DEF IInv, LSQ
<1>15. Squashing'
  BY DEF IInv, Squashing, Culprit, Detected, squashBB
<1>16. Flushing'
  BY DEF IInv, Flushing, FlushedIn
<1>17. Permits'
  BY DEF IInv, Permits
<1> QED BY <1>6, <1>7, <1>8, <1>9, <1>10, <1>11, <1>12, <1>13, <1>14, <1>15, <1>16,
           <1>17 DEF IInv

LEMMA NextHolds ==
  ASSUME IInv, [Next]_vars
  PROVE  IInv'
<1>1. CASE doCOMMIT
  BY <1>1, CommitStep
<1>2. CASE doMEMORY
  BY <1>2, MemoryStep
<1>3. CASE doEXECUTION
  BY <1>3, ExecuteStep
<1>4. CASE squash
  BY <1>4, SquashStep
<1>5. CASE doSCHEDULER
  BY <1>5, SchedulerStep
<1>6. CASE doDECODE
  BY <1>6, DecodeStep
<1>7. CASE doFETCH
  BY <1>7, FetchStep
<1>8. CASE frontend
  BY <1>8, FrontendStep
<1>9. CASE halted
  BY <1>9, StutterHolds DEF halted
<1>10. CASE UNCHANGED vars
  BY <1>10, StutterHolds
<1> QED BY <1>1, <1>2, <1>3, <1>4, <1>5, <1>6, <1>7, <1>8, <1>9, <1>10 DEF Next

(* In every state the core reaches, whatever it speculates, squashes, puts *)
(* back and fetches again, its blocks and their instructions are where     *)
(* IInv says (bb_sysCore::runCore and the stages it runs).                 *)
THEOREM Inductive == Spec => []IInv
<1>1. Init => IInv
  BY InitHolds
<1>2. IInv /\ [Next]_vars => IInv'
  BY NextHolds
<1> QED BY <1>1, <1>2, PTL DEF Spec

-----------------------------------------------------------------------------
(* What commit finds. *)

(* A culprit among the fetched instructions has been dispatched. *)
LEMMA DetectedDispatched ==
  ASSUME IInv, NEW i \in FetchedIns, Detected(i)
  PROVE  i \in Dispatched
<1>1. CASE ins[i].memViolation
  BY <1>1 DEF IInv, Stages
<1>2. CASE ins[i].stage \in {"MEM_ACCESS", "COMPLETE"}
  BY <1>2 DEF Dispatched, Popped
<1> QED BY <1>1, <1>2 DEF Detected

(* The block at the front of bbROB is the oldest in flight. *)
LEMMA FrontOfRob ==
  ASSUME IInv, bbROB # << >>
  PROVE  /\ Head(bbROB) = bbROB[1] /\ Head(bbROB) \in InROB
         /\ \A b \in Fetched : Head(bbROB) <= b
<1>1. /\ bbROB \in Seq(Blocks) /\ bbQUE \in Seq(Blocks) /\ Increasing(bbQUE)
      /\ Blocks \in SUBSET Nat /\ Len(bbROB) \in Nat
  <2>1. TypeOK /\ Blocks \in SUBSET Nat
    BY Numbers DEF IInv
  <2> QED BY <2>1, QueueTypes, ElementsIn DEF IInv, InOrder
<1>2. 1 \in 1 .. Len(bbROB) /\ Head(bbROB) = bbROB[1]
  BY <1>1, EmptySeq
<1>3. bbROB[1] = bbQUE[1]
  BY <1>2, RobPrefix DEF IsPrefixOf
<1>4. bbROB[1] \in InROB
  BY <1>2 DEF InROB, Elements
<1>5. \A b \in Fetched : bbQUE[1] <= b
  BY <1>1, FirstIsLeast DEF Fetched
<1> QED BY <1>2, <1>3, <1>4, <1>5

LEMMA FrontIsDone ==
  ASSUME IInv, turn = "COMMIT", bbROB # << >>, isCommittable(Head(bbROB))
  PROVE  blk[Head(bbROB)].doneFetch
<1> DEFINE b == Head(bbROB)
<1>1. b \in InROB /\ \A c \in Fetched : b <= c
  BY FrontOfRob
<1> HIDE DEF b
<1>c. isCommittable(b)
  BY DEF b
<1>2. /\ b \in Fetched /\ b \in Blocks /\ TypeOK /\ Ids \in SUBSET Nat
      /\ Blocks \in SUBSET Nat
  BY <1>1, Flight, Numbers DEF IInv
<1>3. /\ ~blk[b].memViolation /\ ~isOnWrongPath(b)
      /\ \A i \in BlockIns(b) : /\ i \in Dispatched /\ ins[i].stage = "COMPLETE"
                                /\ ~WrongPath(i) /\ ~ins[i].memViolation
  BY <1>c, <1>1, CommittableComplete
<1>4. CASE b # currentBB
  BY <1>2, <1>4 DEF IInv, Fetching, b
<1>5. CASE b = currentBB /\ pipe = "NORMAL"
  <2>1. PICK i \in BlockIns(b) : \A j \in BlockIns(b) : j <= i
    <3>1. BlockIns(b) \subseteq Ids /\ BBheadID(b) \in BlockIns(b) /\ Len(program) \in Nat
          /\ Ids = 1 .. Len(program)
      BY <1>2, BlockShape, Numbers
    <3>2. BlockIns(b) \in SUBSET Nat /\ \A i \in BlockIns(b) : i <= Len(program)
      BY <3>1
    <3> QED BY <3>1, <3>2, GreatestNat
  <2>2. currentBB # NoBB
    BY <1>2, <1>5, Numbers
  <2>3. ins[i].stage = "COMPLETE"
    BY <1>3
  <2>4. i \in Elements(fetchPort) \/ i \in Elements(decodePort)
    BY <1>5, <2>1, <2>2, <2>3 DEF IInv, MovesOn
  <2>5. ins[i].stage \in {"FETCH", "DECODE"}
    BY <2>4 DEF IInv, Stages
  <2> QED BY <2>3, <2>5
<1>6. CASE b = currentBB /\ pipe # "NORMAL"
  <2>1. pipe \in {"WAIT_FLUSH", "FLUSH", "DRAIN", "SQUASH_ROB"}
    BY <1>2, <1>6 DEF TypeOK
  <2>2. pipe # "SQUASH_ROB"
    BY DEF IInv, Squashing
  <2>3. badInsID \in Dispatched /\ squashBB \in InROB /\ Culprit
    BY <2>1, <2>2, CulpritFirst DEF IInv, Squashing
  (* The culprit's block is no younger than the one fetch is at. *)
  <2>4. squashBB <= b /\ b <= squashBB
    <3>1. squashBB \in Fetched
      BY <2>3, Flight
    <3>2. currentBB # NoBB
      BY <1>2, <1>6, Numbers
    <3>3. squashBB <= currentBB
      BY <3>1, <3>2 DEF IInv, Fetching
    <3> QED BY <1>1, <1>6, <3>1, <3>3
  <2>5. squashBB = b
    <3>1. squashBB \in Nat /\ b \in Nat
      BY <1>2, <2>3, Flight
    <3> QED BY <2>4, <3>1
  <2>6. badInsID \in BlockIns(b)
    BY <2>3, <2>5, Flight DEF BlockIns, squashBB
  <2> QED BY <1>3, <2>3, <2>6 DEF Culprit
<1> QED BY <1>4, <1>5, <1>6

LEMMA Agrees ==
  ASSUME IInv
  PROVE  CommitAgrees
<1>1. TypeOK /\ bbROB \in Seq(Blocks) /\ bbQUE \in Seq(Blocks)
  BY QueueTypes DEF IInv
<1>2. IsPrefix(bbROB, bbQUE)
  <2>1. IsPrefixOf(bbROB, bbQUE)
    BY RobPrefix
  <2>2. /\ Len(bbROB) \in 0 .. Len(bbQUE)
        /\ SubSeq(bbROB, 1, Len(bbROB)) = SubSeq(bbQUE, 1, Len(bbROB))
    BY <1>1, <2>1, PrefixTake
  <2> QED BY <2>2 DEF IsPrefix
<1>3. \A b \in Elements(bbQUE) :
         blk[b].completed = Cardinality({i \in BlockIns(b) : ins[i].stage = "COMPLETE"})
  BY DEF IInv, Counting, Completed, Fetched
<1> QED BY <1>1, <1>2, <1>3, FrontIsDone DEF CommitAgrees

(* Commit takes the fronts of bbROB and bbQUE together because bbROB is    *)
(* the front of bbQUE; a block's count is that of its instructions that    *)
(* have completed since it was last fetched, and fetch is done with one    *)
(* that can commit (the assertions of bb_commit::commitImpl, commitBB and  *)
(* dynBasicblock::incCompletedInsCntr); no queue overflows.                *)
THEOREM CommitAlwaysAgrees == Spec => []CommitAgrees
<1>1. IInv => CommitAgrees
  BY Agrees
<1> QED BY <1>1, Inductive, PTL

-----------------------------------------------------------------------------
(* Squashes. *)

LEMMA OldestSquashed ==
  ASSUME IInv
  PROVE  SquashesOldestBlock
<1>1. TypeOK /\ Ids \in SUBSET Nat
  BY Numbers DEF IInv
<1>2. ASSUME NEW i \in Ids, BB(i) \in Elements(bbROB), Detected(i)
      PROVE  /\ pipe # "NORMAL"
             /\ squashSN <= BBheadID(BB(i)) \/ (WrongPath(i) /\ i \in StoreIds)
  <2>1. i \in Dispatched
    <3>1. i \in FetchedIns
      BY <1>2, Flight DEF FetchedIns, InROB
    <3> QED BY <3>1, <1>2, DetectedDispatched
  <2>2. /\ pipe # "NORMAL"
        /\ squashBB <= BB(i) \/ (WrongPath(i) /\ i \in StoreIds)
    BY <1>2, <2>1 DEF IInv, Squashing
  <2>3. badInsID \in Ids /\ squashSN = BBheadID(BB(badInsID))
    BY <2>2 DEF IInv, Squashing, squashBB
  <2>4. BB(badInsID) <= BB(i) => BBheadID(BB(badInsID)) <= BBheadID(BB(i))
    <3>1. BB(badInsID) \in Blocks /\ BB(i) \in Blocks
      BY <1>1, <2>3, Numbers
    <3> QED BY <3>1, <1>1, HeadsOfBlocks
  <2> QED BY <2>2, <2>3, <2>4 DEF squashBB
<1>3. ASSUME pipe # "NORMAL", bbROB # << >>
      PROVE  \E b \in Elements(bbROB) :
               /\ squashSN = BBheadID(b)
               /\ \E i \in BlockIns(b) : Detected(i)
               /\ squashType = "BP_MISPRED" => isOnWrongPath(b)
               /\ squashType = "MEM_MISPRED" => blk[b].memViolation
  <2>1. pipe \in {"WAIT_FLUSH", "FLUSH", "DRAIN", "SQUASH_ROB"}
    BY <1>1, <1>3 DEF TypeOK
  <2>2. Culprit /\ squashSN = BBheadID(squashBB)
    BY <1>3, <2>1 DEF IInv, Squashing
  <2>3. squashBB \in Elements(bbROB) /\ badInsID \in BlockIns(squashBB)
    <3>1. badInsID \in Dispatched /\ badInsID \in Ids
      BY <2>2, Flight DEF Culprit
    <3> QED BY <3>1 DEF IInv, WindowOrder, InROB, squashBB, BlockIns
  <2>4. squashType = "BP_MISPRED" => isOnWrongPath(squashBB)
    BY <2>2, <2>3 DEF Culprit, isOnWrongPath
  <2>5. squashType = "MEM_MISPRED" => blk[squashBB].memViolation
    BY <2>2 DEF Culprit, IInv, Stages, squashBB
  <2>6. Detected(badInsID)
    BY <2>2 DEF Culprit
  <2> QED BY <2>2, <2>3, <2>4, <2>5, <2>6
<1>4. pipe = "DRAIN" => bbROB # << >>
  <2>1. pipe = "DRAIN" => squashBB \in Elements(bbROB)
    BY CulpritFirst DEF InROB
  <2> QED BY <2>1, EmptyQueue
<1> QED BY <1>2, <1>3, <1>4 DEF SquashesOldestBlock

(* The squash number is the head of a block in flight that holds a         *)
(* culprit; no block with one is older, but for that of a wrong-path store *)
(* that found another, and the drain reaches it (bb_execution::completeIns *)
(* and squashCtrl, the assertions of bb_commit::bpMispredSquash).          *)
THEOREM OldestBlockSquashed == Spec => []SquashesOldestBlock
<1>1. IInv => SquashesOldestBlock
  BY OldestSquashed
<1> QED BY <1>1, Inductive, PTL

LEMMA PermitLeft ==
  ASSUME IInv
  PROVE  PermitRevokedOnce
<1> SUFFICES ASSUME turn = "SQUASH", bbROB # << >>, squashType = "MEM_MISPRED"
             PROVE  LET back == Drop(bbQUE, Len(FlushBlocks(bbQUE, squashSN)))
                    IN  back # << >> /\ blk[Head(back)].permit
  BY DEF PermitRevokedOnce
<1>1. FlushBlocks(bbQUE, squashSN) = << >>
  BY NothingOlder
<1> DEFINE back == Drop(bbQUE, 0)
<1>2. Drop(bbQUE, Len(FlushBlocks(bbQUE, squashSN))) = back
  <2>1. Len(<< >>) = 0
    OBVIOUS
  <2> QED BY <1>1, <2>1
<1>3. back # << >> /\ Head(back) = squashBB
  BY SquashedFirst
<1>4. blk[squashBB].memViolation /\ squashBB \in Fetched /\ blk[squashBB].permit \in BOOLEAN
  <2>1. Culprit /\ squashBB \in Fetched
    BY BeforeSquash
  <2>2. blk[squashBB].memViolation
    BY <2>1 DEF Culprit, IInv, Stages, squashBB
  <2>3. squashBB \in Blocks /\ blk \in [Blocks -> BlkState]
    BY <2>1, Flight, Tables DEF IInv
  <2> QED BY <2>1, <2>2, <2>3 DEF BlkState
<1>5. blk[squashBB].permit
  BY <1>4 DEF IInv, Permits, Traced
<1> QED BY <1>2, <1>3, <1>5

(* A block loses its permit to run ahead at most once: by the time it      *)
(* comes again nothing older is in flight, and its loads wait for its own  *)
(* stores (the assertion of dynBasicblock::revokeRunaheadPermit).          *)
THEOREM RevokedOnce == Spec => []PermitRevokedOnce
<1>1. IInv => PermitRevokedOnce
  BY PermitLeft
<1> QED BY <1>1, Inductive, PTL

-----------------------------------------------------------------------------
(* Nothing is lost but blocks with instructions of the wrong path.         *)
RightBlocks == {b \in Blocks : ~isOnWrongPath(b)}

(* Every block that was handed over has retired, is in flight or waits, or *)
(* was deleted; what retires is wholly on the right path, and what is      *)
(* deleted is not.                                                         *)
Accounted ==
    /\ \A b \in 1 .. supplied : b \in Elements(retired) \cup Traced \cup deleted
    /\ \A b \in Elements(retired) : ~isOnWrongPath(b)
    /\ \A b \in deleted : isOnWrongPath(b)

JInv == IInv /\ Accounted

(* A squash deletes blocks of the wrong path, or none. *)
LEMMA SquashAccounts ==
  ASSUME IInv, squash
  PROVE  /\ \A b \in Traced \cup deleted : b \in Traced' \cup deleted'
         /\ \A b \in deleted' : b \in deleted \/ isOnWrongPath(b)
<1>1. turn = "SQUASH" /\ bbQUE \in Seq(Blocks) /\ bbCache \in Seq(Blocks)
      /\ Blocks \in SUBSET Nat /\ Len(bbQUE) \in Nat
  <2>1. TypeOK /\ Blocks \in SUBSET Nat
    BY Numbers DEF IInv
  <2> QED BY <2>1, QueueTypes, ElementsIn DEF squash
<1>2. PICK stop \in 0 .. Len(bbQUE) :
        /\ insertFrontBBcache(Drop(bbQUE, stop))
        /\ deleted' = deleted \cup {bbQUE[n] : n \in 1 .. stop}
        /\ \A n \in 1 .. stop : isOnWrongPath(bbQUE[n])
  <2>1. bbROB # << >>
    BY <1>1, SquashedFirst
  <2>2. CASE squashType = "BP_MISPRED" /\ bpMispredSquash
    <3>1. PICK stop \in 0 .. Len(bbQUE) : Deletes(stop)
      BY <1>1, <2>2, BranchSquash
    <3>2. ASSUME NEW n \in 1 .. stop PROVE isOnWrongPath(bbQUE[n])
      <4>1. CASE n = 1
        <5>1. Culprit /\ bbQUE[1] = squashBB /\ squashBB \in Fetched
          BY <1>1, BeforeSquash, SquashedFirst
        <5>2. WrongPath(badInsID) /\ badInsID \in BlockIns(squashBB)
          <6>1. badInsID \in Ids
            BY <5>1, Flight DEF Culprit
          <6> QED BY <2>2, <5>1, <6>1 DEF Culprit, BlockIns, squashBB
        <5> QED BY <4>1, <5>1, <5>2 DEF isOnWrongPath
      <4>2. CASE n # 1
        <5>1. n \in 2 .. stop
          BY <3>2, <4>2
        <5>2. ~hasCorrectPathIns(bbQUE[n])
          BY <5>1, <3>1 DEF Deletes, endsWrongPath
        <5>3. bbQUE[n] \in Blocks
          BY <1>1, <3>1, <3>2
        <5>4. BBheadID(bbQUE[n]) \in BlockIns(bbQUE[n])
          <6>1. TypeOK
            BY DEF IInv
          <6> QED BY <5>3, <6>1, BlockShape
        <5> QED BY <5>2, <5>4 DEF hasCorrectPathIns, isOnWrongPath
      <4> QED BY <4>1, <4>2
    <3>3. /\ insertFrontBBcache(Drop(bbQUE, stop))
          /\ deleted' = deleted \cup {bbQUE[n] : n \in 1 .. stop}
      BY <3>1 DEF Deletes
    <3> QED BY <3>2, <3>3
  <2>3. CASE memMispredSquash
    <3>1. FlushBlocks(bbQUE, squashSN) = << >> /\ Len(<< >>) = 0
      BY <1>1, NothingOlder
    <3>2. insertFrontBBcache(Drop(bbQUE, 0)) /\ deleted' = deleted
      BY <2>3, <3>1 DEF memMispredSquash
    <3>3. /\ 0 \in 0 .. Len(bbQUE)
          /\ deleted' = deleted \cup {bbQUE[n] : n \in 1 .. 0}
          /\ \A n \in 1 .. 0 : isOnWrongPath(bbQUE[n])
      BY <1>1, <3>2
    <3> QED BY <3>2, <3>3
  <2> QED BY <2>1, <2>2, <2>3 DEF squash
<1>3. /\ Elements(bbCache') = Elements(Drop(bbQUE, stop)) \cup Elements(bbCache)
      /\ Fetched = {bbQUE[n] : n \in 1 .. stop} \cup Elements(Drop(bbQUE, stop))
  <2> DEFINE back == Drop(bbQUE, stop)
  <2>1. /\ back \in Seq(Blocks) /\ Elements(Take(bbQUE, stop)) = {bbQUE[n] : n \in 1 .. stop}
        /\ Elements(bbQUE) = Elements(Take(bbQUE, stop)) \cup Elements(back)
    <3>1. back \in Seq(Blocks)
      BY <1>1, TakeDrop
    <3>2. /\ Elements(Take(bbQUE, stop)) = {bbQUE[n] : n \in 1 .. stop}
          /\ Elements(bbQUE) = Elements(Take(bbQUE, stop)) \cup Elements(back)
      BY <1>1, TakeDropElements
    <3> QED BY <3>1, <3>2
  <2>2. bbCache' = back \o bbCache
    BY <1>2 DEF insertFrontBBcache
  <2> HIDE DEF back
  <2>3. Elements(back \o bbCache) = Elements(back) \cup Elements(bbCache)
    BY <1>1, <2>1, Concat
  <2> QED BY <2>1, <2>2, <2>3 DEF back, Fetched
<1> QED BY <1>2, <1>3 DEF Traced

(* A commit moves the oldest blocks of bbQUE to the retired ones. *)
LEMMA CommitAccounts ==
  ASSUME IInv, doCOMMIT
  PROVE  /\ Elements(retired) \cup Traced = Elements(retired') \cup Traced'
         /\ \E k \in 0 .. Width : Len(retired') = Len(retired) + k
<1>1. TypeOK /\ Blocks \in SUBSET Nat /\ Width \in Nat
  BY Numbers, Sizes DEF IInv
<1>2. /\ bbROB \in Seq(Blocks) /\ bbQUE \in Seq(Blocks)
      /\ retired \in Seq(Blocks) /\ Len(retired) \in Nat /\ Len(bbROB) \in Nat
  BY <1>1, QueueTypes, ElementsIn
<1>3. bbCache' = bbCache
  BY DEF doCOMMIT, frontVars
<1>4. CASE pipe \in {"WAIT_FLUSH", "FLUSH"}
  <2>1. retired' = retired /\ bbQUE' = bbQUE
    BY <1>4 DEF doCOMMIT
  <2> QED BY <1>1, <1>2, <1>3, <2>1 DEF Traced, Fetched
<1>5. CASE pipe \notin {"WAIT_FLUSH", "FLUSH"}
  <2> DEFINE new(k) == Take(bbROB, k)
  <2>1. PICK k \in 0 .. Width :
          k <= Len(bbROB) /\ bbQUE' = Drop(bbQUE, k) /\ retired' = retired \o new(k)
    BY <1>5 DEF doCOMMIT, commitImpl
  <2>2. k \in 0 .. Len(bbROB)
    BY <1>1, <1>2, <2>1
  <2>3. new(k) = Take(bbQUE, k) /\ k \in 0 .. Len(bbQUE)
    <3>1. Len(bbROB) \in 0 .. Len(bbQUE) /\ \A n \in 0 .. Len(bbROB) : Take(bbROB, n) = Take(bbQUE, n)
      BY RobPrefix
    <3> QED BY <3>1, <1>2, <2>2
  <2>4. new(k) \in Seq(Blocks) /\ Len(new(k)) = k
    BY <1>2, <2>2, TakeDrop
  <2>5. Fetched = Elements(new(k)) \cup Fetched'
    BY <1>2, <2>1, <2>3, TakeDropElements DEF Fetched
  <2>6. /\ Len(retired') = Len(retired) + k
        /\ Elements(retired') = Elements(retired) \cup Elements(new(k))
    <3> HIDE DEF new
    <3> DEFINE n == new(k)
    <3>1. n \in Seq(Blocks) /\ Len(n) = k
      BY <2>4
    <3>2. retired' = retired \o n
      BY <2>1
    <3> HIDE DEF n
    <3>3. /\ Len(retired \o n) = Len(retired) + Len(n)
          /\ Elements(retired \o n) = Elements(retired) \cup Elements(n)
      <4>1. retired \in Seq(Blocks) /\ n \in Seq(Blocks)
        BY <1>2, <3>1
      <4> QED BY ONLY <4>1, Concat
    <3> QED BY <3>1, <3>2, <3>3 DEF n
  <2> QED BY <1>3, <2>5, <2>6 DEF Traced
<1> QED BY <1>4, <1>5

(* Fetch moves blocks from the cache to bbQUE. *)
LEMMA FetchAccounts ==
  ASSUME IInv, doFETCH
  PROVE  Traced' = Traced
<1>1. bbCache \in Seq(Blocks) /\ bbQUE \in Seq(Blocks)
  BY QueueTypes DEF IInv
<1>2. CASE pipe # "NORMAL"
  BY <1>2 DEF doFETCH, Traced, Fetched
<1>3. CASE pipe = "NORMAL"
  <2>1. PICK n \in 0 .. Len(bbCache), A \in SUBSET Blocks, P \in SUBSET Ids,
             U \in SUBSET Ids, past \in SUBSET Blocks : FetchCycle(n, A, P, U, past)
    BY <1>3, FetchImpl DEF doFETCH
  <2>2. bbCache' = Drop(bbCache, n) /\ bbQUE' = bbQUE \o Take(bbCache, n)
    BY <2>1 DEF FetchCycle
  <2> DEFINE new == Take(bbCache, n)
  <2>3. new \in Seq(Blocks) /\ Elements(bbCache) = Elements(new) \cup Elements(bbCache')
    BY <1>1, <2>2, TakeDrop, TakeDropElements
  <2>4. bbQUE' = bbQUE \o new
    BY <2>2
  <2> HIDE DEF new
  <2>5. Elements(bbQUE \o new) = Elements(bbQUE) \cup Elements(new)
    BY <1>1, <2>3, Concat
  <2> QED BY <2>3, <2>4, <2>5 DEF Traced, Fetched
<1> QED BY <1>2, <1>3

(* The frontend adds to the end of the cache. *)
LEMMA FrontendAccounts ==
  ASSUME IInv, frontend
  PROVE  /\ supplied \in Nat /\ supplied' \in Nat
         /\ Traced' = Traced \cup supplied + 1 .. supplied'
<1>1. PICK n \in {m \in supplyPoints : m > supplied} :
        /\ supplied' = n
        /\ bbCache' = bbCache \o [b \in 1 .. n - supplied |-> supplied + b]
  BY DEF frontend
<1>2. TypeOK /\ bbCache \in Seq(Blocks) /\ Blocks = 1 .. LastBlock /\ LastBlock \in Nat
  BY QueueTypes, Numbers DEF IInv
<1>3. n \in Blocks /\ n \in Nat /\ supplied \in Nat /\ supplied < n
  <2>1. n \in Blocks /\ supplied < n /\ supplied \in Nat
    BY <1>1, <1>2, Tables DEF supplyPoints
  <2> QED BY <1>2, <2>1
<1> DEFINE new == [b \in 1 .. n - supplied |-> supplied + b]
<1>4. /\ new \in Seq(Blocks) /\ Len(new) = n - supplied
      /\ \A b \in 1 .. n - supplied : new[b] = supplied + b
  BY <1>2, <1>3
<1>5. bbCache' = bbCache \o new
  BY <1>1
<1> HIDE DEF new
<1>6. Elements(new) = supplied + 1 .. n
  <2>1. \A j \in supplied + 1 .. n : j - supplied \in 1 .. n - supplied /\ j = new[j - supplied]
    BY <1>3, <1>4
  <2>2. \A i \in 1 .. n - supplied : new[i] \in supplied + 1 .. n
    BY <1>3, <1>4
  <2> QED BY <1>4, <2>1, <2>2 DEF Elements
<1>7. Elements(bbCache \o new) = Elements(bbCache) \cup Elements(new)
  BY <1>2, <1>4, Concat
<1>8. bbQUE' = bbQUE
  BY DEF frontend, queues
<1> QED BY <1>1, <1>3, <1>5, <1>6, <1>7, <1>8 DEF Traced, Fetched

LEMMA JInvStep ==
  ASSUME JInv, [Next]_vars
  PROVE  JInv'
<1>1. IInv'
  BY NextHolds DEF JInv
<1>2. program' = program
  BY DEF Next, doCOMMIT, doMEMORY, doEXECUTION, squash, doSCHEDULER, doDECODE, doFETCH,
     frontend, halted, vars, work, frontVars
<1>3. \A b : isOnWrongPath(b)' = isOnWrongPath(b)
  BY <1>2, ProgramStays
<1>4. \A b \in 1 .. supplied' : b \in Elements(retired') \cup Traced' \cup deleted'
  <2>1. \A b \in 1 .. supplied : b \in Elements(retired) \cup Traced \cup deleted
    BY DEF JInv, Accounted
  <2>2. CASE doCOMMIT
    <3>1. supplied' = supplied /\ deleted' = deleted
      BY <2>2 DEF doCOMMIT, frontVars
    <3> QED BY <2>1, <2>2, <3>1, CommitAccounts DEF JInv
  <2>3. CASE squash
    <3>1. supplied' = supplied /\ retired' = retired
      BY <2>3 DEF squash
    <3> QED BY <2>1, <2>3, <3>1, SquashAccounts DEF JInv
  <2>4. CASE doFETCH
    <3>1. UNCHANGED <<supplied, retired, deleted>>
      BY <2>4 DEF doFETCH, history
    <3> QED BY <2>1, <2>4, <3>1, FetchAccounts DEF JInv
  <2>5. CASE frontend
    <3>1. /\ UNCHANGED <<retired, deleted>> /\ supplied \in Nat /\ supplied' \in Nat
          /\ Traced' = Traced \cup supplied + 1 .. supplied'
      BY <2>5, FrontendAccounts DEF JInv, frontend, history
    <3>2. \A b \in 1 .. supplied' : b \in 1 .. supplied \/ b \in supplied + 1 .. supplied'
      BY <3>1
    <3> QED BY <2>1, <3>1, <3>2
  <2>6. ASSUME ~doCOMMIT, ~squash, ~doFETCH, ~frontend
        PROVE  UNCHANGED <<supplied, retired, deleted, bbQUE, bbCache>>
    BY <2>6 DEF Next, doMEMORY, doEXECUTION, doSCHEDULER, doDECODE, halted, vars, work,
       frontVars, history, queues
  <2>7. CASE UNCHANGED <<supplied, retired, deleted, bbQUE, bbCache>>
    BY <2>1, <2>7 DEF Traced, Fetched
  <2> QED BY <2>2, <2>3, <2>4, <2>5, <2>6, <2>7
<1>5. \A b \in deleted' : isOnWrongPath(b)
  <2>1. CASE squash
    BY <2>1, SquashAccounts DEF JInv, Accounted
  <2>2. ASSUME ~squash PROVE deleted' = deleted
    BY <2>2 DEF Next, doCOMMIT, doMEMORY, doEXECUTION, doSCHEDULER, doDECODE, doFETCH,
     frontend, halted, vars, work, history
  <2> QED BY <2>1, <2>2 DEF JInv, Accounted
<1>6. \A b \in Elements(retired') : ~isOnWrongPath(b)
  <2>1. \A b \in Elements(retired') : ~isOnWrongPath(b)'
    BY <1>1 DEF IInv, TraceOrder
  <2> QED BY <2>1, <1>3
<1>7. Accounted'
  BY <1>3, <1>4, <1>5, <1>6 DEF Accounted
<1> QED BY <1>1, <1>7 DEF JInv

LEMMA JInvInit ==
  ASSUME Init
  PROVE  JInv
<1>1. IInv
  BY InitHolds
<1>2. Accounted
  BY InitTypes DEF Init, Accounted, Traced, Elements
<1> QED BY <1>1, <1>2 DEF JInv

(* The right path up to block n, as a queue. *)
LEMMA RightPathQueue ==
  ASSUME TypeOK, NEW n \in 0 .. LastBlock
  PROVE  /\ RightPath(BlocksUpTo(n)) \in Seq(Blocks)
         /\ Increasing(RightPath(BlocksUpTo(n)))
         /\ Elements(RightPath(BlocksUpTo(n))) = RightBlocks \cap 1 .. n
<1> DEFINE t == BlocksUpTo(n)
<1>1. LastBlock \in Nat /\ n \in Nat /\ Blocks \in SUBSET Nat /\ 1 .. n \subseteq Blocks
  <2>1. LastBlock \in Nat /\ Blocks \in SUBSET Nat /\ Blocks = 1 .. LastBlock
    BY Numbers
  <2> QED BY <2>1
<1>2. Len(t) = n /\ (\A b \in 1 .. n : t[b] = b) /\ t \in Seq(Blocks)
  BY <1>1 DEF BlocksUpTo
<1>3. Elements(t) = 1 .. n /\ Increasing(t)
  BY <1>1, <1>2 DEF Elements, Increasing
<1> HIDE DEF t
<1>4. /\ Filter(t, RightBlocks) \in Seq(Blocks) /\ Increasing(Filter(t, RightBlocks))
      /\ Elements(Filter(t, RightBlocks)) = Elements(t) \cap RightBlocks
  BY <1>1, <1>2, <1>3, FilterQueue
<1> QED BY <1>3, <1>4 DEF RightPath, RightBlocks, t

(* Retired blocks are of the right path. *)
LEMMA RetiredRight ==
  ASSUME IInv
  PROVE  Elements(retired) \subseteq RightBlocks
  BY ElementTypes DEF IInv, TraceOrder, RightBlocks

(* What the retired blocks are the front of. *)
toCommit == RightPath(BlocksUpTo(LastBlock))
RetiredInOrder == retired = Take(toCommit, Len(retired)) /\ Len(retired) \in 0 .. Len(toCommit)

LEMMA RetiredFront ==
  ASSUME JInv
  PROVE  RetiredInOrder
<1>1. /\ TypeOK /\ Blocks \in SUBSET Nat /\ retired \in Seq(Blocks) /\ Increasing(retired)
      /\ LastBlock \in Nat /\ supplied \in Nat /\ Blocks = 1 .. LastBlock
  <2>1. TypeOK
    BY DEF JInv, IInv
  <2>2. LastBlock \in Nat /\ Blocks \in SUBSET Nat /\ supplied \in Nat /\ Blocks = 1 .. LastBlock
    BY <2>1, Numbers, Tables
  <2> QED BY <2>1, <2>2, QueueTypes DEF JInv, IInv, InOrder
<1>2. /\ toCommit \in Seq(Blocks) /\ Increasing(toCommit)
      /\ Elements(toCommit) = RightBlocks
  <2>1. LastBlock \in 0 .. LastBlock
    BY <1>1
  <2>2. RightBlocks \cap 1 .. LastBlock = RightBlocks
    BY <1>1 DEF RightBlocks
  <2> QED BY <1>1, <2>1, <2>2, RightPathQueue DEF toCommit
<1>3. Elements(retired) \subseteq RightBlocks
  BY RetiredRight DEF JInv
<1>4. DownClosed(Elements(retired), RightBlocks)
  <2> SUFFICES ASSUME NEW b \in Elements(retired), NEW c \in RightBlocks, c < b
               PROVE  c \in Elements(retired)
    BY DEF DownClosed
  <2>1. b \in 1 .. supplied
    BY DEF JInv, IInv, TraceOrder
  <2>2. c \in 1 .. supplied /\ ~isOnWrongPath(c) /\ c \in Nat
    BY <1>1, <2>1 DEF RightBlocks
  <2>3. c \in Elements(retired) \cup Traced
    BY <2>2 DEF JInv, Accounted
  <2>4. c \in Traced => b < c
    BY DEF JInv, IInv, TraceOrder, Before
  <2> QED BY <2>1, <2>2, <2>3, <2>4
<1> HIDE DEF toCommit
<1>5. IsPrefixOf(retired, toCommit)
  BY <1>1, <1>2, <1>3, <1>4, LeastElementsPrefix
<1> QED BY <1>1, <1>2, <1>5, PrefixTake DEF RetiredInOrder

(* Every block handed over by the frontend has retired, is in flight or    *)
(* waits in g_bbCache, or was deleted; no block with an instruction of the *)
(* wrong path ever retires, and no block wholly on the right path is ever  *)
(* deleted (bb_commit::bpMispredSquash and memMispredSquash).              *)
THEOREM NothingLost == Spec => []Accounted
<1>1. JInv => Accounted
  BY DEF JInv
<1>2. Init => JInv
  BY JInvInit
<1>3. JInv /\ [Next]_vars => JInv'
  BY JInvStep
<1> QED BY <1>1, <1>2, <1>3, PTL DEF Spec

(* The core implements in-order commit of the blocks that are wholly on    *)
(* the right path, whatever it speculates, squashes, puts back and fetches *)
(* again: each step retires the next few of them or none (bb_commit).      *)
THEOREM CommitsInOrder == Spec => CommitOrder!SafeSpec
<1>1. Init => CommitOrder!Init
  BY DEF Init, CommitOrder!Init
<1>2. JInv => RetiredInOrder
  BY RetiredFront
<1>3. ASSUME JInv, RetiredInOrder, RetiredInOrder', [Next]_vars
      PROVE  [CommitOrder!Commit]_(CommitOrder!vars)
  <2>1. program' = program
    BY <1>3 DEF Next, doCOMMIT, doMEMORY, doEXECUTION, squash, doSCHEDULER, doDECODE,
       doFETCH, frontend, halted, vars, work, frontVars
  <2>2. toCommit' = toCommit
    <3>1. LastBlock' = LastBlock /\ Blocks' = Blocks
          /\ \A b : isOnWrongPath(b)' = isOnWrongPath(b)
      BY <2>1, ProgramStays
    <3> QED BY <3>1 DEF toCommit, RightPath, BlocksUpTo
  <2>3. CASE retired' = retired
    BY <2>2, <2>3 DEF CommitOrder!vars, toCommit
  <2>4. CASE doCOMMIT
    <3>1. PICK k \in 0 .. Width : Len(retired') = Len(retired) + k
      BY <1>3, <2>4, CommitAccounts DEF JInv
    <3>2. /\ retired = Take(toCommit, Len(retired)) /\ Len(retired) \in 0 .. Len(toCommit)
          /\ retired' = Take(toCommit, Len(retired) + k)
          /\ Len(retired) + k \in 0 .. Len(toCommit)
      BY <1>3, <2>2, <3>1 DEF RetiredInOrder
    <3>3. Width \in Nat
      BY SizesAssumption
    <3>4. Len(retired) \in Nat
      BY <3>2
    <3>5. CASE k = 0
      <4>1. Len(retired) + k = Len(retired)
        BY <3>4, <3>5
      <4>2. retired' = retired
        BY <3>2, <4>1
      <4> QED BY <2>3, <4>2
    <3>6. CASE k # 0
      <4>1. k \in 1 .. Width
        BY <3>3, <3>6
      <4>2. Len(retired) + k <= Len(toCommit)
        BY <3>2, <3>3, <3>4
      <4>3. retired' = SubSeq(toCommit, 1, Len(retired) + k)
        BY <3>2 DEF Take
      <4> QED BY <2>2, <4>1, <4>2, <4>3 DEF CommitOrder!Commit, toCommit
    <3> QED BY <3>5, <3>6
  <2>5. ASSUME ~doCOMMIT PROVE retired' = retired
    BY <1>3, <2>5 DEF Next, doMEMORY, doEXECUTION, squash, doSCHEDULER, doDECODE,
       doFETCH, frontend, halted, vars, work, history
  <2> QED BY <2>3, <2>4, <2>5
<1>4. Init => JInv
  BY JInvInit
<1>5. JInv /\ [Next]_vars => JInv'
  BY JInvStep
<1> QED BY <1>1, <1>2, <1>3, <1>4, <1>5, PTL DEF Spec, CommitOrder!SafeSpec
=============================================================================
