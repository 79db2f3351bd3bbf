---------------------------- MODULE O3Core_proofs ----------------------------
(***************************************************************************)
(* The inductive invariant of the out-of-order pipeline, for every         *)
(* program, queue size and width, the proof that every stage keeps it, and *)
(* what it says of the pipeline: its queues agree, the oldest culprit is   *)
(* squashed, a recovery finds the pipeline quiescent, perfect              *)
(* disambiguation never squashes, committed stores reach the cache, and,   *)
(* for programs in which no load follows the wrong path immediately,       *)
(* nothing is lost and commit is in order.                                 *)
(*                                                                         *)
(* IInv speaks of the sets of instructions in each queue and of the order  *)
(* between them: a queue in program order is determined by its elements    *)
(* (Queues_proofs).                                                        *)
(***************************************************************************)
EXTENDS O3Core, Queues_proofs

(* What is in flight between the stages. *)
Units == Elements(EU) \ {NoIns}
Fetched == Elements(iQUE)
InROB == Elements(ROB)
Window == InROB \cup Elements(decodePort) \cup Elements(fetchPort)
Traced == Fetched \cup Elements(codeCache)

(* The flush has reached the queues of the stages that have had their turn *)
(* in the flush cycle; those that still have it are in turns.              *)
FlushedIn(turns) ==
    pipe \in {"DRAIN", "SQUASH_ROB"} \/ (pipe = "FLUSH" /\ turn \in turns)

(* Every queue but issuePort is in program order. *)
InOrder ==
    /\ Increasing(codeCache) /\ Increasing(iQUE) /\ Increasing(fetchPort)
    /\ Increasing(decodePort) /\ Increasing(resStn) /\ Increasing(ROB)
    /\ Increasing(LQ) /\ Increasing(SQ) /\ Increasing(retired)
    /\ Distinct(issuePort)

(* Retired instructions, those in flight and those not fetched follow one  *)
(* another, and from the oldest in flight on nothing is missing.           *)
TraceOrder ==
    /\ Before(Elements(retired), Traced)
    /\ Before(Fetched, Elements(codeCache))
    /\ Elements(retired) \cup Traced \subseteq 1 .. supplied
    /\ Elements(retired) \subseteq RightPathIds
    /\ \A i \in Traced : i .. supplied \subseteq Traced

(* The ROB and the front-end ports hold the oldest instructions of iQUE.   *)
WindowOrder ==
    /\ Before(InROB, Elements(decodePort) \cup Elements(fetchPort))
    /\ Before(Elements(decodePort), Elements(fetchPort))
    /\ Window \subseteq Fetched
    /\ DownClosed(InROB, Fetched)
    /\ ~(pipe = "FLUSH" /\ turn = "FETCH") => DownClosed(Window, Fetched)
    /\ pipe = "NORMAL" => Fetched \subseteq Window
    /\ FlushedIn({"FETCH", "COMMIT", "MEMORY", "EXECUTE"}) => decodePort = << >>
    /\ FlushedIn({"COMMIT", "MEMORY", "EXECUTE"}) => fetchPort = << >>

(* The states of the instructions of each operation in the ROB. *)
Lifecycle(i) ==
    /\ Op(i) = "ALU" => ins[i].stage \in {"DISPATCH", "ISSUE", "EXECUTE", "COMPLETE"}
    /\ Op(i) = "LOAD" =>
         \/ /\ ins[i].stage \in {"DISPATCH", "ISSUE", "EXECUTE"}
            /\ ins[i].lsq = "ADDR_WAIT"
         \/ /\ ins[i].stage = "MEM_ACCESS"
            /\ ins[i].lsq \in {"PENDING_CACHE_DISPATCH", "FWD_FROM_SQ", "CACHE_WAIT"}
         \/ ins[i].stage = "COMPLETE" /\ ins[i].lsq = "COMPLETE"
    /\ Op(i) = "STORE" =>
         \/ /\ ins[i].stage \in {"DISPATCH", "ISSUE", "EXECUTE"}
            /\ ins[i].lsq = "ADDR_WAIT"
         \/ ins[i].stage = "COMPLETE" /\ ins[i].lsq = "COMPLETE"

(* Where an instruction is, and the stage it says it is at. *)
Stages ==
    /\ \A i \in Ids : i > supplied => ins[i] = NewIns
    /\ \A i \in Elements(codeCache) : ins[i] = NewIns
    /\ \A i \in Elements(fetchPort) : ins[i].stage = "FETCH"
    /\ \A i \in Elements(decodePort) : ins[i].stage = "DECODE"
    /\ \A i \in Fetched \ InROB :
         /\ ins[i].stage \in {"FETCH", "DECODE"}
         /\ ~ins[i].memViolation /\ ~ins[i].cacheAxes
    /\ \A i \in Elements(resStn) : i \in InROB /\ ins[i].stage = "DISPATCH"
    /\ \A i \in Elements(issuePort) : i \in InROB /\ ins[i].stage = "ISSUE"
    /\ \A i \in Units : i \in InROB /\ ins[i].stage = "EXECUTE"
    /\ \A i \in InROB :
         /\ Lifecycle(i)
         /\ ins[i].stage = "EXECUTE" => i \in Units
         /\ ins[i].memViolation => Op(i) = "LOAD" /\ ins[i].lsq = "COMPLETE"

(* The load queue holds the oldest loads of the ROB, the store queue the   *)
(* oldest stores behind committed ones.                                    *)
LSQ ==
    /\ Elements(LQ) \subseteq InROB \cap LoadIds
    /\ DownClosed(Elements(LQ), InROB \cap LoadIds)
    /\ Elements(SQ) \subseteq StoreIds
    /\ DownClosed(Elements(SQ), InROB \cap StoreIds)
    /\ \A i \in Elements(SQ) \ InROB :
         /\ i \in Elements(retired)
         /\ ins[i].stage = "COMMIT" /\ ins[i].lsq \in {"COMMIT", "CACHE_DISPATCH"}
    /\ \A i \in InROB : (pipe = "NORMAL" \/ i < squashSN) =>
         /\ Op(i) = "LOAD" => i \in Elements(LQ)
         /\ Op(i) = "STORE" => i \in Elements(SQ)
    /\ \A i \in Elements(resStn) \cup Elements(issuePort) \cup Units :
         /\ Op(i) = "LOAD" => i \in Elements(LQ)
         /\ Op(i) = "STORE" => i \in Elements(SQ)

(* The squash number is the oldest culprit, until the ROB is squashed. *)
Culprit ==
    /\ squashSN \in InROB
    /\ Detected(squashSN)
    /\ squashType = IF WrongPath(squashSN) THEN "BP_MISPRED" ELSE "MEM_MISPRED"

Squashing ==
    /\ pipe = "NORMAL" => squashSN = 0
    /\ pipe # "NORMAL" => squashSN # 0 /\ badInsID = squashSN
    /\ pipe \in {"WAIT_FLUSH", "FLUSH", "DRAIN"} => Culprit
    /\ pipe = "SQUASH_ROB" /\ turn = "SQUASH" =>
         Culprit /\ \A i \in Fetched : squashSN <= i
    /\ pipe = "SQUASH_ROB" /\ turn # "SQUASH" => ROB = << >> /\ iQUE = << >>
    /\ turn = "SQUASH" => pipe = "SQUASH_ROB"
    /\ turn \in {"FRONTEND", "HALT"} => pipe = "NORMAL"
    /\ \A i \in InROB : Detected(i) => pipe # "NORMAL" /\ squashSN <= i

(* How far a flush has come. *)
Flushing ==
    /\ FlushedIn({"DECODE", "FETCH", "COMMIT", "MEMORY", "EXECUTE"}) =>
         \A i \in Elements(resStn) \cup Elements(issuePort) : i < squashSN
    /\ pipe = "FLUSH" => Units = {}
    /\ pipe \in {"DRAIN", "SQUASH_ROB"} => \A i \in Units : i < squashSN
    /\ FlushedIn({"EXECUTE"}) =>
         \A i \in Elements(LQ) \cup Elements(SQ) : i < squashSN

(* Under perfect disambiguation no load reads the cache past a store. *)
Disambiguated ==
    MemModel[program] = "PERFECT" =>
      /\ squashType # "MEM_MISPRED"
      /\ \A i \in Ids : ~ins[i].memViolation
      /\ \A l \in InROB, s \in Elements(SQ) :
           ins[l].cacheAxes /\ s < l => Addr(s) # Addr(l)

IInv == /\ TypeOK /\ InOrder /\ TraceOrder /\ WindowOrder /\ Stages /\ LSQ
        /\ Squashing /\ Flushing /\ Disambiguated

(* Every right-path instruction supplied is retired, in flight or waiting. *)
Accounted == \A i \in 1 .. supplied :
    ~WrongPath(i) => i \in Elements(retired) \cup Traced

-----------------------------------------------------------------------------
(* Types. *)

(* The sequence numbers, and the sets of them that the program determines. *)
LEMMA Numbers ==
  ASSUME TypeOK
  PROVE  /\ Len(program) \in Nat
         /\ Ids \in SUBSET Nat /\ NoIns \notin Ids
         /\ \A i \in Ids : i \in 1 .. Len(program)
         /\ \A i \in Ids : /\ Op(i) \in {"ALU", "LOAD", "STORE"}
                           /\ Addr(i) \in Nat
                           /\ WrongPath(i) \in BOOLEAN
         /\ LoadIds \subseteq Ids /\ StoreIds \subseteq Ids /\ RightPathIds \subseteq Ids
<1> DEFINE R == [op : {"ALU", "LOAD", "STORE"}, addr : Nat,
                 rd : SUBSET Nat, wr : SUBSET Nat, wrongPath : BOOLEAN]
<1>1. program \in Seq(R)
  BY ProgramsAssumption DEF TypeOK
<1>2. Len(program) \in Nat /\ \A i \in 1 .. Len(program) : program[i] \in R
  <2> HIDE DEF R
  <2> QED BY <1>1
<1>3. \A i \in 1 .. Len(program) : /\ Op(i) \in {"ALU", "LOAD", "STORE"}
                                  /\ Addr(i) \in Nat
                                  /\ WrongPath(i) \in BOOLEAN
  BY <1>2 DEF Op, Addr, WrongPath
<1>4. Ids \in SUBSET Nat /\ NoIns \notin Ids
  BY <1>2 DEF Ids, NoIns
<1> QED BY <1>2, <1>3, <1>4 DEF Ids, LoadIds, StoreIds, RightPathIds

(* The program stays, and what is defined from it. *)
LEMMA ProgramStays ==
  ASSUME program' = program
  PROVE  /\ Ids' = Ids /\ LoadIds' = LoadIds /\ StoreIds' = StoreIds
         /\ RightPathIds' = RightPathIds /\ supplyPoints' = supplyPoints
BY DEF Ids, LoadIds, StoreIds, RightPathIds, supplyPoints, Op, WrongPath

LEMMA QueueTypes ==
  ASSUME TypeOK
  PROVE  /\ codeCache \in Seq(Ids) /\ iQUE \in Seq(Ids) /\ fetchPort \in Seq(Ids)
         /\ decodePort \in Seq(Ids) /\ resStn \in Seq(Ids) /\ issuePort \in Seq(Ids)
         /\ ROB \in Seq(Ids) /\ LQ \in Seq(Ids) /\ SQ \in Seq(Ids) /\ retired \in Seq(Ids)
BY DEF TypeOK

LEMMA ElementTypes ==
  ASSUME TypeOK
  PROVE  /\ Elements(codeCache) \subseteq Ids /\ Fetched \subseteq Ids
         /\ Elements(fetchPort) \subseteq Ids /\ Elements(decodePort) \subseteq Ids
         /\ Elements(resStn) \subseteq Ids /\ Elements(issuePort) \subseteq Ids
         /\ InROB \subseteq Ids /\ Elements(LQ) \subseteq Ids
         /\ Elements(SQ) \subseteq Ids /\ Elements(retired) \subseteq Ids
         /\ Units \subseteq Ids
         /\ \A i \in Ids : i \in Nat
<1>1. Units \subseteq Ids
  <2>1. EU \in [1 .. Width -> Ids \cup {NoIns}] /\ Width \in Nat
    BY SizesAssumption DEF TypeOK
  <2>2. \A i \in Units : \E e \in DOMAIN EU : i = EU[e] /\ i # NoIns
    <3>1. \A n \in 1 .. Len(EU) : n \in 1 .. Width
      BY <2>1
    <3> QED BY <3>1, <2>1 DEF Units, Elements
  <2> QED BY <2>1, <2>2
<1> QED BY <1>1, QueueTypes, ElementsIn, Numbers DEF Fetched, InROB

LEMMA Sizes ==
  ASSUME TypeOK
  PROVE  /\ {Width, MemWidth, PortLen, ResStnSize, RobSize, LQSize, SQSize} \subseteq Nat
         /\ Len(fetchPort) <= PortLen /\ Len(decodePort) <= PortLen
         /\ Len(issuePort) <= PortLen /\ Len(resStn) <= ResStnSize
         /\ Len(ROB) <= RobSize /\ Len(LQ) <= LQSize /\ Len(SQ) <= SQSize
BY SizesAssumption DEF TypeOK

LEMMA FlushBackElements ==
  ASSUME NEW D \in SUBSET Nat, NEW q \in Seq(D), Increasing(q), NEW sn \in Nat
  PROVE  /\ FlushBack(q, sn) \in Seq(D)
         /\ Increasing(FlushBack(q, sn))
         /\ Len(FlushBack(q, sn)) <= Len(q)
         /\ Elements(FlushBack(q, sn)) = {i \in Elements(q) : i < sn}
<1> DEFINE M == {0} \cup {n \in 1 .. Len(q) : q[n] < sn}
           k == Max(M)
<1>0. Len(q) \in Nat /\ \A n \in 1 .. Len(q) : q[n] \in Nat
  BY ElementsIn
<1>1. k \in M /\ \A n \in M : k >= n
  <2>1. M \in SUBSET Nat /\ M # {} /\ \A n \in M : n <= Len(q)
    BY <1>0
  <2> HIDE DEF M
  <2>2. \E n \in M : \A m \in M : m <= n
    BY <2>1, <1>0, GreatestNat
  <2>3. \E n \in M : \A m \in M : n >= m
    BY <2>1, <2>2
  <2> QED BY <2>3 DEF Max
<1>2. FlushBack(q, sn) = Take(q, k)
  BY DEF FlushBack
<1>3. k \in 0 .. Len(q)
  BY <1>0, <1>1
<1> HIDE DEF k
<1>4. \A n \in 1 .. Len(q) : q[n] < sn <=> n <= k
  <2> TAKE n \in 1 .. Len(q)
  <2>1. q[n] < sn => n <= k
    BY <1>1, <1>3
  <2>2. ASSUME n <= k PROVE q[n] < sn
    <3>1. k \in 1 .. Len(q) /\ q[k] < sn
      BY <1>0, <1>1, <1>3, <2>2
    <3>2. CASE n = k
      BY <3>1, <3>2
    <3>3. CASE n < k
      <4>1. q[n] < q[k]
        BY <3>1, <3>3 DEF Increasing
      <4> QED BY <4>1, <3>1, <1>0
    <3> QED BY <3>2, <3>3, <2>2, <1>3
  <2> QED BY <2>1, <2>2
<1>5. {q[n] : n \in 1 .. k} = {i \in Elements(q) : i < sn}
  BY <1>4, <1>3 DEF Elements
<1>6. Take(q, k) \in Seq(D) /\ Len(Take(q, k)) = k
  BY <1>3, TakeDrop
<1>7. Increasing(Take(q, k))
  BY <1>3, IncreasingTakeDrop
<1>8. Elements(Take(q, k)) = {q[n] : n \in 1 .. k}
  BY <1>3, TakeDropElements
<1> QED BY <1>2, <1>3, <1>5, <1>6, <1>7, <1>8

(* The pipeline state of an instruction. *)
InsState == [stage : Stage, lsq : LsqState, memViolation : BOOLEAN, cacheAxes : BOOLEAN]

LEMMA AtStageTable ==
  ASSUME NEW D, NEW S \in SUBSET D, NEW table \in [D -> InsState], NEW s \in Stage
  PROVE  /\ AtStage(S, s, table) \in [D -> InsState]
         /\ \A i \in D \ S : AtStage(S, s, table)[i] = table[i]
         /\ \A i \in S : AtStage(S, s, table)[i].stage = s
         /\ \A i \in D : /\ AtStage(S, s, table)[i].lsq = table[i].lsq
                         /\ AtStage(S, s, table)[i].memViolation = table[i].memViolation
                         /\ AtStage(S, s, table)[i].cacheAxes = table[i].cacheAxes
<1>1. AtStage(S, s, table) =
        [i \in D |-> IF i \in S THEN [table[i] EXCEPT !.stage = s] ELSE table[i]]
  BY DEF AtStage, Replace
<1>2. ASSUME NEW i \in D
      PROVE  LET t == [table[i] EXCEPT !.stage = s]
             IN /\ t \in InsState /\ t.stage = s /\ t.lsq = table[i].lsq
                /\ t.memViolation = table[i].memViolation
                /\ t.cacheAxes = table[i].cacheAxes
  <2>1. table[i] \in InsState
    OBVIOUS
  <2> QED BY <2>1 DEF InsState
<1> QED BY <1>1, <1>2


LEMMA ReplaceTable ==
  ASSUME NEW D, NEW S \in SUBSET D, NEW table \in [D -> InsState],
         NEW new \in [S -> InsState]
  PROVE  /\ Replace(table, new) \in [D -> InsState]
         /\ \A i \in D \ S : Replace(table, new)[i] = table[i]
         /\ \A i \in S : Replace(table, new)[i] = new[i]
<1>1. Replace(table, new) = [i \in D |-> IF i \in S THEN new[i] ELSE table[i]]
  BY DEF Replace
<1>2. \A i \in S : new[i] \in InsState /\ i \in D
  OBVIOUS
<1>3. \A i \in D : table[i] \in InsState
  OBVIOUS
<1> QED BY <1>1, <1>2, <1>3
-----------------------------------------------------------------------------
(* The frontend hands over more of the program. *)

LEMMA FrontendStep ==
  ASSUME IInv, frontend
  PROVE  IInv'
<1> USE DEF queues, squashVars, history
<1>1. PICK n \in {m \in supplyPoints : m > supplied} :
        /\ supplied' = n
        /\ codeCache' = codeCache \o [i \in 1 .. n - supplied |-> supplied + i]
  BY DEF frontend
<1>2. /\ program' = program /\ ins' = ins
      /\ turn = "FRONTEND" /\ turn' = "COMMIT" /\ pipe = "NORMAL" /\ pipe' = pipe
  BY DEF frontend, IInv, Squashing
<1>3. TypeOK
  BY DEF IInv
<1>t. /\ Ids' = Ids /\ RightPathIds' = RightPathIds /\ LoadIds' = LoadIds
      /\ StoreIds' = StoreIds
  BY <1>2, ProgramStays
<1>4. n \in Ids /\ n \in Nat /\ supplied \in Nat /\ supplied < n /\ Ids \in SUBSET Nat
      /\ 1 .. n \subseteq Ids
  <2>1. Len(program) \in Nat /\ Ids \in SUBSET Nat
    BY <1>3, Numbers
  <2>2. n \in Ids /\ supplied < n
    BY <1>1 DEF supplyPoints
  <2>3. supplied \in Nat
    BY <1>3, <2>1 DEF TypeOK
  <2>4. n \in Nat /\ 1 .. n \subseteq Ids
    BY <2>1, <2>2 DEF Ids
  <2> QED BY <2>1, <2>2, <2>3, <2>4
<1> DEFINE new == [i \in 1 .. n - supplied |-> supplied + i]
<1>5. /\ new \in Seq(Ids) /\ Len(new) = n - supplied
      /\ \A i \in 1 .. n - supplied : new[i] = supplied + i
  BY <1>4
<1> HIDE DEF new
<1>6. Elements(new) = supplied + 1 .. n
  <2>1. \A j \in supplied + 1 .. n : j - supplied \in 1 .. n - supplied /\ j = new[j - supplied]
    BY <1>4, <1>5
  <2>2. \A i \in 1 .. n - supplied : new[i] \in supplied + 1 .. n
    BY <1>4, <1>5
  <2> QED BY <1>5, <2>1, <2>2 DEF Elements
<1>7. Increasing(new)
  BY <1>4, <1>5 DEF Increasing
<1>8. codeCache' = codeCache \o new
  BY <1>1 DEF new
<1>9. /\ Elements(codeCache) \subseteq 1 .. supplied
      /\ codeCache \in Seq(Ids) /\ Increasing(codeCache)
  BY <1>3, QueueTypes DEF IInv, TraceOrder, Traced, InOrder
<1>10. Before(Elements(codeCache), Elements(new))
  BY <1>4, <1>6, <1>9 DEF Before
<1>11. /\ codeCache' \in Seq(Ids) /\ Increasing(codeCache')
       /\ Elements(codeCache') = Elements(codeCache) \cup (supplied + 1 .. n)
  <2> DEFINE cc == codeCache \o new
  <2>1. cc \in Seq(Ids) /\ Elements(cc) = Elements(codeCache) \cup Elements(new)
    BY <1>5, <1>9, Concat
  <2>2. Increasing(cc)
    BY <1>5, <1>7, <1>9, <1>10, Concat
  <2> QED BY <2>1, <2>2, <1>6, <1>8
<1>q. UNCHANGED <<iQUE, fetchPort, decodePort, resStn, issuePort, EU, ROB, LQ, SQ, pipe,
                  squashSN, squashType, badInsID, retired, deleted>>
  BY DEF frontend
<1> USE <1>2, <1>t, <1>q
<1>12. TypeOK'
  <2>1. supplied' \in 0 .. Len(program')
    BY <1>1, <1>4 DEF Ids
  <2>2. \A q \in {codeCache', iQUE', fetchPort', decodePort', resStn', issuePort',
                  ROB', LQ', SQ', retired'} : q \in Seq(Ids')
    BY <1>3, <1>11, QueueTypes
  <2> QED BY <1>3, <2>1, <2>2 DEF TypeOK
<1>13. InOrder'
  BY <1>11 DEF IInv, InOrder
<1>14. TraceOrder'
  <2>1. TraceOrder
    BY DEF IInv
  <2>2. /\ Elements(retired) \cup Fetched \cup Elements(codeCache) \subseteq 1 .. supplied
        /\ Fetched' = Fetched
        /\ Traced' = Traced \cup (supplied + 1 .. n)
    BY <2>1, <1>11 DEF TraceOrder, Traced, Fetched
  <2>3. Before(Elements(retired'), Traced') /\ Before(Fetched', Elements(codeCache'))
    BY <2>1, <2>2, <1>4, <1>11 DEF TraceOrder, Traced, Before
  <2>4. Elements(retired') \cup Traced' \subseteq 1 .. supplied'
    BY <2>2, <1>1, <1>4 DEF Traced
  <2>5. \A i \in Traced' : i .. supplied' \subseteq Traced'
    <3> SUFFICES ASSUME NEW i \in Traced', NEW j \in i .. n PROVE j \in Traced'
      BY <1>1
    <3>1. i \in Nat
      BY <2>4, <1>1, <1>4
    <3>2. CASE j <= supplied
      <4>1. i \in Traced /\ j \in i .. supplied
        BY <3>1, <3>2, <2>2, <1>4
      <4> QED BY <4>1, <2>1, <2>2 DEF TraceOrder
    <3>3. CASE j > supplied
      BY <3>1, <3>3, <2>2, <1>4
    <3> QED BY <3>1, <3>2, <3>3, <1>4
  <2> QED BY <2>1, <2>3, <2>4, <2>5 DEF TraceOrder
<1>15. WindowOrder'
  BY DEF IInv, WindowOrder, Window, InROB, Fetched, FlushedIn
<1>16. Stages'
  <2>1. Stages /\ Units' = Units
    BY DEF IInv, Units
  <2>2. \A i \in Elements(codeCache') : ins'[i] = NewIns
    <3>1. \A i \in supplied + 1 .. n : i \in Ids /\ i > supplied
      BY <1>4
    <3> QED BY <3>1, <2>1, <1>11 DEF Stages
  <2>3. \A i \in Ids : i > supplied' => ins'[i] = NewIns
    BY <2>1, <1>1, <1>4 DEF Stages
  <2> QED BY <2>1, <2>2, <2>3 DEF Stages, InROB, Fetched, Lifecycle, Op
<1>17. LSQ'
  BY DEF IInv, LSQ, InROB, Units, Op
<1>18. Squashing'
  BY DEF IInv, Squashing, Culprit, InROB, Detected, Fetched, WrongPath
<1>19. Flushing'
  BY DEF IInv, Flushing, FlushedIn, Units
<1>20. Disambiguated'
  BY DEF IInv, Disambiguated, InROB, Addr
<1> QED BY <1>12, <1>13, <1>14, <1>15, <1>16, <1>17, <1>18, <1>19, <1>20 DEF IInv

-----------------------------------------------------------------------------
(* A stage that does nothing in this state of the pipeline. *)

LEMMA Stalled ==
  ASSUME IInv, UNCHANGED work,
         \/ /\ pipe = "WAIT_FLUSH"
            /\ turn \in {"SCHEDULE", "DECODE", "COMMIT"}
            /\ turn' \in {"DECODE", "FETCH", "MEMORY"}
         \/ pipe = "FLUSH" /\ turn = "COMMIT" /\ turn' = "MEMORY"
  PROVE  IInv'
<1> USE DEF work, frontVars, queues, squashVars, history
<1>u. UNCHANGED <<program, supplied, codeCache, pipe, squashSN, squashType, badInsID, ins,
                  retired, deleted, iQUE, fetchPort, decodePort, resStn, issuePort, EU, ROB,
                  LQ, SQ>>
  OBVIOUS
<1>t. /\ Ids' = Ids /\ RightPathIds' = RightPathIds /\ LoadIds' = LoadIds
      /\ StoreIds' = StoreIds
  BY <1>u, ProgramStays
<1>e. /\ Fetched' = Fetched /\ InROB' = InROB /\ Units' = Units /\ Traced' = Traced
      /\ Window' = Window
  BY <1>u DEF Fetched, InROB, Units, Traced, Window
<1> USE <1>u, <1>t, <1>e
<1>1. TypeOK'
  BY DEF IInv, TypeOK
<1>2. InOrder' /\ TraceOrder'
  BY DEF IInv, InOrder, TraceOrder
<1>3. WindowOrder'
  BY DEF IInv, WindowOrder, FlushedIn
<1>4. Stages'
  BY DEF IInv, Stages, Lifecycle, Op
<1>5. LSQ'
  BY DEF IInv, LSQ, Op
<1>6. Squashing'
  BY DEF IInv, Squashing, Culprit, Detected, WrongPath
<1>7. Flushing'
  BY DEF IInv, Flushing, FlushedIn
<1>8. Disambiguated'
  BY DEF IInv, Disambiguated, Addr
<1> QED BY <1>1, <1>2, <1>3, <1>4, <1>5, <1>6, <1>7, <1>8 DEF IInv

-----------------------------------------------------------------------------
(* Decode. *)

LEMMA DecodeStep ==
  ASSUME IInv, doDECODE
  PROVE  IInv'
<1> USE DEF frontVars, squashVars, history
<1>u. UNCHANGED <<program, supplied, codeCache, pipe, squashSN, squashType, badInsID,
                  retired, deleted, iQUE, resStn, issuePort, EU, ROB, LQ, SQ>>
  BY DEF doDECODE
<1>2. turn = "DECODE" /\ turn' = "FETCH"
  BY DEF doDECODE
<1>t. /\ Ids' = Ids /\ RightPathIds' = RightPathIds /\ LoadIds' = LoadIds
      /\ StoreIds' = StoreIds
  BY <1>u, ProgramStays
<1>3. TypeOK /\ Ids \in SUBSET Nat
  BY Numbers DEF IInv
<1>e. /\ Fetched' = Fetched /\ InROB' = InROB /\ Units' = Units /\ Traced' = Traced
  BY <1>u DEF Fetched, InROB, Units, Traced
<1>w. CASE pipe = "WAIT_FLUSH"
  <2>1. UNCHANGED work
    BY <1>u, <1>w DEF doDECODE, work, queues
  <2> QED BY <1>2, <1>w, <2>1, Stalled
<1>f. CASE pipe = "FLUSH"
  <2>1. UNCHANGED <<fetchPort, ins>> /\ decodePort' = FlushBack(decodePort, squashSN)
    BY <1>f DEF doDECODE
  <2>2. squashSN \in InROB /\ squashSN \in Nat
    BY <1>f, <1>3, ElementTypes DEF IInv, Squashing, Culprit
  <2>3. \A i \in Elements(decodePort) : squashSN < i /\ i \in Nat
    BY <2>2, <1>3, ElementTypes DEF IInv, WindowOrder, Before
  <2>4. /\ FlushBack(decodePort, squashSN) \in Seq(Ids)
        /\ Elements(FlushBack(decodePort, squashSN)) =
             {i \in Elements(decodePort) : i < squashSN}
    BY <1>3, <2>2, QueueTypes, FlushBackElements DEF IInv, InOrder
  <2>5. Elements(FlushBack(decodePort, squashSN)) = {}
    BY <2>2, <2>3, <2>4
  <2>6. decodePort' = << >> /\ Elements(decodePort') = {}
    BY <2>1, <2>4, <2>5, ElementsIn
  <2> USE <1>u, <1>2, <1>t, <1>e, <2>1, <2>6, <1>f
  <2>7. TypeOK'
    <3>1. decodePort' \in Seq(Ids) /\ Len(decodePort') <= PortLen
      BY EmptyQueue, SizesAssumption
    <3> QED BY <1>3, <3>1, ZenonT(60) DEF TypeOK
  <2>8. InOrder'
    BY EmptyQueue DEF IInv, InOrder
  <2>9. TraceOrder'
    BY DEF IInv, TraceOrder
  <2>10. WindowOrder'
    <3>1. Window' = InROB \cup Elements(fetchPort)
      BY DEF Window, InROB
    <3> QED BY <3>1 DEF IInv, WindowOrder, FlushedIn, Before, Window
  <2>11. Stages'
    BY DEF IInv, Stages, Lifecycle, Op
  <2>12. LSQ'
    BY DEF IInv, LSQ, Op
  <2>13. Squashing'
    BY DEF IInv, Squashing, Culprit, Detected, WrongPath
  <2>14. Flushing'
    BY DEF IInv, Flushing, FlushedIn
  <2>15. Disambiguated'
    BY DEF IInv, Disambiguated, Addr
  <2> QED BY <2>7, <2>8, <2>9, <2>10, <2>11, <2>12, <2>13, <2>14, <2>15 DEF IInv
<1>n. CASE pipe \notin {"WAIT_FLUSH", "FLUSH"}
  <2>1. PICK k \in 0 .. Width :
          /\ k <= Len(fetchPort) /\ Len(decodePort) + k <= PortLen
          /\ fetchPort' = Drop(fetchPort, k)
          /\ decodePort' = decodePort \o Take(fetchPort, k)
          /\ ins' = AtStage(Elements(Take(fetchPort, k)), "DECODE", ins)
    BY <1>n DEF doDECODE
  <2> DEFINE new == Elements(Take(fetchPort, k))
  <2>2. fetchPort \in Seq(Ids) /\ Increasing(fetchPort) /\ k \in 0 .. Len(fetchPort)
        /\ decodePort \in Seq(Ids) /\ Increasing(decodePort)
    <3>1. Width \in Nat
      BY SizesAssumption
    <3> QED BY <2>1, <1>3, <3>1, QueueTypes, ElementsIn DEF IInv, InOrder
  <2>3. /\ Take(fetchPort, k) \in Seq(Ids) /\ Len(Take(fetchPort, k)) = k
        /\ Drop(fetchPort, k) \in Seq(Ids) /\ Len(Drop(fetchPort, k)) = Len(fetchPort) - k
    BY <2>2, TakeDrop
  <2>4. /\ Increasing(Take(fetchPort, k)) /\ Increasing(Drop(fetchPort, k))
        /\ Before(new, Elements(Drop(fetchPort, k)))
        /\ Elements(Drop(fetchPort, k)) = Elements(fetchPort) \ new
        /\ Elements(fetchPort) = new \cup Elements(Drop(fetchPort, k))
    BY <1>3, <2>2, IncreasingTakeDrop, TakeDropElements
  <2>5. Before(Elements(decodePort), Elements(fetchPort))
    BY DEF IInv, WindowOrder
  <2>6. Before(Elements(decodePort), new)
    BY <2>4, <2>5 DEF Before
  <2>7. /\ decodePort' \in Seq(Ids) /\ Increasing(decodePort')
        /\ Len(decodePort') = Len(decodePort) + k
        /\ Elements(decodePort') = Elements(decodePort) \cup new
    BY <2>1, <2>2, <2>3, <2>4, <2>6, Concat
  <2>8. new \subseteq Elements(fetchPort) /\ new \subseteq Ids
    BY <2>3, <2>4, ElementsIn
  <2>9. /\ Elements(fetchPort') = Elements(fetchPort) \ new
        /\ fetchPort' \in Seq(Ids) /\ Increasing(fetchPort')
    BY <2>1, <2>3, <2>4
  <2>10. /\ ins' \in [Ids -> InsState]
         /\ \A i \in new : ins'[i].stage = "DECODE"
         /\ \A i \in Ids : /\ ins'[i].lsq = ins[i].lsq
                           /\ ins'[i].memViolation = ins[i].memViolation
                           /\ ins'[i].cacheAxes = ins[i].cacheAxes
         /\ \A i \in Ids \ new : ins'[i] = ins[i]
    <3>1. ins \in [Ids -> InsState] /\ "DECODE" \in Stage
      BY <1>3 DEF TypeOK, InsState, Stage
    <3> HIDE DEF new
    <3> DEFINE t == AtStage(new, "DECODE", ins)
    <3>2. /\ t \in [Ids -> InsState]
          /\ \A i \in new : t[i].stage = "DECODE"
          /\ \A i \in Ids : /\ t[i].lsq = ins[i].lsq
                            /\ t[i].memViolation = ins[i].memViolation
                            /\ t[i].cacheAxes = ins[i].cacheAxes
          /\ \A i \in Ids \ new : t[i] = ins[i]
      BY <2>8, <3>1, AtStageTable
    <3>3. ins' = t
      BY <2>1 DEF new
    <3> QED BY <3>2, <3>3
  <2>11. Window' = Window
    BY <2>7, <2>8, <2>9, <1>e DEF Window
  <2>12. new \cap InROB = {}
    <3>1. Before(InROB, new)
      BY <2>8 DEF IInv, WindowOrder, Before
    <3>2. InROB \in SUBSET Nat /\ new \in SUBSET Nat
      BY <2>8, <1>3, ElementTypes
    <3> HIDE DEF new
    <3> QED BY <3>1, <3>2, BeforeDisjoint
  <2>14. \A i \in new : ins[i].stage = "FETCH" /\ i \in Fetched \ InROB
    BY <2>8, <2>12 DEF IInv, Stages, WindowOrder, Window
  <2>16. \A i \in InROB : ins'[i] = ins[i]
    BY <2>10, <2>12, <1>3, ElementTypes
  <2> HIDE DEF new
  <2> USE <1>u, <1>2, <1>t, <1>e, <1>n
  <2>17. TypeOK'
    <3>0. /\ PortLen \in Nat /\ Len(fetchPort) <= PortLen /\ Len(fetchPort) \in Nat
          /\ k \in Nat
      BY <2>2, <1>3, Sizes, ElementsIn
    <3>1. Len(fetchPort') <= PortLen
      BY <2>1, <2>3, <3>0
    <3>2. Len(decodePort') <= PortLen
      BY <2>1, <2>7
    <3>3. ins' \in [Ids' -> [stage : Stage, lsq : LsqState,
                        memViolation : BOOLEAN, cacheAxes : BOOLEAN]]
      BY <2>10 DEF InsState
    <3> QED BY <1>3, <2>7, <2>9, <3>1, <3>2, <3>3, ZenonT(60) DEF TypeOK
  <2>18. InOrder'
    BY <2>7, <2>9 DEF IInv, InOrder
  <2>19. TraceOrder'
    BY DEF IInv, TraceOrder
  <2>20. WindowOrder'
    <3>1. /\ Before(InROB, Elements(decodePort') \cup Elements(fetchPort'))
          /\ Before(Elements(decodePort'), Elements(fetchPort'))
      BY <2>4, <2>5, <2>7, <2>8, <2>9 DEF IInv, WindowOrder, Before
    <3>2. pipe # "NORMAL" => decodePort' = << >> /\ fetchPort' = << >>
      <4> SUFFICES ASSUME pipe # "NORMAL" PROVE decodePort' = << >> /\ fetchPort' = << >>
        OBVIOUS
      <4>1. decodePort = << >> /\ fetchPort = << >>
        BY <1>3 DEF IInv, WindowOrder, FlushedIn, TypeOK, PipeState
      <4>2. Elements(fetchPort) = {} /\ Elements(decodePort) = {}
        BY <4>1, EmptyQueue
      <4> QED BY <4>2, <2>7, <2>8, <2>9, ElementsIn
    <3> QED BY <3>1, <3>2, <2>11 DEF IInv, WindowOrder, FlushedIn
  <2>21. Stages'
    <3>1. \A i \in Elements(codeCache) : ins'[i] = NewIns
      <4>1. \A i \in Elements(codeCache) : ins[i] = NewIns /\ i \in Ids /\ i \notin new
        BY <2>14, <1>3, ElementTypes DEF IInv, Stages, NewIns
      <4> QED BY <4>1, <2>10
    <3>2. \A i \in Ids : i > supplied => ins'[i] = NewIns
      <4>1. \A i \in Ids : i > supplied => ins[i] = NewIns /\ i \notin new
        BY <2>14 DEF IInv, Stages, NewIns
      <4> QED BY <4>1, <2>10
    <3>3. \A i \in Fetched \ InROB :
            /\ ins'[i].stage \in {"FETCH", "DECODE"}
            /\ ~ins'[i].memViolation /\ ~ins'[i].cacheAxes
      BY <2>10, <1>3, ElementTypes, ZenonT(60) DEF IInv, Stages
    <3>4. \A i \in Elements(fetchPort') : ins'[i].stage = "FETCH"
      BY <2>9, <2>10, <1>3, ElementTypes, ZenonT(60) DEF IInv, Stages
    <3>5. \A i \in Elements(decodePort') : ins'[i].stage = "DECODE"
      BY <2>7, <2>8, <2>10, <1>3, ElementTypes DEF IInv, Stages
    <3>6. /\ \A i \in Elements(resStn) : i \in InROB /\ ins'[i].stage = "DISPATCH"
          /\ \A i \in Elements(issuePort) : i \in InROB /\ ins'[i].stage = "ISSUE"
          /\ \A i \in Units : i \in InROB /\ ins'[i].stage = "EXECUTE"
      BY <2>16 DEF IInv, Stages
    <3>7. \A i \in InROB :
            /\ Lifecycle(i)'
            /\ ins'[i].stage = "EXECUTE" => i \in Units
            /\ ins'[i].memViolation => Op(i) = "LOAD" /\ ins'[i].lsq = "COMPLETE"
      <4> TAKE i \in InROB
      <4>1. ins'[i] = ins[i] /\ Op(i)' = Op(i)
        BY <2>16 DEF Op
      <4>2. Lifecycle(i) /\ (ins[i].stage = "EXECUTE" => i \in Units)
            /\ (ins[i].memViolation => Op(i) = "LOAD" /\ ins[i].lsq = "COMPLETE")
        BY DEF IInv, Stages
      <4> QED BY <4>1, <4>2 DEF Lifecycle
    <3> QED BY <3>1, <3>2, <3>3, <3>4, <3>5, <3>6, <3>7 DEF Stages, Op
  <2>22. LSQ'
    <3>1. \A i \in Elements(SQ) \ InROB : ins'[i] = ins[i]
      BY <2>10, <2>14, <1>3, ElementTypes DEF IInv, LSQ
    <3> QED BY <3>1 DEF IInv, LSQ, Op
  <2>23. Squashing'
    BY <2>16 DEF IInv, Squashing, Culprit, Detected, WrongPath
  <2>24. Flushing'
    BY DEF IInv, Flushing, FlushedIn
  <2>25. Disambiguated'
    BY <2>10, <2>16 DEF IInv, Disambiguated, Addr
  <2> QED BY <2>17, <2>18, <2>19, <2>20, <2>21, <2>22, <2>23, <2>24, <2>25 DEF IInv
<1> QED BY <1>w, <1>f, <1>n

-----------------------------------------------------------------------------
(* Fetch. *)

LEMMA FetchNormal ==
  ASSUME IInv, doFETCH, pipe = "NORMAL"
  PROVE  IInv'
<1> USE DEF squashVars, history
<1>u. UNCHANGED <<program, supplied, pipe, squashSN, squashType, badInsID,
                  retired, deleted, decodePort, resStn, issuePort, EU, ROB, LQ, SQ>>
  BY DEF doFETCH
<1>t. /\ Ids' = Ids /\ RightPathIds' = RightPathIds /\ LoadIds' = LoadIds
      /\ StoreIds' = StoreIds
  BY <1>u, ProgramStays
<1>3. TypeOK /\ Ids \in SUBSET Nat /\ Len(program) \in Nat
  BY Numbers DEF IInv
<1>e. InROB' = InROB /\ Units' = Units
  BY <1>u DEF InROB, Units
<1> DEFINE k == Min({Width, Len(codeCache), PortLen - Len(fetchPort)})
           new == Elements(Take(codeCache, k))
<1>1. /\ codeCache' = Drop(codeCache, k)
      /\ iQUE' = iQUE \o Take(codeCache, k)
      /\ fetchPort' = fetchPort \o Take(codeCache, k)
      /\ ins' = AtStage(new, "FETCH", ins)
      /\ turn' \in {"FRONTEND", "HALT", "COMMIT"}
  BY DEF doFETCH, fetchImpl
<1>2. k \in 0 .. Len(codeCache) /\ Len(fetchPort) + k <= PortLen
  <2> DEFINE M == {Width, Len(codeCache), PortLen - Len(fetchPort)}
  <2>1. Width \in Nat /\ PortLen \in Nat /\ Len(fetchPort) <= PortLen
    BY <1>3, Sizes
  <2>2. Len(codeCache) \in Nat /\ Len(fetchPort) \in Nat
    BY <1>3, QueueTypes, ElementsIn
  <2>3. \E x \in M : \A y \in M : x <= y
    BY <2>1, <2>2
  <2>4. Min(M) \in M /\ \A y \in M : Min(M) <= y
    <3> HIDE DEF M
    <3> QED BY <2>3 DEF Min
  <2> QED BY <2>1, <2>2, <2>4
<1> HIDE DEF k
<1>4. codeCache \in Seq(Ids) /\ Increasing(codeCache) /\ iQUE \in Seq(Ids)
      /\ Increasing(iQUE) /\ fetchPort \in Seq(Ids) /\ Increasing(fetchPort)
  BY <1>3, QueueTypes DEF IInv, InOrder
<1>5. /\ Take(codeCache, k) \in Seq(Ids) /\ Len(Take(codeCache, k)) = k
      /\ Drop(codeCache, k) \in Seq(Ids)
  BY <1>2, <1>4, TakeDrop
<1>6. /\ Increasing(Take(codeCache, k)) /\ Increasing(Drop(codeCache, k))
      /\ Before(new, Elements(Drop(codeCache, k)))
      /\ Elements(Drop(codeCache, k)) = Elements(codeCache) \ new
      /\ Elements(codeCache) = new \cup Elements(Drop(codeCache, k))
  BY <1>2, <1>3, <1>4, IncreasingTakeDrop, TakeDropElements
<1>7. new \subseteq Elements(codeCache) /\ new \subseteq Ids /\ Elements(codeCache) \subseteq Ids
      /\ Fetched \subseteq Ids /\ InROB \subseteq Ids
  BY <1>3, <1>5, <1>6, ElementTypes, ElementsIn
<1>8. Before(Fetched, Elements(codeCache)) /\ Window \subseteq Fetched
  BY DEF IInv, TraceOrder, WindowOrder
<1>9. /\ codeCache' \in Seq(Ids) /\ Increasing(codeCache')
      /\ Elements(codeCache') = Elements(codeCache) \ new
  BY <1>1, <1>5, <1>6
<1>10. /\ iQUE' \in Seq(Ids) /\ Increasing(iQUE') /\ Elements(iQUE') = Fetched \cup new
  <2>1. Before(Elements(iQUE), new)
    BY <1>7, <1>8 DEF Before, Fetched
  <2> QED BY <1>1, <1>4, <1>5, <1>6, <2>1, Concat DEF Fetched
<1>11. /\ fetchPort' \in Seq(Ids) /\ Increasing(fetchPort')
       /\ Elements(fetchPort') = Elements(fetchPort) \cup new
       /\ Len(fetchPort') <= PortLen
  <2>1. Before(Elements(fetchPort), new)
    BY <1>7, <1>8 DEF Before, Window
  <2> DEFINE t == Take(codeCache, k)
  <2>2. t \in Seq(Ids) /\ Increasing(t) /\ Elements(t) = new /\ Len(t) = k
    BY <1>5, <1>6
  <2>3. fetchPort' = fetchPort \o t
    BY <1>1
  <2> HIDE DEF t, new
  <2>4. /\ fetchPort \o t \in Seq(Ids) /\ Len(fetchPort \o t) = Len(fetchPort) + k
        /\ Elements(fetchPort \o t) = Elements(fetchPort) \cup new
    BY <1>4, <2>2, Concat, ZenonT(60)
  <2>5. Increasing(fetchPort \o t)
    BY <1>4, <2>1, <2>2, Concat
  <2> QED BY <1>2, <2>3, <2>4, <2>5
<1>12. Fetched \cap Elements(codeCache) = {}
  BY <1>3, <1>7, <1>8, BeforeDisjoint
<1> HIDE DEF new
<1>13. /\ ins' \in [Ids -> InsState]
       /\ \A i \in new : ins'[i].stage = "FETCH"
       /\ \A i \in Ids : /\ ins'[i].lsq = ins[i].lsq
                         /\ ins'[i].memViolation = ins[i].memViolation
                         /\ ins'[i].cacheAxes = ins[i].cacheAxes
       /\ \A i \in Ids \ new : ins'[i] = ins[i]
  <2>1. ins \in [Ids -> InsState] /\ "FETCH" \in Stage
    BY <1>3 DEF TypeOK, InsState, Stage
  <2> DEFINE t == AtStage(new, "FETCH", ins)
  <2>2. /\ t \in [Ids -> InsState]
        /\ \A i \in new : t[i].stage = "FETCH"
        /\ \A i \in Ids : /\ t[i].lsq = ins[i].lsq
                          /\ t[i].memViolation = ins[i].memViolation
                          /\ t[i].cacheAxes = ins[i].cacheAxes
        /\ \A i \in Ids \ new : t[i] = ins[i]
    <3> new \in SUBSET Ids
      BY <1>7
    <3> HIDE DEF t
    <3> QED BY <2>1, AtStageTable DEF t
  <2> QED BY <1>1, <2>2
<1>14. /\ Fetched' = Fetched \cup new /\ Window' = Window \cup new /\ Traced' = Traced
       /\ new \cap Fetched = {} /\ new \cap InROB = {}
  BY <1>7, <1>9, <1>10, <1>11, <1>12, <1>8, <1>u DEF Fetched, Window, Traced, InROB
<1>15. \A i \in Fetched : ins'[i] = ins[i]
  BY <1>7, <1>13, <1>14
<1>15a. \A i \in InROB : ins'[i] = ins[i]
  BY <1>7, <1>13, <1>14
<1> USE <1>u, <1>t, <1>e
<1>16. TypeOK'
  <2>1. ins' \in [Ids' -> [stage : Stage, lsq : LsqState,
                      memViolation : BOOLEAN, cacheAxes : BOOLEAN]]
    BY <1>13 DEF InsState
  <2>2. \A q \in {codeCache', iQUE', fetchPort', decodePort', resStn', issuePort',
                  ROB', LQ', SQ', retired'} : q \in Seq(Ids')
    BY <1>3, <1>9, <1>10, <1>11, QueueTypes
  <2>3. \A q \in {fetchPort', decodePort', issuePort'} : Len(q) <= PortLen
    BY <1>11, <1>3, Sizes
  <2> QED BY <1>1, <1>3, <2>1, <2>2, <2>3 DEF TypeOK
<1>17. InOrder'
  BY <1>9, <1>10, <1>11 DEF IInv, InOrder
<1>18. TraceOrder'
  <2>1. Before(Fetched', Elements(codeCache'))
    BY <1>6, <1>9, <1>14, <1>8, <1>1 DEF Before, Fetched
  <2> QED BY <2>1, <1>14 DEF IInv, TraceOrder
<1>19. WindowOrder'
  <2>1. Before(Window, new)
    BY <1>7, <1>8 DEF Before
  <2>2. Before(InROB, Elements(decodePort) \cup Elements(fetchPort'))
    BY <2>1, <1>11 DEF IInv, WindowOrder, Before, Window
  <2>3. Before(Elements(decodePort), Elements(fetchPort'))
    BY <2>1, <1>11 DEF IInv, WindowOrder, Before, Window
  <2>4. Window' = Fetched'
    BY <1>14, <1>8 DEF IInv, WindowOrder
  <2>5. DownClosed(InROB, Fetched')
    <3> SUFFICES ASSUME NEW i \in InROB, NEW j \in new, j < i PROVE FALSE
      BY <1>14 DEF IInv, WindowOrder, DownClosed
    <3>1. i < j
      BY <2>1 DEF Before, Window
    <3>2. i \in Nat /\ j \in Nat
      BY <1>7, <1>3
    <3> QED BY <3>1, <3>2
  <2>6. DownClosed(Window', Fetched')
    BY <2>4 DEF DownClosed
  <2>7. Before(InROB', Elements(decodePort') \cup Elements(fetchPort'))
    BY <2>2
  <2> QED BY <2>3, <2>4, <2>5, <2>6, <2>7 DEF WindowOrder, FlushedIn
<1>20. Stages'
  <2>1. \A i \in Elements(codeCache') : ins'[i] = NewIns
    BY <1>7, <1>9, <1>13 DEF IInv, Stages
  <2>2. \A i \in Ids : i > supplied => ins'[i] = NewIns
    <3>1. \A i \in new : i \in 1 .. supplied
      BY <1>7 DEF IInv, TraceOrder, Traced
    <3>2. \A i \in new : ~(i > supplied)
      BY <3>1, <1>3 DEF TypeOK
    <3> QED BY <3>2, <1>13 DEF IInv, Stages
  <2>3. \A i \in Elements(fetchPort') : ins'[i].stage = "FETCH"
    BY <1>11, <1>13, <1>15, <1>8 DEF IInv, Stages, Window
  <2>4. \A i \in Elements(decodePort) : ins'[i].stage = "DECODE"
    BY <1>15, <1>8 DEF IInv, Stages, Window
  <2>5. \A i \in Fetched' \ InROB :
          /\ ins'[i].stage \in {"FETCH", "DECODE"}
          /\ ~ins'[i].memViolation /\ ~ins'[i].cacheAxes
    <3>1. \A i \in new : ins[i] = NewIns
      BY <1>7 DEF IInv, Stages
    <3>2. \A i \in new : ~ins[i].memViolation /\ ~ins[i].cacheAxes
      BY <3>1 DEF NewIns
    <3>3. \A i \in new : ~ins'[i].memViolation /\ ~ins'[i].cacheAxes
      BY <3>2, <1>7, <1>13
    <3> QED BY <3>3, <1>13, <1>14, <1>15 DEF IInv, Stages
  <2>6. /\ \A i \in Elements(resStn) : i \in InROB /\ ins'[i].stage = "DISPATCH"
        /\ \A i \in Elements(issuePort) : i \in InROB /\ ins'[i].stage = "ISSUE"
        /\ \A i \in Units : i \in InROB /\ ins'[i].stage = "EXECUTE"
    BY <1>15a DEF IInv, Stages
  <2>7. \A i \in InROB :
          /\ Lifecycle(i)'
          /\ ins'[i].stage = "EXECUTE" => i \in Units
          /\ ins'[i].memViolation => Op(i) = "LOAD" /\ ins'[i].lsq = "COMPLETE"
    <3> TAKE i \in InROB
    <3>1. ins'[i] = ins[i] /\ Op(i)' = Op(i)
      BY <1>15a DEF Op
    <3>2. Lifecycle(i) /\ (ins[i].stage = "EXECUTE" => i \in Units)
          /\ (ins[i].memViolation => Op(i) = "LOAD" /\ ins[i].lsq = "COMPLETE")
      BY DEF IInv, Stages
    <3> QED BY <3>1, <3>2 DEF Lifecycle
  <2> QED BY <2>1, <2>2, <2>3, <2>4, <2>5, <2>6, <2>7 DEF Stages, Op
<1>21. LSQ'
  <2>1. \A i \in Elements(SQ) \ InROB : ins'[i] = ins[i]
    <3>1. \A i \in Elements(SQ) \ InROB : ins[i].stage = "COMMIT" /\ i \in Ids
      BY <1>3, ElementTypes DEF IInv, LSQ
    <3>2. \A i \in new : ins[i].stage = "NO_STAGE"
      BY <1>7 DEF IInv, Stages, NewIns
    <3> QED BY <3>1, <3>2, <1>13
  <2> QED BY <2>1 DEF IInv, LSQ, Op
<1>22. Squashing'
  <2>1. \A i \in InROB : ~Detected(i)'
    BY <1>15a DEF IInv, Squashing, Detected, WrongPath
  <2> QED BY <2>1, <1>1 DEF IInv, Squashing
<1>23. Flushing'
  BY DEF IInv, Flushing, FlushedIn
<1>24. Disambiguated'
  BY <1>13, <1>15a DEF IInv, Disambiguated, Addr
<1> QED BY <1>16, <1>17, <1>18, <1>19, <1>20, <1>21, <1>22, <1>23, <1>24 DEF IInv

LEMMA FetchFlush ==
  ASSUME IInv, doFETCH, pipe # "NORMAL"
  PROVE  IInv'
<1> USE DEF squashVars, history
<1>u. UNCHANGED <<program, supplied, pipe, squashSN, squashType, badInsID, codeCache, iQUE,
                  ins, retired, deleted, decodePort, resStn, issuePort, EU, ROB, LQ, SQ>>
  BY DEF doFETCH
<1>t. /\ Ids' = Ids /\ RightPathIds' = RightPathIds /\ LoadIds' = LoadIds
      /\ StoreIds' = StoreIds
  BY <1>u, ProgramStays
<1>3. TypeOK /\ Ids \in SUBSET Nat
  BY Numbers DEF IInv
<1>e. /\ Fetched' = Fetched /\ InROB' = InROB /\ Units' = Units /\ Traced' = Traced
  BY <1>u DEF Fetched, InROB, Units, Traced
<1>1. /\ turn = "FETCH" /\ turn' = "COMMIT"
      /\ fetchPort' = IF pipe = "FLUSH" THEN FlushBack(fetchPort, squashSN) ELSE fetchPort
  BY DEF doFETCH
<1>2. pipe = "FLUSH" => fetchPort' = << >>
  <2> SUFFICES ASSUME pipe = "FLUSH" PROVE FlushBack(fetchPort, squashSN) = << >>
    BY <1>1
  <2>2. squashSN \in InROB /\ squashSN \in Nat
    BY <1>3, ElementTypes DEF IInv, Squashing, Culprit
  <2>3. \A i \in Elements(fetchPort) : squashSN < i /\ i \in Nat
    BY <2>2, <1>3, ElementTypes DEF IInv, WindowOrder, Before
  <2>4. /\ FlushBack(fetchPort, squashSN) \in Seq(Ids)
        /\ Elements(FlushBack(fetchPort, squashSN)) =
             {i \in Elements(fetchPort) : i < squashSN}
    BY <1>3, <2>2, QueueTypes, FlushBackElements DEF IInv, InOrder
  <2>5. Elements(FlushBack(fetchPort, squashSN)) = {}
    BY <2>2, <2>3, <2>4
  <2> QED BY <2>4, <2>5, ElementsIn
<1>4. fetchPort' = fetchPort \/ fetchPort' = << >>
  BY <1>1, <1>2
<1>5. /\ fetchPort' \in Seq(Ids) /\ Increasing(fetchPort') /\ Len(fetchPort') <= PortLen
      /\ Elements(fetchPort') \subseteq Elements(fetchPort)
  <2>1. CASE fetchPort' = fetchPort
    BY <1>3, <2>1, QueueTypes, Sizes DEF IInv, InOrder
  <2>2. CASE fetchPort' = << >>
    <3>1. PortLen \in Nat
      BY <1>3, Sizes
    <3> QED BY <2>2, <3>1, EmptyQueue
  <2> QED BY <1>4, <2>1, <2>2
<1> USE <1>u, <1>t, <1>e
<1>6. TypeOK'
  <2>1. \A q \in {codeCache', iQUE', fetchPort', decodePort', resStn', issuePort',
                  ROB', LQ', SQ', retired'} : q \in Seq(Ids')
    BY <1>3, <1>5, QueueTypes
  <2>2. \A q \in {fetchPort', decodePort', issuePort'} : Len(q) <= PortLen
    BY <1>5, <1>3, Sizes
  <2> QED BY <1>1, <1>3, <2>1, <2>2 DEF TypeOK
<1>7. InOrder'
  BY <1>5 DEF IInv, InOrder
<1>8. TraceOrder'
  BY DEF IInv, TraceOrder
<1>9. WindowOrder'
  <2>1. /\ Before(InROB, Elements(decodePort) \cup Elements(fetchPort'))
        /\ Before(Elements(decodePort), Elements(fetchPort'))
        /\ Window' \subseteq Fetched
    BY <1>5 DEF IInv, WindowOrder, Before, Window
  <2>2. CASE pipe = "WAIT_FLUSH"
    <3>1. fetchPort' = fetchPort /\ Window' = Window
      BY <2>2, <1>1 DEF Window
    <3> QED BY <3>1, <2>2, <1>1 DEF IInv, WindowOrder, FlushedIn
  <2>3. CASE pipe \in {"FLUSH", "DRAIN", "SQUASH_ROB"}
    <3>1. fetchPort' = << >> /\ decodePort = << >>
      BY <2>3, <1>1, <1>2 DEF IInv, WindowOrder, FlushedIn
    <3>2. Elements(fetchPort') = {} /\ Elements(decodePort) = {}
      BY <3>1, EmptyQueue
    <3>3. Window' = InROB
      BY <3>2 DEF Window
    <3> QED BY <3>1, <3>3, <2>1, <2>3, <1>1 DEF IInv, WindowOrder, FlushedIn
  <2> QED BY <2>2, <2>3, <1>3 DEF TypeOK, PipeState
<1>10. Stages'
  BY <1>5 DEF IInv, Stages, Lifecycle, Op
<1>11. LSQ'
  BY DEF IInv, LSQ, Op
<1>12. Squashing'
  BY <1>1 DEF IInv, Squashing, Culprit, Detected, WrongPath
<1>13. Flushing'
  BY <1>1 DEF IInv, Flushing, FlushedIn
<1>14. Disambiguated'
  BY DEF IInv, Disambiguated, Addr
<1> QED BY <1>6, <1>7, <1>8, <1>9, <1>10, <1>11, <1>12, <1>13, <1>14 DEF IInv

-----------------------------------------------------------------------------
(* The scheduler. *)

LEMMA ScheduleFlush ==
  ASSUME IInv, doSCHEDULER, pipe = "FLUSH"
  PROVE  IInv'
<1> USE DEF frontVars, squashVars, history
<1>u. UNCHANGED <<program, supplied, codeCache, pipe, squashSN, squashType, badInsID, ins,
                  retired, deleted, iQUE, fetchPort, decodePort, EU, ROB, LQ, SQ>>
  BY DEF doSCHEDULER
<1>t. /\ Ids' = Ids /\ RightPathIds' = RightPathIds /\ LoadIds' = LoadIds
      /\ StoreIds' = StoreIds
  BY <1>u, ProgramStays
<1>3. TypeOK /\ Ids \in SUBSET Nat
  BY Numbers DEF IInv
<1>e. /\ Fetched' = Fetched /\ InROB' = InROB /\ Units' = Units /\ Traced' = Traced
      /\ Window' = Window
  BY <1>u DEF Fetched, InROB, Units, Traced, Window
<1> DEFINE older == {i \in Ids : i < squashSN}
<1>1. /\ turn = "SCHEDULE" /\ turn' = "DECODE"
      /\ issuePort' = Filter(issuePort, older) /\ resStn' = Filter(resStn, older)
  BY DEF doSCHEDULER, SearchAndFlush
<1>2. /\ issuePort \in Seq(Ids) /\ Distinct(issuePort)
      /\ resStn \in Seq(Ids) /\ Increasing(resStn)
      /\ Len(issuePort) <= PortLen /\ Len(resStn) <= ResStnSize
      /\ Len(issuePort) \in Nat /\ Len(resStn) \in Nat
      /\ PortLen \in Nat /\ ResStnSize \in Nat
  BY <1>3, QueueTypes, Sizes, SMTT(30) DEF IInv, InOrder
<1>4. /\ issuePort' \in Seq(Ids) /\ Distinct(issuePort') /\ Len(issuePort') <= PortLen
      /\ Elements(issuePort') = Elements(issuePort) \cap older
  <2> HIDE DEF older
  <2>1. /\ issuePort' \in Seq(Ids) /\ Len(issuePort') <= Len(issuePort)
        /\ Elements(issuePort') = Elements(issuePort) \cap older
    BY <1>1, <1>2, FilterElements
  <2>2. Distinct(issuePort')
    BY <1>1, <1>2, FilterDistinct
  <2>3. Len(issuePort') \in Nat
    BY <2>1
  <2> QED BY <1>2, <2>1, <2>2, <2>3
<1>5. /\ resStn' \in Seq(Ids) /\ Increasing(resStn') /\ Len(resStn') <= ResStnSize
      /\ Elements(resStn') = Elements(resStn) \cap older
  <2> HIDE DEF older
  <2>1. /\ resStn' \in Seq(Ids) /\ Len(resStn') <= Len(resStn)
        /\ Elements(resStn') = Elements(resStn) \cap older
    BY <1>1, <1>2, FilterElements
  <2>2. Increasing(resStn')
    BY <1>1, <1>2, <1>3, FilterIncreasing
  <2>3. Len(resStn') \in Nat
    BY <2>1
  <2> QED BY <1>2, <2>1, <2>2, <2>3
<1>6. /\ Elements(issuePort') \subseteq Elements(issuePort)
      /\ Elements(resStn') \subseteq Elements(resStn)
      /\ \A i \in Elements(resStn') \cup Elements(issuePort') : i < squashSN
  BY <1>4, <1>5
<1> USE <1>u, <1>t, <1>e
<1>7. TypeOK'
  <2>1. \A q \in {codeCache', iQUE', fetchPort', decodePort', resStn', issuePort',
                  ROB', LQ', SQ', retired'} : q \in Seq(Ids')
    BY <1>3, <1>4, <1>5, QueueTypes
  <2>2. \A q \in {fetchPort', decodePort', issuePort'} : Len(q) <= PortLen
    BY <1>3, <1>4, Sizes
  <2> QED BY <1>1, <1>3, <1>5, <2>1, <2>2 DEF TypeOK
<1>8. InOrder'
  BY <1>4, <1>5 DEF IInv, InOrder
<1>9. TraceOrder'
  BY DEF IInv, TraceOrder
<1>10. WindowOrder'
  BY <1>1 DEF IInv, WindowOrder, FlushedIn
<1>11. Stages'
  BY <1>6 DEF IInv, Stages, Lifecycle, Op
<1>12. LSQ'
  BY <1>6 DEF IInv, LSQ, Op
<1>13. Squashing'
  BY <1>1 DEF IInv, Squashing, Culprit, Detected, WrongPath
<1>14. Flushing'
  BY <1>1, <1>6 DEF IInv, Flushing, FlushedIn
<1>15. Disambiguated'
  BY DEF IInv, Disambiguated, Addr
<1> QED BY <1>7, <1>8, <1>9, <1>10, <1>11, <1>12, <1>13, <1>14, <1>15 DEF IInv

LEMMA ScheduleStep ==
  ASSUME IInv, doSCHEDULER, pipe \notin {"WAIT_FLUSH", "FLUSH"}
  PROVE  IInv'
<1> USE DEF frontVars, squashVars, history
<1>u. UNCHANGED <<program, supplied, codeCache, pipe, squashSN, squashType, badInsID,
                  retired, deleted, iQUE, fetchPort, EU>>
  BY DEF doSCHEDULER
<1>t. /\ Ids' = Ids /\ RightPathIds' = RightPathIds /\ LoadIds' = LoadIds
      /\ StoreIds' = StoreIds
  BY <1>u, ProgramStays
<1>3. TypeOK /\ Ids \in SUBSET Nat
  BY Numbers DEF IInv
<1>e. /\ Fetched' = Fetched /\ Units' = Units /\ Traced' = Traced
  BY <1>u DEF Fetched, Units, Traced
<1>1. turn = "SCHEDULE" /\ turn' = "DECODE"
  BY DEF doSCHEDULER
<1>2. PICK k \in 0 .. Width, m \in 0 .. Width : schedulerImpl(k, m)
  BY DEF doSCHEDULER
<1> DEFINE new == Take(decodePort, k)
           N == Elements(new)
           stn == resStn \o new
           Ready == {i \in Elements(stn) : isReady(i, ROB \o new)}
           ready == Filter(stn, Ready)
           issued == Take(ready, m)
           I == Elements(issued)
           dispatched == Replace(ins, [i \in N |->
                            [ins[i] EXCEPT !.stage = "DISPATCH",
                                           !.lsq = IF Op(i) = "ALU" THEN "NO_STATE"
                                                   ELSE "ADDR_WAIT"]])
<1>4. /\ k <= Len(decodePort) /\ m <= Len(ready) /\ Len(issuePort) + m <= PortLen
      /\ Len(ROB) + k <= RobSize /\ Len(resStn) + k <= ResStnSize
      /\ Len(LQ) + Cardinality(N \cap LoadIds) <= LQSize
      /\ Len(SQ) + Cardinality(N \cap StoreIds) <= SQSize
      /\ decodePort' = Drop(decodePort, k) /\ ROB' = ROB \o new
      /\ LQ' = LQ \o Filter(new, LoadIds) /\ SQ' = SQ \o Filter(new, StoreIds)
      /\ resStn' = Filter(stn, Ids \ I) /\ issuePort' = issuePort \o issued
      /\ ins' = AtStage(I, "ISSUE", dispatched)
  BY <1>2, Zenon DEF schedulerImpl, canDispatch, Without
<1> HIDE DEF Ready, dispatched
<1>5. /\ decodePort \in Seq(Ids) /\ Increasing(decodePort) /\ ROB \in Seq(Ids)
      /\ Increasing(ROB) /\ resStn \in Seq(Ids) /\ Increasing(resStn)
      /\ issuePort \in Seq(Ids) /\ Distinct(issuePort)
      /\ LQ \in Seq(Ids) /\ Increasing(LQ) /\ SQ \in Seq(Ids) /\ Increasing(SQ)
      /\ k \in 0 .. Len(decodePort)
  <2>1. Width \in Nat
    BY <1>3, Sizes
  <2> QED BY <1>3, <1>4, <2>1, QueueTypes DEF IInv, InOrder
<1>6. /\ new \in Seq(Ids) /\ Len(new) = k /\ Increasing(new)
      /\ Drop(decodePort, k) \in Seq(Ids) /\ Len(Drop(decodePort, k)) = Len(decodePort) - k
      /\ Increasing(Drop(decodePort, k))
      /\ Elements(Drop(decodePort, k)) = Elements(decodePort) \ N
      /\ DownClosed(N, Elements(decodePort)) /\ Before(N, Elements(Drop(decodePort, k)))
      /\ N \subseteq Elements(decodePort)
  <2>1. new \in Seq(Ids) /\ Len(new) = k /\ Drop(decodePort, k) \in Seq(Ids)
        /\ Len(Drop(decodePort, k)) = Len(decodePort) - k
    BY <1>5, TakeDrop
  <2>2. Elements(decodePort) = N \cup Elements(Drop(decodePort, k))
    BY <1>5, TakeDropElements
  <2> QED BY <1>3, <1>5, <2>1, <2>2, IncreasingTakeDrop
<1> HIDE DEF new
<1>7. /\ InROB \subseteq Ids /\ Elements(resStn) \subseteq InROB /\ N \subseteq Ids
      /\ Elements(LQ) \subseteq InROB /\ Elements(SQ) \subseteq InROB \cup Elements(retired)
      /\ N \subseteq Fetched /\ Fetched \subseteq Ids /\ Elements(retired) \subseteq Ids
      /\ Elements(issuePort) \subseteq InROB /\ InROB \subseteq Fetched
      /\ Elements(decodePort) \subseteq Ids /\ Elements(resStn) \subseteq Ids
  BY <1>3, <1>6, ElementTypes DEF IInv, Stages, LSQ, WindowOrder, Window
<1>8. /\ Before(InROB, N) /\ Before(Elements(retired), Fetched)
      /\ InROB \cap N = {} /\ Elements(retired) \cap Fetched = {}
  <2>1. Before(InROB, N) /\ Before(Elements(retired), Fetched)
    BY <1>6 DEF IInv, WindowOrder, TraceOrder, Before, Traced
  <2>2. InROB \in SUBSET Nat /\ N \in SUBSET Nat /\ Elements(retired) \in SUBSET Nat
        /\ Fetched \in SUBSET Nat
    BY <1>3, <1>7
  <2> HIDE DEF N
  <2> QED BY <2>1, <2>2, BeforeDisjoint
<1>9. /\ Before(Elements(resStn), N) /\ Before(Elements(LQ), N) /\ Before(Elements(SQ), N)
  BY <1>7, <1>8 DEF Before
<1>10. /\ ROB' \in Seq(Ids) /\ Increasing(ROB') /\ InROB' = InROB \cup N /\ Len(ROB') <= RobSize
  <2>1. /\ ROB \o new \in Seq(Ids) /\ Len(ROB \o new) = Len(ROB) + Len(new)
        /\ Elements(ROB \o new) = Elements(ROB) \cup Elements(new)
    <3>1. ROB \in Seq(Ids) /\ new \in Seq(Ids)
      BY <1>5, <1>6
    <3> QED BY <3>1, Concat
  <2>2. Increasing(ROB \o new)
    BY <1>5, <1>6, <1>8, Concat DEF InROB
  <2> QED BY <1>4, <1>6, <2>1, <2>2 DEF InROB
<1>11. /\ decodePort' \in Seq(Ids) /\ Increasing(decodePort') /\ Len(decodePort') <= PortLen
       /\ Elements(decodePort') = Elements(decodePort) \ N
  <2>1. Len(decodePort) <= PortLen /\ PortLen \in Nat /\ Len(decodePort) \in Nat
    BY <1>3, <1>5, Sizes
  <2> QED BY <1>4, <1>5, <1>6, <2>1
<1>12. /\ stn \in Seq(Ids) /\ Increasing(stn) /\ Len(stn) = Len(resStn) + k
       /\ Elements(stn) = Elements(resStn) \cup N
  <2>1. /\ resStn \o new \in Seq(Ids) /\ Len(resStn \o new) = Len(resStn) + Len(new)
        /\ Elements(resStn \o new) = Elements(resStn) \cup Elements(new)
    <3>1. resStn \in Seq(Ids) /\ new \in Seq(Ids)
      BY <1>5, <1>6
    <3> QED BY <3>1, Concat
  <2>2. Increasing(resStn \o new)
    BY <1>5, <1>6, <1>9, Concat
  <2> QED BY <2>1, <2>2, <1>6
<1> HIDE DEF stn
<1>13. /\ ready \in Seq(Ids) /\ Increasing(ready) /\ Elements(ready) \subseteq Elements(stn)
  <2>1. ready \in Seq(Ids) /\ Elements(ready) = Elements(stn) \cap Ready
    BY <1>12, FilterElements
  <2>2. Increasing(ready)
    BY <1>3, <1>12, FilterIncreasing
  <2> QED BY <2>1, <2>2
<1> HIDE DEF ready
<1>14. /\ issued \in Seq(Ids) /\ Distinct(issued) /\ Len(issued) = m
       /\ I \subseteq Elements(stn) /\ I \subseteq Ids
  <2>1. m \in 0 .. Len(ready)
    BY <1>3, <1>4, Sizes
  <2>2. issued \in Seq(Ids) /\ Len(issued) = m
    BY <1>13, <2>1, TakeDrop
  <2>3. I \subseteq Elements(ready)
    BY <1>13, <2>1, TakeDropElements
  <2>4. Distinct(issued)
    BY <1>3, <1>13, <2>1, IncreasingDistinct, DistinctTakeDrop
  <2> QED BY <2>2, <2>3, <2>4, <1>13, ElementsIn
<1> HIDE DEF issued
<1>15. /\ resStn' \in Seq(Ids) /\ Increasing(resStn') /\ Len(resStn') <= ResStnSize
       /\ Elements(resStn') = (Elements(resStn) \cup N) \ I
  <2> DEFINE R == Ids \ I
             f == Filter(stn, R)
  <2>1. f \in Seq(Ids) /\ Elements(f) = Elements(stn) \cap R /\ Len(f) <= Len(stn)
    <3> HIDE DEF R
    <3> QED BY <1>12, FilterElements
  <2>2. Increasing(f)
    <3> HIDE DEF R
    <3> QED BY <1>3, <1>12, FilterIncreasing
  <2>3. Len(f) \in Nat /\ Len(stn) \in Nat /\ ResStnSize \in Nat
    <3> HIDE DEF f
    <3> QED BY <1>3, <1>12, <2>1, Sizes
  <2>4. Elements(f) = (Elements(resStn) \cup N) \ I
    <3> HIDE DEF f
    <3> QED BY <2>1, <1>7, <1>12
  <2>5. resStn' = f /\ Len(stn) <= ResStnSize
    BY <1>4, <1>12
  <2> HIDE DEF f
  <2> QED BY <2>1, <2>2, <2>3, <2>4, <2>5
<1> HIDE DEF I
<1>16. /\ issuePort' \in Seq(Ids) /\ Distinct(issuePort') /\ Len(issuePort') <= PortLen
       /\ Elements(issuePort') = Elements(issuePort) \cup I
  <2>1. Elements(issuePort) \cap Elements(issued) = {}
    <3>1. Elements(issuePort) \cap Elements(resStn) = {}
      BY DEF IInv, Stages
    <3>2. Elements(issuePort) \cap N = {}
      BY <1>7, <1>8
    <3> QED BY <3>1, <3>2, <1>12, <1>14 DEF I
  <2>2. /\ issuePort \o issued \in Seq(Ids)
        /\ Len(issuePort \o issued) = Len(issuePort) + Len(issued)
        /\ Elements(issuePort \o issued) = Elements(issuePort) \cup Elements(issued)
    <3>1. issuePort \in Seq(Ids) /\ issued \in Seq(Ids)
      BY <1>5, <1>14
    <3> QED BY <3>1, Concat
  <2>3. Distinct(issuePort \o issued)
    BY <1>5, <1>14, <2>1, Concat
  <2> QED BY <1>4, <1>14, <2>2, <2>3 DEF I
<1>17. ASSUME NEW q \in Seq(Ids), Increasing(q), Before(Elements(q), N), NEW S
       PROVE  LET f == Filter(new, S) IN
              /\ q \o f \in Seq(Ids) /\ Increasing(q \o f)
              /\ Elements(q \o f) = Elements(q) \cup (N \cap S)
              /\ Len(q \o f) = Len(q) + Cardinality(N \cap S)
  <2> DEFINE f == Filter(new, S)
  <2>1. f \in Seq(Ids) /\ Elements(f) = N \cap S
    BY <1>6, FilterElements
  <2>2. Increasing(f) /\ Len(f) = Cardinality(N \cap S)
    BY <1>3, <1>6, FilterIncreasing, FilterCount
  <2> HIDE DEF f
  <2>3. Before(Elements(q), Elements(f))
    BY <1>17, <2>1 DEF Before
  <2>4. q \o f \in Seq(Ids) /\ Elements(q \o f) = Elements(q) \cup Elements(f)
        /\ Len(q \o f) = Len(q) + Len(f)
    BY <2>1, Concat
  <2>5. Increasing(q \o f)
    BY <1>17, <2>1, <2>2, <2>3, Concat
  <2> QED BY <2>1, <2>2, <2>4, <2>5 DEF f
<1>18. /\ LQ' \in Seq(Ids) /\ Increasing(LQ') /\ Len(LQ') <= LQSize
       /\ Elements(LQ') = Elements(LQ) \cup (N \cap LoadIds)
       /\ SQ' \in Seq(Ids) /\ Increasing(SQ') /\ Len(SQ') <= SQSize
       /\ Elements(SQ') = Elements(SQ) \cup (N \cap StoreIds)
  <2> HIDE DEF N
  <2> DEFINE l == Filter(new, LoadIds)
             s == Filter(new, StoreIds)
  <2>1. /\ LQ \o l \in Seq(Ids) /\ Increasing(LQ \o l)
        /\ Elements(LQ \o l) = Elements(LQ) \cup (N \cap LoadIds)
        /\ Len(LQ \o l) = Len(LQ) + Cardinality(N \cap LoadIds)
    BY <1>5, <1>9, <1>17
  <2>2. /\ SQ \o s \in Seq(Ids) /\ Increasing(SQ \o s)
        /\ Elements(SQ \o s) = Elements(SQ) \cup (N \cap StoreIds)
        /\ Len(SQ \o s) = Len(SQ) + Cardinality(N \cap StoreIds)
    BY <1>5, <1>9, <1>17
  <2> HIDE DEF l, s
  <2>3. LQ' = LQ \o l /\ SQ' = SQ \o s
    BY <1>4 DEF l, s
  <2>4. Len(LQ') <= LQSize /\ Len(SQ') <= SQSize
    BY <1>4, <2>1, <2>2, <2>3
  <2> QED BY <2>1, <2>2, <2>3, <2>4
<1>19. /\ dispatched \in [Ids -> InsState]
       /\ \A i \in Ids \ N : dispatched[i] = ins[i]
       /\ \A i \in N : /\ dispatched[i].stage = "DISPATCH"
                       /\ dispatched[i].lsq = IF Op(i) = "ALU" THEN "NO_STATE" ELSE "ADDR_WAIT"
                       /\ dispatched[i].memViolation = ins[i].memViolation
                       /\ dispatched[i].cacheAxes = ins[i].cacheAxes
  <2> HIDE DEF N
  <2>1. ins \in [Ids -> InsState]
    BY <1>3 DEF TypeOK, InsState
  <2> DEFINE d(i) == [ins[i] EXCEPT !.stage = "DISPATCH",
                                    !.lsq = IF Op(i) = "ALU" THEN "NO_STATE" ELSE "ADDR_WAIT"]
  <2>2. dispatched = [i \in Ids |-> IF i \in N THEN d(i) ELSE ins[i]]
    BY <2>1, <1>7 DEF dispatched, Replace
  <2>3. ASSUME NEW i \in Ids
        PROVE  /\ d(i) \in InsState /\ d(i).stage = "DISPATCH"
               /\ d(i).lsq = IF Op(i) = "ALU" THEN "NO_STATE" ELSE "ADDR_WAIT"
               /\ d(i).memViolation = ins[i].memViolation
               /\ d(i).cacheAxes = ins[i].cacheAxes
    <3>1. ins[i] \in InsState
      BY <2>1
    <3> QED BY <3>1 DEF InsState, Stage, LsqState
  <2> HIDE DEF d
  <2> QED BY <2>1, <2>2, <2>3, <1>7
<1>20. /\ ins' \in [Ids -> InsState]
       /\ \A i \in I : ins'[i].stage = "ISSUE"
       /\ \A i \in N \ I : ins'[i].stage = "DISPATCH"
       /\ \A i \in N : ins'[i].lsq = IF Op(i) = "ALU" THEN "NO_STATE" ELSE "ADDR_WAIT"
       /\ \A i \in Ids \ N : ins'[i].lsq = ins[i].lsq
       /\ \A i \in Ids : /\ ins'[i].memViolation = ins[i].memViolation
                         /\ ins'[i].cacheAxes = ins[i].cacheAxes
       /\ \A i \in Ids \ (N \cup I) : ins'[i] = ins[i]
  <2> HIDE DEF N
  <2> DEFINE t == AtStage(I, "ISSUE", dispatched)
  <2>1. I \in SUBSET Ids /\ dispatched \in [Ids -> InsState] /\ "ISSUE" \in Stage
    BY <1>14, <1>19 DEF Stage, I
  <2>2. /\ t \in [Ids -> InsState]
        /\ \A i \in Ids \ I : t[i] = dispatched[i]
        /\ \A i \in I : t[i].stage = "ISSUE"
        /\ \A i \in Ids : /\ t[i].lsq = dispatched[i].lsq
                        /\ t[i].memViolation = dispatched[i].memViolation
                        /\ t[i].cacheAxes = dispatched[i].cacheAxes
    BY <2>1, AtStageTable
  <2>3. ins' = t
    BY <1>4
  <2> HIDE DEF t
  <2> QED BY <2>1, <2>2, <2>3, <1>7, <1>19
<1>21. /\ I \subseteq Elements(resStn) \cup N /\ I \subseteq InROB'
       /\ I \subseteq Ids
  BY <1>7, <1>10, <1>12, <1>14 DEF I
<1> HIDE DEF N
<1>22. pipe # "NORMAL" => N = {} /\ decodePort' = << >>
  <2> SUFFICES ASSUME pipe # "NORMAL" PROVE N = {} /\ decodePort' = << >>
    OBVIOUS
  <2>1. decodePort = << >>
    BY <1>3 DEF IInv, WindowOrder, FlushedIn, TypeOK, PipeState
  <2>2. Elements(decodePort) = {}
    BY <2>1, EmptyQueue
  <2> QED BY <2>2, <1>6, <1>11, ElementsIn
<1>23. Window' = Window
  BY <1>6, <1>10, <1>11, <1>u DEF Window, InROB
<1>24. /\ \A i \in N : ins[i].stage = "DECODE" /\ i \in Fetched \ InROB
                       /\ ~ins[i].memViolation /\ ~ins[i].cacheAxes
       /\ \A i \in Elements(resStn) : ins[i].stage = "DISPATCH"
  BY <1>6, <1>7, <1>8 DEF IInv, Stages
<1> USE <1>u, <1>t, <1>e
<1>25. TypeOK'
  <2>1. ins' \in [Ids' -> [stage : Stage, lsq : LsqState,
                      memViolation : BOOLEAN, cacheAxes : BOOLEAN]]
    BY <1>20 DEF InsState
  <2>2. \A q \in {codeCache', iQUE', fetchPort', decodePort', resStn', issuePort',
                  ROB', LQ', SQ', retired'} : q \in Seq(Ids')
    BY <1>3, <1>10, <1>11, <1>15, <1>16, <1>18, QueueTypes
  <2>3. \A q \in {fetchPort', decodePort', issuePort'} : Len(q) <= PortLen
    BY <1>11, <1>16, <1>3, Sizes
  <2> QED BY <1>1, <1>3, <1>10, <1>15, <1>18, <2>1, <2>2, <2>3 DEF TypeOK
<1>26. InOrder'
  BY <1>10, <1>11, <1>15, <1>16, <1>18 DEF IInv, InOrder
<1>27. TraceOrder'
  BY DEF IInv, TraceOrder
<1>28. WindowOrder'
  <2>1. Before(InROB', Elements(decodePort') \cup Elements(fetchPort'))
    BY <1>4, <1>6, <1>10, <1>11 DEF IInv, WindowOrder, Before
  <2>2. Before(Elements(decodePort'), Elements(fetchPort'))
    BY <1>11 DEF IInv, WindowOrder, Before
  <2>3. DownClosed(InROB', Fetched)
    <3> SUFFICES ASSUME NEW i \in N, NEW j \in Fetched, j < i PROVE j \in InROB \cup N
      BY <1>10 DEF IInv, WindowOrder, DownClosed
    <3>1. j \in Window
      <4>1. DownClosed(Window, Fetched) /\ i \in Window
        BY <1>1, <1>6 DEF IInv, WindowOrder, Window
      <4> QED BY <4>1 DEF DownClosed
    <3>2. CASE j \in InROB
      BY <3>2
    <3>3. CASE j \in Elements(decodePort)
      BY <3>3, <1>6 DEF DownClosed
    <3>4. CASE j \in Elements(fetchPort)
      <4>1. i < j /\ i \in Nat /\ j \in Nat
        BY <3>4, <1>3, <1>6, <1>7 DEF IInv, WindowOrder, Before
      <4> QED BY <4>1
    <3> QED BY <3>1, <3>2, <3>3, <3>4 DEF Window
  <2> QED BY <2>1, <2>2, <2>3, <1>1, <1>22, <1>23 DEF IInv, WindowOrder, FlushedIn
<1>29. Stages'
  <2>1. /\ \A i \in Elements(codeCache) : ins'[i] = NewIns
        /\ \A i \in Ids : i > supplied => ins'[i] = NewIns
    <3>1. \A i \in N \cup I : ins[i] # NewIns
      BY <1>21, <1>24 DEF NewIns
    <3>2. \A i \in Ids : ins[i] = NewIns => ins'[i] = NewIns
      BY <3>1, <1>20
    <3>3. Elements(codeCache) \subseteq Ids
      BY <1>3, ElementTypes
    <3> QED BY <3>2, <3>3 DEF IInv, Stages
  <2>2. \A i \in Ids \ InROB' : ins'[i] = ins[i]
    BY <1>10, <1>20, <1>21
  <2>3. \A i \in Elements(fetchPort) : ins'[i].stage = "FETCH"
    <3>1. \A i \in Elements(fetchPort) : ins[i].stage = "FETCH" /\ i \in Ids /\ i \notin N
      BY <1>3, <1>24, ElementTypes DEF IInv, Stages
    <3>2. \A i \in Elements(fetchPort) : i \notin I
      BY <3>1, <1>21, <1>24
    <3> QED BY <3>1, <3>2, <1>20
  <2>4. \A i \in Elements(decodePort') : ins'[i].stage = "DECODE"
    <3>1. \A i \in Elements(decodePort') : ins[i].stage = "DECODE" /\ i \in Ids /\ i \notin N
      BY <1>7, <1>11 DEF IInv, Stages
    <3>2. \A i \in Elements(decodePort') : i \notin I
      BY <3>1, <1>21, <1>24
    <3> QED BY <3>1, <3>2, <1>20
  <2>5. \A i \in Fetched \ InROB' :
          /\ ins'[i].stage \in {"FETCH", "DECODE"}
          /\ ~ins'[i].memViolation /\ ~ins'[i].cacheAxes
    BY <2>2, <1>7, <1>10 DEF IInv, Stages
  <2>6. \A i \in Elements(resStn') : i \in InROB' /\ ins'[i].stage = "DISPATCH"
    <3> TAKE i \in Elements(resStn')
    <3>1. i \in Elements(resStn) \cup N /\ i \notin I /\ i \in Ids
      BY <1>7, <1>15
    <3> QED BY <3>1, <1>7, <1>10, <1>20, <1>24
  <2>7. \A i \in Elements(issuePort') : i \in InROB' /\ ins'[i].stage = "ISSUE"
    <3> TAKE i \in Elements(issuePort')
    <3>1. CASE i \in I
      BY <3>1, <1>20, <1>21
    <3>2. CASE i \notin I
      <4>1. i \in InROB /\ ins[i].stage = "ISSUE" /\ i \notin N /\ i \in Ids
        BY <3>2, <1>16, <1>7, <1>8 DEF IInv, Stages
      <4> QED BY <4>1, <3>2, <1>10, <1>20
    <3> QED BY <3>1, <3>2
  <2>8. \A i \in InROB \ I : ins'[i] = ins[i] /\ i \in Ids
    BY <1>7, <1>8, <1>20
  <2>9. \A i \in Units : i \in InROB' /\ ins'[i].stage = "EXECUTE"
    <3>1. \A i \in Units : i \in InROB /\ ins[i].stage = "EXECUTE"
      BY DEF IInv, Stages
    <3>2. \A i \in Units : i \notin I
      BY <3>1, <1>8, <1>21, <1>24
    <3> QED BY <3>1, <3>2, <2>8, <1>10
  <2>10. ASSUME NEW i \in InROB'
         PROVE /\ Lifecycle(i)'
               /\ ins'[i].stage = "EXECUTE" => i \in Units
               /\ ins'[i].memViolation => Op(i)' = "LOAD" /\ ins'[i].lsq = "COMPLETE"
    <3>0. Op(i)' = Op(i) /\ i \in Ids
      BY <1>7, <1>10 DEF Op
    <3>1. CASE i \in InROB \ I
      <4>1. ins'[i] = ins[i]
        BY <2>8, <3>1
      <4>2. Lifecycle(i) /\ (ins[i].stage = "EXECUTE" => i \in Units)
            /\ (ins[i].memViolation => Op(i) = "LOAD" /\ ins[i].lsq = "COMPLETE")
        BY <3>1 DEF IInv, Stages
      <4> QED BY <3>0, <4>1, <4>2 DEF Lifecycle
    <3>2. CASE i \in InROB /\ i \in I
      <4>1. ins[i].stage = "DISPATCH" /\ i \notin N
        BY <3>2, <1>21, <1>24, <1>8
      <4>2. ins'[i].stage = "ISSUE" /\ ins'[i].lsq = ins[i].lsq
            /\ ins'[i].memViolation = ins[i].memViolation
        BY <3>0, <3>2, <4>1, <1>20
      <4>3. Lifecycle(i) /\ (ins[i].memViolation => Op(i) = "LOAD" /\ ins[i].lsq = "COMPLETE")
        BY <3>2 DEF IInv, Stages
      <4> QED BY <3>0, <4>1, <4>2, <4>3 DEF Lifecycle
    <3>3. CASE i \in N
      <4>1. ins'[i].stage \in {"DISPATCH", "ISSUE"} /\ ~ins'[i].memViolation
            /\ (Op(i) # "ALU" => ins'[i].lsq = "ADDR_WAIT")
        BY <3>0, <3>3, <1>20, <1>24
      <4> QED BY <3>0, <4>1 DEF Lifecycle
    <3> QED BY <3>1, <3>2, <3>3, <1>10
  <2> QED BY <2>1, <2>3, <2>4, <2>5, <2>6, <2>7, <2>9, <2>10 DEF Stages
<1>30. LSQ'
  <2>1. /\ Elements(LQ') \subseteq InROB' \cap LoadIds
        /\ Elements(SQ') \subseteq StoreIds
    BY <1>10, <1>18 DEF IInv, LSQ
  <2>2. ASSUME NEW i \in InROB', pipe = "NORMAL" \/ i < squashSN
        PROVE  /\ Op(i) = "LOAD" => i \in Elements(LQ')
               /\ Op(i) = "STORE" => i \in Elements(SQ')
    <3>1. CASE i \in N
      BY <3>1, <1>7, <1>18 DEF LoadIds, StoreIds
    <3>2. CASE i \in InROB
      BY <2>2, <3>2, <1>18 DEF IInv, LSQ
    <3> QED BY <3>1, <3>2, <1>10
  <2>3. /\ DownClosed(Elements(LQ'), InROB' \cap LoadIds)
        /\ DownClosed(Elements(SQ'), InROB' \cap StoreIds)
    <3>1. CASE pipe = "NORMAL"
      BY <2>2, <3>1 DEF DownClosed, LoadIds, StoreIds
    <3>2. CASE pipe # "NORMAL"
      <4>1. InROB' = InROB /\ Elements(LQ') = Elements(LQ) /\ Elements(SQ') = Elements(SQ)
        BY <3>2, <1>10, <1>18, <1>22
      <4> QED BY <4>1 DEF IInv, LSQ
    <3> QED BY <3>1, <3>2
  <2>4. \A i \in Elements(SQ') \ InROB' :
          /\ i \in Elements(retired)
          /\ ins'[i].stage = "COMMIT" /\ ins'[i].lsq \in {"COMMIT", "CACHE_DISPATCH"}
    <3> TAKE i \in Elements(SQ') \ InROB'
    <3>1. i \in Elements(SQ) \ InROB /\ i \notin N /\ i \notin I /\ i \in Ids
      BY <1>10, <1>18, <1>21, <1>7
    <3> QED BY <3>1, <1>20 DEF IInv, LSQ
  <2>5. \A i \in Elements(resStn') \cup Elements(issuePort') \cup Units :
         /\ Op(i) = "LOAD" => i \in Elements(LQ')
         /\ Op(i) = "STORE" => i \in Elements(SQ')
    <3> TAKE i \in Elements(resStn') \cup Elements(issuePort') \cup Units
    <3>1. CASE i \in N
      BY <3>1, <1>7, <1>18 DEF LoadIds, StoreIds
    <3>2. CASE i \notin N
      <4>1. i \in Elements(resStn) \cup Elements(issuePort) \cup Units
        BY <3>2, <1>15, <1>16, <1>21
      <4> QED BY <4>1, <1>18 DEF IInv, LSQ
    <3> QED BY <3>1, <3>2
  <2> QED BY <2>1, <2>2, <2>3, <2>4, <2>5 DEF LSQ, Op
<1>31. Squashing'
  <2>1. ASSUME NEW i \in InROB', Detected(i)' PROVE i \in InROB /\ Detected(i)
    <3>1. i \in Ids /\ WrongPath(i)' = WrongPath(i)
      BY <1>7, <1>10 DEF WrongPath
    <3>2. CASE i \in N
      <4>1. ins'[i].stage \in {"DISPATCH", "ISSUE"} /\ ~ins'[i].memViolation
        BY <3>1, <3>2, <1>20, <1>24
      <4> QED BY <4>1, <2>1, <3>1 DEF Detected
    <3>3. CASE i \notin N
      <4>1. i \in InROB
        BY <3>3, <1>10
      <4>2. ins'[i].memViolation = ins[i].memViolation
            /\ (ins'[i].stage = ins[i].stage \/ ins'[i].stage = "ISSUE")
        BY <3>1, <3>3, <1>20
      <4> QED BY <4>1, <4>2, <2>1, <3>1 DEF Detected
    <3> QED BY <3>2, <3>3
  <2>2. Culprit => Culprit'
    <3> SUFFICES ASSUME Culprit PROVE Culprit'
      OBVIOUS
    <3>1. squashSN \in InROB /\ squashSN \in Ids /\ squashSN \notin N
      BY <1>7, <1>8 DEF Culprit
    <3>2. ins'[squashSN].memViolation = ins[squashSN].memViolation
      BY <3>1, <1>20
    <3>3. ins[squashSN].stage \in {"MEM_ACCESS", "COMPLETE"} => ins'[squashSN] = ins[squashSN]
      BY <3>1, <1>20, <1>21, <1>24
    <3>4. Detected(squashSN)'
      BY <3>2, <3>3 DEF Culprit, Detected, WrongPath
    <3> QED BY <3>1, <3>4, <1>10 DEF Culprit, WrongPath
  <2>3. pipe = "SQUASH_ROB" => ROB' = << >>
    <3> SUFFICES ASSUME pipe = "SQUASH_ROB" PROVE ROB' = << >>
      OBVIOUS
    <3>1. ROB = << >> /\ N = {}
      BY <1>1, <1>22 DEF IInv, Squashing
    <3>2. InROB = {}
      BY <3>1, EmptyQueue DEF InROB
    <3>3. Elements(ROB') = {}
      BY <3>1, <3>2, <1>10 DEF InROB
    <3> QED BY <3>3, <1>10, ElementsIn
  <2> QED BY <2>1, <2>2, <2>3, <1>1 DEF IInv, Squashing
<1>32. Flushing'
  <2>1. pipe # "NORMAL" => /\ Elements(LQ') = Elements(LQ) /\ Elements(SQ') = Elements(SQ)
                           /\ Elements(resStn') \cup Elements(issuePort')
                                \subseteq Elements(resStn) \cup Elements(issuePort)
    BY <1>15, <1>16, <1>18, <1>21, <1>22
  <2> QED BY <2>1, <1>1 DEF IInv, Flushing, FlushedIn
<1>33. Disambiguated'
  <2> SUFFICES ASSUME MemModel[program] = "PERFECT" PROVE
          /\ squashType # "MEM_MISPRED"
          /\ \A i \in Ids : ~ins'[i].memViolation
          /\ \A l \in InROB', s \in Elements(SQ') :
               ins'[l].cacheAxes /\ s < l => Addr(s) # Addr(l)
    BY DEF Disambiguated, Addr
  <2>1. ASSUME NEW l \in InROB', NEW s \in Elements(SQ'), ins'[l].cacheAxes, s < l
        PROVE  l \in InROB /\ s \in Elements(SQ) /\ ins[l].cacheAxes
    <3>1. l \in Ids /\ ins[l].cacheAxes
      BY <2>1, <1>7, <1>10, <1>20
    <3>2. l \in InROB
      BY <3>1, <1>10, <1>24
    <3>3. s \notin N
      <4> SUFFICES ASSUME s \in N PROVE FALSE
        OBVIOUS
      <4>1. l < s /\ l \in Nat /\ s \in Nat
        BY <3>2, <1>3, <1>7, <1>8 DEF Before
      <4> QED BY <4>1, <2>1
    <3> QED BY <3>1, <3>2, <3>3, <1>18
  <2> QED BY <2>1, <1>20 DEF IInv, Disambiguated
<1> QED BY <1>25, <1>26, <1>27, <1>28, <1>29, <1>30, <1>31, <1>32, <1>33 DEF IInv


LEMMA SchedulerStep ==
  ASSUME IInv, doSCHEDULER
  PROVE  IInv'
<1>1. CASE pipe = "WAIT_FLUSH"
  <2>1. UNCHANGED work /\ turn = "SCHEDULE" /\ turn' = "DECODE"
    BY <1>1 DEF doSCHEDULER, work, frontVars, queues, squashVars, history
  <2> QED BY <1>1, <2>1, Stalled
<1>2. CASE pipe = "FLUSH"
  BY <1>2, ScheduleFlush
<1>3. CASE pipe \notin {"WAIT_FLUSH", "FLUSH"}
  BY <1>3, ScheduleStep
<1> QED BY <1>1, <1>2, <1>3

-----------------------------------------------------------------------------
(* Commit. *)

LEMMA CommitImpl ==
  ASSUME IInv, doCOMMIT, pipe \notin {"WAIT_FLUSH", "FLUSH"}
  PROVE  IInv'
<1> USE DEF frontVars, squashVars
<1>u. UNCHANGED <<program, supplied, codeCache, pipe, squashSN, squashType, badInsID,
                  deleted, fetchPort, decodePort, resStn, issuePort, EU, SQ>>
  BY DEF doCOMMIT
<1>t. /\ Ids' = Ids /\ RightPathIds' = RightPathIds /\ LoadIds' = LoadIds
      /\ StoreIds' = StoreIds
  BY <1>u, ProgramStays
<1>3. TypeOK /\ Ids \in SUBSET Nat
  BY Numbers DEF IInv
<1>e. Units' = Units
  BY <1>u DEF Units
<1>1. turn = "COMMIT" /\ turn' = "MEMORY"
  BY DEF doCOMMIT
<1>2. PICK k \in 0 .. Width : commitImpl(k)
  BY DEF doCOMMIT
<1> DEFINE new == Take(ROB, k)
           out == Elements(new)
           loads == out \cap LoadIds
           stores == out \cap StoreIds
           done == [i \in stores |-> [ins[i] EXCEPT !.stage = "COMMIT", !.lsq = "COMMIT"]]
<1>4. /\ k <= Len(ROB) /\ \A i \in out : isCommittable(i)
      /\ ROB' = Drop(ROB, k) /\ iQUE' = Drop(iQUE, k)
      /\ LQ' = Drop(LQ, Cardinality(loads))
      /\ ins' = Replace(ins, done)
      /\ retired' = retired \o new
  BY <1>2 DEF commitImpl
<1> HIDE DEF done
<1>5. /\ ROB \in Seq(Ids) /\ Increasing(ROB) /\ iQUE \in Seq(Ids) /\ Increasing(iQUE)
      /\ LQ \in Seq(Ids) /\ Increasing(LQ) /\ retired \in Seq(Ids) /\ Increasing(retired)
      /\ k \in 0 .. Len(ROB)
  <2>1. Width \in Nat
    BY <1>3, Sizes
  <2> QED BY <1>3, <1>4, <2>1, QueueTypes DEF IInv, InOrder
<1>6. /\ new \in Seq(Ids) /\ Increasing(new)
      /\ Drop(ROB, k) \in Seq(Ids) /\ Len(Drop(ROB, k)) = Len(ROB) - k
      /\ Increasing(Drop(ROB, k))
      /\ Elements(Drop(ROB, k)) = InROB \ out
      /\ DownClosed(out, InROB) /\ out \subseteq InROB
  <2>1. new \in Seq(Ids) /\ Drop(ROB, k) \in Seq(Ids)
        /\ Len(Drop(ROB, k)) = Len(ROB) - k
    BY <1>5, TakeDrop
  <2>2. out \subseteq Elements(ROB)
    BY <1>5, TakeDropElements
  <2>3. /\ Increasing(new) /\ Increasing(Drop(ROB, k))
        /\ Elements(Drop(ROB, k)) = Elements(ROB) \ out
        /\ DownClosed(out, Elements(ROB))
    BY <1>3, <1>5, IncreasingTakeDrop
  <2> QED BY <2>1, <2>2, <2>3 DEF InROB
<1>7. /\ Take(iQUE, k) = new /\ k \in 0 .. Len(iQUE)
  <2>1. InROB \subseteq Fetched /\ DownClosed(InROB, Fetched)
    BY DEF IInv, WindowOrder, Window
  <2>2. IsPrefixOf(ROB, iQUE)
    BY <1>3, <1>5, <2>1, LeastElementsPrefix DEF InROB, Fetched
  <2>3. Len(ROB) \in 0 .. Len(iQUE) /\ \A n \in 0 .. Len(ROB) : Take(ROB, n) = Take(iQUE, n)
    BY <1>5, <2>2, PrefixTake
  <2>4. Len(ROB) \in Nat /\ Len(iQUE) \in Nat
    BY <1>5
  <2> QED BY <1>5, <2>3, <2>4
<1>8. /\ iQUE' \in Seq(Ids) /\ Increasing(iQUE')
      /\ Fetched' = Fetched \ out /\ Before(out, Fetched')
  <2>1. Drop(iQUE, k) \in Seq(Ids)
    BY <1>5, <1>7, TakeDrop
  <2>2. /\ Increasing(Drop(iQUE, k))
        /\ Before(Elements(Take(iQUE, k)), Elements(Drop(iQUE, k)))
        /\ Elements(Drop(iQUE, k)) = Elements(iQUE) \ Elements(Take(iQUE, k))
    BY <1>3, <1>5, <1>7, IncreasingTakeDrop
  <2> QED BY <1>4, <1>7, <2>1, <2>2 DEF Fetched
<1>9. /\ ROB' \in Seq(Ids) /\ Increasing(ROB') /\ InROB' = InROB \ out
      /\ Len(ROB') <= RobSize
  <2>1. Len(ROB) <= RobSize /\ RobSize \in Nat /\ Len(ROB) \in Nat
    BY <1>3, <1>5, Sizes
  <2> QED BY <1>4, <1>5, <1>6, <2>1 DEF InROB
<1> HIDE DEF new
<1>10. /\ InROB \subseteq Fetched /\ Fetched \subseteq Ids /\ out \subseteq Ids
       /\ Elements(retired) \subseteq Ids /\ Elements(LQ) \subseteq InROB \cap LoadIds
       /\ Elements(codeCache) \subseteq Ids
  BY <1>3, <1>6, ElementTypes DEF IInv, WindowOrder, Window, LSQ
<1>11. \A i \in out : /\ ins[i].stage = "COMPLETE" /\ ~ins[i].memViolation
                      /\ ~WrongPath(i) /\ ~Detected(i)
  BY <1>4 DEF isCommittable, isMemOrBrViolation, Detected
<1>12. pipe \in {"NORMAL", "DRAIN", "SQUASH_ROB"}
  BY <1>3 DEF TypeOK, PipeState
<1>13. pipe = "SQUASH_ROB" => ROB = << >> /\ iQUE = << >> /\ InROB = {} /\ Fetched = {} /\ out = {}
  <2> SUFFICES ASSUME pipe = "SQUASH_ROB"
               PROVE ROB = << >> /\ iQUE = << >> /\ InROB = {} /\ Fetched = {} /\ out = {}
    OBVIOUS
  <2>1. ROB = << >> /\ iQUE = << >>
    BY <1>1 DEF IInv, Squashing
  <2>2. InROB = {} /\ Fetched = {}
    BY <2>1, EmptyQueue DEF InROB, Fetched
  <2> QED BY <2>1, <2>2, <1>6
<1>14. \A i \in out : pipe = "NORMAL" \/ i < squashSN
  <2> TAKE i \in out
  <2>1. CASE pipe = "DRAIN"
    <3>1. squashSN \in InROB /\ Detected(squashSN)
      BY <2>1 DEF IInv, Squashing, Culprit
    <3>2. squashSN \notin out
      BY <3>1, <1>11
    <3>3. ~(squashSN < i)
      BY <3>1, <3>2, <1>6 DEF DownClosed
    <3>4. squashSN \in Nat /\ i \in Nat
      BY <3>1, <1>3, <1>10
    <3> QED BY <3>2, <3>3, <3>4
  <2> QED BY <2>1, <1>12, <1>13
<1> HIDE DEF out
<1>15. /\ LQ' \in Seq(Ids) /\ Increasing(LQ') /\ Elements(LQ') = Elements(LQ) \ loads
       /\ Len(LQ') <= LQSize
  <2>1. loads \subseteq Elements(LQ)
    BY <1>6, <1>14 DEF IInv, LSQ, LoadIds
  <2>2. DownClosed(loads, Elements(LQ))
    BY <1>6, <1>10 DEF DownClosed
  <2> HIDE DEF loads
  <2>3. /\ Cardinality(loads) \in 0 .. Len(LQ)
        /\ Elements(Drop(LQ, Cardinality(loads))) = Elements(LQ) \ loads
    BY <1>3, <1>5, <2>1, <2>2, TakeCount
  <2>4. /\ Drop(LQ, Cardinality(loads)) \in Seq(Ids)
        /\ Len(Drop(LQ, Cardinality(loads))) = Len(LQ) - Cardinality(loads)
    BY <1>5, <2>3, TakeDrop
  <2>5. Increasing(Drop(LQ, Cardinality(loads)))
    BY <1>3, <1>5, <2>3, IncreasingTakeDrop
  <2>6. Len(LQ) <= LQSize /\ LQSize \in Nat /\ Len(LQ) \in Nat
    BY <1>3, <1>5, Sizes
  <2> QED BY <1>4, <2>3, <2>4, <2>5, <2>6
<1>16. /\ retired' \in Seq(Ids) /\ Increasing(retired')
       /\ Elements(retired') = Elements(retired) \cup out
  <2>0. retired \in Seq(Ids) /\ new \in Seq(Ids)
    BY <1>5, <1>6
  <2>1. retired \o new \in Seq(Ids)
        /\ Elements(retired \o new) = Elements(retired) \cup Elements(new)
    BY <2>0, Concat
  <2>2. Before(Elements(retired), Elements(new))
    BY <1>6, <1>10 DEF IInv, TraceOrder, Before, Traced, out
  <2>3. Increasing(retired \o new)
    BY <1>5, <1>6, <2>2, Concat
  <2> QED BY <1>4, <2>1, <2>3 DEF out
<1>17. /\ ins' \in [Ids -> InsState]
       /\ \A i \in Ids \ out : ins'[i] = ins[i]
       /\ \A i \in stores : ins'[i].stage = "COMMIT" /\ ins'[i].lsq = "COMMIT"
       /\ \A i \in Ids : /\ ins'[i].memViolation = ins[i].memViolation
                         /\ ins'[i].cacheAxes = ins[i].cacheAxes
  <2>1. ins \in [Ids -> InsState]
    BY <1>3 DEF TypeOK, InsState
  <2>2. stores \in SUBSET Ids
    BY <1>10
  <2>3. ASSUME NEW i \in stores
        PROVE  /\ done[i] \in InsState /\ done[i].stage = "COMMIT" /\ done[i].lsq = "COMMIT"
               /\ done[i].memViolation = ins[i].memViolation
               /\ done[i].cacheAxes = ins[i].cacheAxes
    <3>1. ins[i] \in InsState
      BY <2>1, <2>2
    <3> QED BY <3>1 DEF InsState, Stage, LsqState, done
  <2>4. done \in [stores -> InsState]
    BY <2>3 DEF done
  <2> HIDE DEF stores
  <2> DEFINE t == Replace(ins, done)
  <2>5. /\ t \in [Ids -> InsState]
        /\ \A i \in Ids \ stores : t[i] = ins[i]
        /\ \A i \in stores : t[i] = done[i]
    BY <2>1, <2>2, <2>4, ReplaceTable
  <2>6. ins' = t
    BY <1>4
  <2> HIDE DEF t
  <2>7. Ids \ out \subseteq Ids \ stores
    BY DEF stores
  <2> QED BY <2>2, <2>3, <2>5, <2>6, <2>7
<1> USE <1>u, <1>t, <1>e
<1>18. TypeOK'
  <2>1. ins' \in [Ids' -> [stage : Stage, lsq : LsqState,
                      memViolation : BOOLEAN, cacheAxes : BOOLEAN]]
    BY <1>17 DEF InsState
  <2>2. \A q \in {codeCache', iQUE', fetchPort', decodePort', resStn', issuePort',
                  ROB', LQ', SQ', retired'} : q \in Seq(Ids')
    BY <1>3, <1>8, <1>9, <1>15, <1>16, QueueTypes
  <2> QED BY <1>1, <1>3, <1>9, <1>15, <2>1, <2>2 DEF TypeOK
<1>19. InOrder'
  BY <1>8, <1>9, <1>15, <1>16 DEF IInv, InOrder
<1>20. /\ out \cap Elements(codeCache) = {}
       /\ out \cap (Elements(decodePort) \cup Elements(fetchPort)) = {}
       /\ out \cap (Elements(resStn) \cup Elements(issuePort) \cup Units) = {}
  <2>1. \A i \in Elements(codeCache) : ins[i].stage # "COMPLETE"
    BY DEF IInv, Stages, NewIns
  <2>2. /\ \A i \in Elements(decodePort) \cup Elements(fetchPort) : ins[i].stage # "COMPLETE"
        /\ \A i \in Elements(resStn) \cup Elements(issuePort) \cup Units :
             ins[i].stage # "COMPLETE"
    BY DEF IInv, Stages
  <2> QED BY <1>11, <2>1, <2>2
<1>21. TraceOrder'
  <2>1. Traced' = Traced \ out
    BY <1>8, <1>20 DEF Traced
  <2>2. Before(out, Traced')
    BY <1>8, <1>6, <1>10 DEF Traced, Before, IInv, TraceOrder
  <2>3. Before(Elements(retired'), Traced')
    BY <1>16, <2>1, <2>2 DEF IInv, TraceOrder, Before
  <2>4. Before(Fetched', Elements(codeCache)')
    BY <1>8 DEF IInv, TraceOrder, Before
  <2>5. Elements(retired') \subseteq RightPathIds
    BY <1>16, <1>11, <1>10 DEF IInv, TraceOrder, RightPathIds
  <2>6. Elements(retired') \cup Traced' \subseteq 1 .. supplied
    BY <1>16, <1>6, <1>10, <2>1 DEF IInv, TraceOrder, Traced
  <2>7. ASSUME NEW i \in Traced' PROVE i .. supplied \subseteq Traced'
    <3>1. i .. supplied \subseteq Traced
      BY <2>1 DEF IInv, TraceOrder
    <3>2. ASSUME NEW j \in i .. supplied, j \in out PROVE FALSE
      <4>1. j < i
        BY <2>2, <3>2 DEF Before
      <4>2. i \in Nat /\ supplied \in Nat
        BY <1>3, <2>6, <1>5 DEF TypeOK
      <4> QED BY <4>1, <4>2, <3>2
    <3> QED BY <2>1, <3>1, <3>2
  <2> QED BY <2>3, <2>4, <2>5, <2>6, <2>7 DEF TraceOrder
<1>22. WindowOrder'
  <2>1. Window' = Window \ out
    BY <1>9, <1>20 DEF Window
  <2>2. /\ Before(InROB', Elements(decodePort) \cup Elements(fetchPort))
        /\ DownClosed(InROB', Fetched')
    BY <1>8, <1>9 DEF IInv, WindowOrder, Before, DownClosed
  <2>3. DownClosed(Window', Fetched')
    BY <1>1, <1>8, <2>1 DEF IInv, WindowOrder, DownClosed
  <2>4. pipe = "NORMAL" => Fetched' \subseteq Window'
    BY <1>8, <2>1 DEF IInv, WindowOrder
  <2>5. Window' \subseteq Fetched'
    BY <1>8, <2>1 DEF IInv, WindowOrder
  <2> QED BY <1>1, <2>2, <2>3, <2>4, <2>5 DEF IInv, WindowOrder, FlushedIn
<1>23. Stages'
  <2>1. \A i \in Ids : i > supplied => ins'[i] = NewIns
    <3>1. \A i \in out : ins[i] # NewIns
      BY <1>11 DEF NewIns
    <3> QED BY <3>1, <1>17 DEF IInv, Stages
  <2>2. \A i \in Elements(codeCache) : ins'[i] = NewIns
    BY <1>10, <1>17, <1>20 DEF IInv, Stages
  <2>3. /\ \A i \in Elements(fetchPort) : ins'[i].stage = "FETCH"
        /\ \A i \in Elements(decodePort) : ins'[i].stage = "DECODE"
    <3>1. \A i \in Elements(fetchPort) \cup Elements(decodePort) : ins'[i] = ins[i]
      BY <1>3, <1>17, <1>20, ElementTypes
    <3> QED BY <3>1 DEF IInv, Stages
  <2>4. \A i \in Fetched' \ InROB' :
          /\ ins'[i].stage \in {"FETCH", "DECODE"}
          /\ ~ins'[i].memViolation /\ ~ins'[i].cacheAxes
    <3>1. \A i \in Fetched' \ InROB' : i \in Fetched \ InROB /\ ins'[i] = ins[i]
      BY <1>8, <1>9, <1>10, <1>17
    <3> QED BY <3>1 DEF IInv, Stages
  <2>5. \A i \in InROB' : i \in InROB /\ ins'[i] = ins[i]
    BY <1>9, <1>10, <1>17
  <2>6. /\ \A i \in Elements(resStn) : i \in InROB' /\ ins'[i].stage = "DISPATCH"
        /\ \A i \in Elements(issuePort) : i \in InROB' /\ ins'[i].stage = "ISSUE"
        /\ \A i \in Units : i \in InROB' /\ ins'[i].stage = "EXECUTE"
    <3>1. \A i \in Elements(resStn) \cup Elements(issuePort) \cup Units : i \in InROB'
      BY <1>9, <1>20 DEF IInv, Stages
    <3> QED BY <3>1, <2>5 DEF IInv, Stages
  <2>7. ASSUME NEW i \in InROB'
        PROVE /\ Lifecycle(i)'
              /\ ins'[i].stage = "EXECUTE" => i \in Units
              /\ ins'[i].memViolation => Op(i)' = "LOAD" /\ ins'[i].lsq = "COMPLETE"
    <3>1. ins'[i] = ins[i] /\ Op(i)' = Op(i)
      BY <2>5 DEF Op
    <3>2. Lifecycle(i) /\ (ins[i].stage = "EXECUTE" => i \in Units)
          /\ (ins[i].memViolation => Op(i) = "LOAD" /\ ins[i].lsq = "COMPLETE")
      BY <2>5 DEF IInv, Stages
    <3> QED BY <3>1, <3>2 DEF Lifecycle
  <2> QED BY <2>1, <2>2, <2>3, <2>4, <2>6, <2>7 DEF Stages
<1>24. LSQ'
  <2>1. /\ Elements(LQ') \subseteq InROB' \cap LoadIds
        /\ DownClosed(Elements(LQ'), InROB' \cap LoadIds)
        /\ DownClosed(Elements(SQ), InROB' \cap StoreIds)
    BY <1>9, <1>15 DEF IInv, LSQ, DownClosed
  <2>2. \A i \in Elements(SQ) \ InROB' :
          /\ i \in Elements(retired')
          /\ ins'[i].stage = "COMMIT" /\ ins'[i].lsq \in {"COMMIT", "CACHE_DISPATCH"}
    <3> TAKE i \in Elements(SQ) \ InROB'
    <3>1. i \in StoreIds /\ i \in Ids
      BY <1>3, ElementTypes DEF IInv, LSQ
    <3>2. CASE i \in out
      BY <3>1, <3>2, <1>16, <1>17
    <3>3. CASE i \notin out
      <4>1. i \notin InROB
        BY <3>3, <1>9
      <4>2. ins'[i] = ins[i]
        BY <3>1, <3>3, <1>17
      <4> QED BY <4>1, <4>2, <1>16 DEF IInv, LSQ
    <3> QED BY <3>2, <3>3
  <2>3. \A i \in InROB' : (pipe = "NORMAL" \/ i < squashSN) =>
         /\ Op(i) = "LOAD" => i \in Elements(LQ')
         /\ Op(i) = "STORE" => i \in Elements(SQ)
    BY <1>9, <1>15 DEF IInv, LSQ
  <2>4. \A i \in Elements(resStn) \cup Elements(issuePort) \cup Units :
         /\ Op(i) = "LOAD" => i \in Elements(LQ')
         /\ Op(i) = "STORE" => i \in Elements(SQ)
    BY <1>15, <1>20 DEF IInv, LSQ
  <2> QED BY <2>1, <2>2, <2>3, <2>4 DEF IInv, LSQ, Op
<1>25. Squashing'
  <2>1. ASSUME NEW i \in InROB', Detected(i)' PROVE i \in InROB /\ Detected(i)
    <3>1. i \in InROB /\ ins'[i] = ins[i]
      BY <1>9, <1>10, <1>17
    <3> QED BY <3>1, <2>1 DEF Detected, WrongPath
  <2>2. Culprit => Culprit'
    <3> SUFFICES ASSUME Culprit PROVE Culprit'
      OBVIOUS
    <3>1. squashSN \in InROB /\ Detected(squashSN)
      BY DEF Culprit
    <3>2. squashSN \notin out
      BY <3>1, <1>11
    <3>3. squashSN \in InROB' /\ ins'[squashSN] = ins[squashSN]
      BY <3>1, <3>2, <1>9, <1>10, <1>17
    <3> QED BY <3>1, <3>3 DEF Culprit, Detected, WrongPath
  <2>3. pipe = "SQUASH_ROB" => ROB' = << >> /\ iQUE' = << >>
    <3> SUFFICES ASSUME pipe = "SQUASH_ROB" PROVE ROB' = << >> /\ iQUE' = << >>
      OBVIOUS
    <3>1. Elements(ROB') = {} /\ Elements(iQUE') = {}
      BY <1>8, <1>9, <1>13 DEF InROB, Fetched
    <3> QED BY <3>1, <1>8, <1>9, ElementsIn
  <2> QED BY <2>1, <2>2, <2>3, <1>1, <1>12 DEF IInv, Squashing
<1>26. Flushing'
  BY <1>1, <1>12, <1>15 DEF IInv, Flushing, FlushedIn
<1>27. Disambiguated'
  <2>1. \A l \in InROB' : l \in InROB /\ ins'[l].cacheAxes = ins[l].cacheAxes
    BY <1>9, <1>10, <1>17
  <2> QED BY <2>1, <1>17 DEF IInv, Disambiguated, Addr
<1> QED BY <1>18, <1>19, <1>21, <1>22, <1>23, <1>24, <1>25, <1>26, <1>27 DEF IInv

LEMMA CommitStep ==
  ASSUME IInv, doCOMMIT
  PROVE  IInv'
<1>1. CASE pipe \in {"WAIT_FLUSH", "FLUSH"}
  <2>1. UNCHANGED work /\ turn = "COMMIT" /\ turn' = "MEMORY"
    BY <1>1 DEF doCOMMIT, commitImpl, work, frontVars, queues, squashVars, history
  <2> QED BY <1>1, <2>1, Stalled
<1>2. CASE pipe \notin {"WAIT_FLUSH", "FLUSH"}
  BY <1>2, CommitImpl
<1> QED BY <1>1, <1>2
-----------------------------------------------------------------------------
(* Memory. *)

LEMMA SquashLSQ ==
  ASSUME IInv, NEW q \in Seq(Ids), Increasing(q)
  PROVE  /\ squashLSQ(q) \in Seq(Ids) /\ Increasing(squashLSQ(q))
         /\ Len(squashLSQ(q)) <= Len(q)
         /\ Elements(squashLSQ(q)) = {i \in Elements(q) : pipe = "FLUSH" => i < squashSN}
<1>1. TypeOK /\ Ids \in SUBSET Nat
  BY Numbers DEF IInv
<1>2. CASE pipe = "FLUSH"
  <2>1. squashSN \in Nat
    BY <1>1 DEF TypeOK
  <2>2. /\ FlushBack(q, squashSN) \in Seq(Ids) /\ Increasing(FlushBack(q, squashSN))
        /\ Len(FlushBack(q, squashSN)) <= Len(q)
        /\ Elements(FlushBack(q, squashSN)) = {i \in Elements(q) : i < squashSN}
    BY <1>1, <2>1, FlushBackElements
  <2> QED BY <1>2, <2>2 DEF squashLSQ
<1>3. CASE pipe # "FLUSH"
  <2>1. squashLSQ(q) = q /\ Len(q) \in Nat
    BY <1>3 DEF squashLSQ
  <2> QED BY <1>3, <2>1
<1> QED BY <1>2, <1>3

LEMMA CommittedAreOlder ==
  ASSUME IInv, NEW i \in Elements(SQ), i \notin InROB, pipe \in {"WAIT_FLUSH", "FLUSH", "DRAIN"}
  PROVE  i < squashSN
<1>1. i \in Elements(retired)
  BY DEF IInv, LSQ
<1>2. squashSN \in Traced
  BY DEF IInv, Squashing, Culprit, WindowOrder, Window, Traced
<1> QED BY <1>1, <1>2 DEF IInv, TraceOrder, Before

LEMMA MemoryStep ==
  ASSUME IInv, doMEMORY
  PROVE  IInv'
<1> USE DEF frontVars, squashVars, history
<1>u. UNCHANGED <<program, supplied, codeCache, pipe, squashSN, squashType, badInsID,
                  retired, deleted, iQUE, fetchPort, decodePort, resStn, issuePort, EU, ROB>>
  BY DEF doMEMORY
<1>t. /\ Ids' = Ids /\ RightPathIds' = RightPathIds /\ LoadIds' = LoadIds
      /\ StoreIds' = StoreIds
  BY <1>u, ProgramStays
<1>3. TypeOK /\ Ids \in SUBSET Nat
  BY Numbers DEF IInv
<1>e. /\ Fetched' = Fetched /\ InROB' = InROB /\ Units' = Units /\ Traced' = Traced
      /\ Window' = Window
  BY <1>u DEF Fetched, InROB, Units, Traced, Window
<1>1. turn = "MEMORY" /\ turn' = "EXECUTE"
  BY DEF doMEMORY
<1> DEFINE loads == squashLSQ(LQ)
           stores == squashLSQ(SQ)
           pendingLoads == PendingLoads(loads)
           pendingStores == PendingStores(stores)
<1>2. PICK done \in SUBSET WaitingLoads(LQ), k \in 0 .. MemWidth, m \in 0 .. MemWidth,
           taken \in SUBSET DispatchedStores(stores) :
         /\ k <= Len(pendingLoads) /\ m <= Len(pendingStores)
         /\ LET issued == Elements(Take(pendingLoads, k))
                sent == Elements(Take(pendingStores, m))
                finished == [i \in done |-> [ins[i] EXCEPT !.stage = "COMPLETE",
                                                           !.lsq = "COMPLETE"]]
                reading == [i \in issued |-> getAxesLatency(stores, i)]
                writing == [i \in sent |-> [ins[i] EXCEPT !.lsq = "CACHE_DISPATCH"]]
            IN ins' = Replace(Replace(Replace(ins, writing), reading), finished)
         /\ SQ' = Without(stores, taken)
  BY DEF doMEMORY
<1> DEFINE issued == Elements(Take(pendingLoads, k))
           sent == Elements(Take(pendingStores, m))
           finished == [i \in done |-> [ins[i] EXCEPT !.stage = "COMPLETE",
                                                      !.lsq = "COMPLETE"]]
           reading == [i \in issued |-> getAxesLatency(stores, i)]
           writing == [i \in sent |-> [ins[i] EXCEPT !.lsq = "CACHE_DISPATCH"]]
           wrote == Replace(ins, writing)
           read == Replace(wrote, reading)
<1>4. /\ ins' = Replace(read, finished)
      /\ SQ' = Filter(stores, Ids \ taken) /\ LQ' = loads
  BY <1>2 DEF doMEMORY, Without
<1> HIDE DEF wrote, read, finished, reading, writing
<1>5. /\ LQ \in Seq(Ids) /\ Increasing(LQ) /\ SQ \in Seq(Ids) /\ Increasing(SQ)
      /\ Len(LQ) \in Nat /\ Len(SQ) \in Nat
  BY <1>3, QueueTypes DEF IInv, InOrder
<1>6. /\ loads \in Seq(Ids) /\ Increasing(loads) /\ Len(loads) <= Len(LQ) /\ Len(loads) \in Nat
      /\ Elements(loads) = {i \in Elements(LQ) : pipe = "FLUSH" => i < squashSN}
  BY <1>5, SquashLSQ
<1>7. /\ stores \in Seq(Ids) /\ Increasing(stores) /\ Len(stores) <= Len(SQ)
      /\ Len(stores) \in Nat
      /\ Elements(stores) = {i \in Elements(SQ) : pipe = "FLUSH" => i < squashSN}
  BY <1>5, SquashLSQ
<1>8. /\ Elements(LQ) \subseteq InROB \cap LoadIds /\ Elements(LQ) \subseteq Ids
      /\ Elements(SQ) \subseteq StoreIds /\ Elements(SQ) \subseteq Ids /\ InROB \subseteq Ids
  BY <1>3, ElementTypes DEF IInv, LSQ
<1> HIDE DEF loads, stores
<1>9. \A i \in issued : /\ i \in Elements(loads) /\ ins[i].stage = "MEM_ACCESS"
                        /\ ins[i].lsq = "PENDING_CACHE_DISPATCH"
  <2> DEFINE P == {i \in Ids : /\ ins[i].stage = "MEM_ACCESS"
                               /\ ins[i].lsq = "PENDING_CACHE_DISPATCH"}
  <2>1. pendingLoads = Filter(loads, P)
    BY DEF PendingLoads
  <2> HIDE DEF P
  <2>2. pendingLoads \in Seq(Ids) /\ Elements(pendingLoads) = Elements(loads) \cap P
    BY <1>6, <2>1, FilterElements
  <2> HIDE DEF pendingLoads
  <2>3. k \in 0 .. Len(pendingLoads)
    <3>1. MemWidth \in Nat /\ Len(pendingLoads) \in Nat
      BY <1>3, <2>2, Sizes
    <3>2. k <= Len(pendingLoads)
      BY <1>2
    <3> QED BY <3>1, <3>2
  <2>4. issued \subseteq Elements(pendingLoads)
    BY <2>2, <2>3, TakeDropElements
  <2> QED BY <2>2, <2>4 DEF P
<1>10. \A i \in sent : i \in Elements(stores) /\ ins[i].stage = "COMMIT" /\ ins[i].lsq = "COMMIT"
  <2> DEFINE P == {i \in Ids : ins[i].stage = "COMMIT" /\ ins[i].lsq = "COMMIT"}
  <2>1. pendingStores = Filter(stores, P)
    BY DEF PendingStores
  <2> HIDE DEF P
  <2>2. pendingStores \in Seq(Ids) /\ Elements(pendingStores) = Elements(stores) \cap P
    BY <1>7, <2>1, FilterElements
  <2> HIDE DEF pendingStores
  <2>3. m \in 0 .. Len(pendingStores)
    <3>1. MemWidth \in Nat /\ Len(pendingStores) \in Nat
      BY <1>3, <2>2, Sizes
    <3>2. m <= Len(pendingStores)
      BY <1>2
    <3> QED BY <3>1, <3>2
  <2>4. sent \subseteq Elements(pendingStores)
    BY <2>2, <2>3, TakeDropElements
  <2> QED BY <2>2, <2>4 DEF P
<1> HIDE DEF issued, sent
<1>11. \A i \in done : /\ i \in Elements(LQ)
                       /\ ins[i].lsq \in {"FWD_FROM_SQ", "CACHE_WAIT"}
  BY DEF WaitingLoads
<1>12. \A i \in taken : i \in Elements(stores) /\ ins[i].lsq = "CACHE_DISPATCH"
  BY DEF DispatchedStores
<1>13. \A i \in InROB : Lifecycle(i)
  BY DEF IInv, Stages
<1>14. /\ \A i \in done : /\ i \in InROB /\ Op(i) = "LOAD" /\ ins[i].stage = "MEM_ACCESS"
                          /\ ~ins[i].memViolation
       /\ \A i \in issued : i \in InROB /\ Op(i) = "LOAD" /\ ~ins[i].memViolation
       /\ \A i \in sent \cup taken : i \notin InROB /\ i \in StoreIds
  <2>1. \A i \in InROB : /\ Op(i) \in {"ALU", "LOAD", "STORE"}
                         /\ ins[i].memViolation => ins[i].lsq = "COMPLETE"
    BY <1>3, <1>8, Numbers DEF IInv, Stages
  <2>2. \A i \in done \cup issued : i \in InROB /\ Op(i) = "LOAD"
    BY <1>6, <1>8, <1>9, <1>11 DEF LoadIds
  <2>3. \A i \in done : ins[i].stage = "MEM_ACCESS"
    BY <2>2, <1>11, <1>13 DEF Lifecycle
  <2>4. \A i \in done \cup issued : ~ins[i].memViolation
    BY <2>1, <2>2, <1>9, <1>11
  <2>5. ASSUME NEW i \in sent \cup taken PROVE i \notin InROB /\ i \in StoreIds
    <3>1. i \in StoreIds /\ Op(i) = "STORE"
      BY <1>7, <1>8, <1>10, <1>12 DEF StoreIds
    <3>2. ins[i].lsq \in {"COMMIT", "CACHE_DISPATCH"}
      BY <1>10, <1>12
    <3> QED BY <3>1, <3>2, <1>13 DEF Lifecycle
  <2> QED BY <2>2, <2>3, <2>4, <2>5
<1>15. ins \in [Ids -> InsState]
  BY <1>3 DEF TypeOK, InsState
<1>16. done \in SUBSET Ids /\ issued \in SUBSET Ids /\ sent \in SUBSET Ids
       /\ done \cap issued = {} /\ done \cap sent = {} /\ issued \cap sent = {}
  BY <1>8, <1>9, <1>10, <1>11, <1>14, <1>7
<1>17. /\ wrote \in [Ids -> InsState]
       /\ \A i \in Ids \ sent : wrote[i] = ins[i]
       /\ \A i \in sent : wrote[i] = [ins[i] EXCEPT !.lsq = "CACHE_DISPATCH"]
  <2>1. ASSUME NEW i \in sent
        PROVE  [ins[i] EXCEPT !.lsq = "CACHE_DISPATCH"] \in InsState
    <3>1. ins[i] \in InsState
      BY <1>15, <1>16
    <3> QED BY <3>1 DEF InsState, LsqState
  <2>2. writing \in [sent -> InsState]
    BY <2>1 DEF writing
  <2>3. \A i \in sent : writing[i] = [ins[i] EXCEPT !.lsq = "CACHE_DISPATCH"]
    BY DEF writing
  <2>4. /\ wrote \in [Ids -> InsState]
        /\ \A i \in Ids \ sent : wrote[i] = ins[i]
        /\ \A i \in sent : wrote[i] = writing[i]
    BY <1>15, <1>16, <2>2, ReplaceTable DEF wrote
  <2> QED BY <2>3, <2>4
<1>18. ASSUME NEW i \in issued
       PROVE  LET x == getAxesLatency(stores, i) IN
              /\ x \in InsState /\ x.stage = "MEM_ACCESS"
              /\ x.lsq \in {"FWD_FROM_SQ", "CACHE_WAIT"}
              /\ x.memViolation = ins[i].memViolation
              /\ x.cacheAxes => ins[i].cacheAxes \/ ~hasMemAddr(stores, i)
  <2>1. ins[i] \in InsState
    BY <1>15, <1>16
  <2> QED BY <1>9, <2>1 DEF getAxesLatency, InsState, LsqState
<1>19. /\ read \in [Ids -> InsState]
       /\ \A i \in Ids \ issued : read[i] = wrote[i]
       /\ \A i \in issued : read[i] = getAxesLatency(stores, i)
  <2>1. reading \in [issued -> InsState]
    BY <1>18 DEF reading
  <2>2. \A i \in issued : reading[i] = getAxesLatency(stores, i)
    BY DEF reading
  <2>3. /\ read \in [Ids -> InsState]
        /\ \A i \in Ids \ issued : read[i] = wrote[i]
        /\ \A i \in issued : read[i] = reading[i]
    BY <1>16, <1>17, <2>1, ReplaceTable DEF read
  <2> QED BY <2>2, <2>3
<1>20. /\ ins' \in [Ids -> InsState]
       /\ \A i \in Ids \ done : ins'[i] = read[i]
       /\ \A i \in done : ins'[i] = [ins[i] EXCEPT !.stage = "COMPLETE", !.lsq = "COMPLETE"]
  <2>1. ASSUME NEW i \in done
        PROVE  [ins[i] EXCEPT !.stage = "COMPLETE", !.lsq = "COMPLETE"] \in InsState
    <3>1. ins[i] \in InsState
      BY <1>15, <1>16
    <3> QED BY <3>1 DEF InsState, LsqState, Stage
  <2>2. finished \in [done -> InsState]
    BY <2>1 DEF finished
  <2>3. \A i \in done :
          finished[i] = [ins[i] EXCEPT !.stage = "COMPLETE", !.lsq = "COMPLETE"]
    BY DEF finished
  <2> DEFINE t == Replace(read, finished)
  <2>4. /\ t \in [Ids -> InsState]
        /\ \A i \in Ids \ done : t[i] = read[i]
        /\ \A i \in done : t[i] = finished[i]
    BY <1>16, <1>19, <2>2, ReplaceTable
  <2>5. ins' = t
    BY <1>4
  <2> HIDE DEF t
  <2> QED BY <2>3, <2>4, <2>5
<1>21. \A i \in Ids \ (done \cup issued \cup sent) : ins'[i] = ins[i]
  BY <1>17, <1>19, <1>20
<1>22. \A i \in done : /\ ins'[i].stage = "COMPLETE" /\ ins'[i].lsq = "COMPLETE"
                       /\ ins'[i].memViolation = ins[i].memViolation
                       /\ ins'[i].cacheAxes = ins[i].cacheAxes
  <2> TAKE i \in done
  <2>1. ins[i] \in InsState /\ ins'[i] = [ins[i] EXCEPT !.stage = "COMPLETE", !.lsq = "COMPLETE"]
    BY <1>15, <1>16, <1>20
  <2> QED BY <2>1 DEF InsState
<1>23. \A i \in issued : /\ ins'[i].stage = "MEM_ACCESS"
                         /\ ins'[i].lsq \in {"FWD_FROM_SQ", "CACHE_WAIT"}
                         /\ ins'[i].memViolation = ins[i].memViolation
                         /\ ins'[i].cacheAxes => ins[i].cacheAxes \/ ~hasMemAddr(stores, i)
  <2> TAKE i \in issued
  <2>1. ins'[i] = getAxesLatency(stores, i)
    BY <1>16, <1>19, <1>20
  <2> QED BY <2>1, <1>18
<1>24. \A i \in sent : /\ ins'[i].stage = "COMMIT" /\ ins'[i].lsq = "CACHE_DISPATCH"
                       /\ ins'[i].memViolation = ins[i].memViolation
  <2> TAKE i \in sent
  <2>1. ins[i] \in InsState /\ ins'[i] = [ins[i] EXCEPT !.lsq = "CACHE_DISPATCH"]
    BY <1>15, <1>16, <1>17, <1>19, <1>20
  <2> QED BY <2>1, <1>10 DEF InsState
<1>25. /\ SQ' \in Seq(Ids) /\ Increasing(SQ') /\ Elements(SQ') = Elements(stores) \ taken
       /\ Len(SQ') <= SQSize
  <2> DEFINE R == Ids \ taken
             f == Filter(stores, R)
  <2> HIDE DEF R
  <2>1. f \in Seq(Ids) /\ Elements(f) = Elements(stores) \cap R /\ Len(f) <= Len(stores)
    BY <1>7, FilterElements
  <2>2. Increasing(f)
    BY <1>3, <1>7, FilterIncreasing
  <2> HIDE DEF f
  <2>3. SQ' = f
    BY <1>4 DEF f, R
  <2>4. Len(f) <= SQSize
    <3>1. Len(SQ) <= SQSize /\ SQSize \in Nat /\ Len(f) \in Nat
      BY <2>1, <1>3, Sizes
    <3> QED BY <3>1, <2>1, <1>5, <1>7
  <2>5. Elements(f) = Elements(stores) \ taken
    BY <2>1, <1>7, <1>8 DEF R
  <2> QED BY <2>1, <2>2, <2>3, <2>4, <2>5
<1> USE <1>u, <1>t, <1>e
<1>26. TypeOK'
  <2>1. ins' \in [Ids' -> [stage : Stage, lsq : LsqState,
                      memViolation : BOOLEAN, cacheAxes : BOOLEAN]]
    BY <1>20 DEF InsState
  <2>2. \A q \in {codeCache', iQUE', fetchPort', decodePort', resStn', issuePort',
                  ROB', LQ', SQ', retired'} : q \in Seq(Ids')
    BY <1>3, <1>4, <1>6, <1>25, QueueTypes
  <2>3. Len(LQ') <= LQSize
    BY <1>3, <1>4, <1>5, <1>6, Sizes, SMTT(30)
  <2> QED BY <1>1, <1>3, <1>25, <2>1, <2>2, <2>3 DEF TypeOK
<1>27. InOrder'
  BY <1>4, <1>6, <1>25 DEF IInv, InOrder
<1>28. TraceOrder'
  BY DEF IInv, TraceOrder
<1>29. WindowOrder'
  BY <1>1 DEF IInv, WindowOrder, FlushedIn
<1>30. \A i \in InROB : i \notin done \cup issued => ins'[i] = ins[i]
  BY <1>8, <1>14, <1>21
<1>31. \A i \in sent : i \in Elements(retired) /\ i \notin Traced
  <2> TAKE i \in sent
  <2>1. i \in Elements(SQ) \ InROB /\ i \in Ids
    BY <1>7, <1>10, <1>14, <1>16
  <2>2. i \in Elements(retired)
    BY <2>1 DEF IInv, LSQ
  <2>3. i \in Traced => i < i
    BY <2>2 DEF IInv, TraceOrder, Before
  <2> QED BY <2>1, <2>2, <2>3, <1>3
<1>32. Stages'
  <2>1. \A i \in Ids : ins[i] = NewIns => ins'[i] = NewIns
    BY <1>9, <1>10, <1>14, <1>21 DEF NewIns
  <2>2. /\ \A i \in Elements(codeCache) : ins'[i] = NewIns
        /\ \A i \in Ids : i > supplied => ins'[i] = NewIns
    BY <2>1, <1>3, ElementTypes DEF IInv, Stages
  <2>3. \A i \in Fetched \ InROB : ins'[i] = ins[i]
    <3>1. \A i \in Fetched : i \in Ids /\ i \notin sent
      BY <1>3, <1>31, ElementTypes DEF Traced
    <3> QED BY <3>1, <1>14, <1>21
  <2>4. /\ \A i \in Elements(fetchPort) : ins'[i].stage = "FETCH"
        /\ \A i \in Elements(decodePort) : ins'[i].stage = "DECODE"
    <3>1. \A i \in Elements(fetchPort) \cup Elements(decodePort) :
            i \in Ids /\ i \notin sent /\ i \notin done \cup issued
      <4>1. Elements(fetchPort) \cup Elements(decodePort) \subseteq Fetched
        BY DEF IInv, WindowOrder, Window
      <4>2. \A i \in done \cup issued : ins[i].stage = "MEM_ACCESS"
        BY <1>9, <1>14
      <4> QED BY <4>1, <4>2, <1>31, <1>3, ElementTypes DEF IInv, Stages, Traced
    <3> QED BY <3>1, <1>21 DEF IInv, Stages
  <2>5. /\ \A i \in Elements(resStn) : i \in InROB /\ ins'[i].stage = "DISPATCH"
        /\ \A i \in Elements(issuePort) : i \in InROB /\ ins'[i].stage = "ISSUE"
        /\ \A i \in Units : i \in InROB /\ ins'[i].stage = "EXECUTE"
    <3>1. \A i \in done \cup issued : ins[i].stage = "MEM_ACCESS"
      BY <1>9, <1>14
    <3> QED BY <3>1, <1>30 DEF IInv, Stages
  <2>6. ASSUME NEW i \in InROB
        PROVE /\ Lifecycle(i)'
              /\ ins'[i].stage = "EXECUTE" => i \in Units
              /\ ins'[i].memViolation => Op(i)' = "LOAD" /\ ins'[i].lsq = "COMPLETE"
    <3>0. Op(i)' = Op(i)
      BY DEF Op
    <3>1. CASE i \in done
      BY <3>0, <3>1, <1>14, <1>22 DEF Lifecycle
    <3>2. CASE i \in issued
      BY <3>0, <3>2, <1>14, <1>23 DEF Lifecycle
    <3>3. CASE i \notin done \cup issued
      <4>1. ins'[i] = ins[i]
        BY <3>3, <1>30
      <4>2. Lifecycle(i) /\ (ins[i].stage = "EXECUTE" => i \in Units)
            /\ (ins[i].memViolation => Op(i) = "LOAD" /\ ins[i].lsq = "COMPLETE")
        BY DEF IInv, Stages
      <4> QED BY <3>0, <4>1, <4>2 DEF Lifecycle
    <3> QED BY <3>1, <3>2, <3>3
  <2> QED BY <2>2, <2>3, <2>4, <2>5, <2>6 DEF IInv, Stages
<1>33. LSQ'
  <2>1. /\ Elements(LQ') \subseteq InROB \cap LoadIds
        /\ Elements(SQ') \subseteq StoreIds
    BY <1>4, <1>6, <1>7, <1>8, <1>25
  <2>2. squashSN \in Nat
    BY <1>3 DEF TypeOK
  <2>3. DownClosed(Elements(LQ'), InROB \cap LoadIds)
    <3> SUFFICES ASSUME NEW i \in Elements(loads), NEW j \in InROB \cap LoadIds, j < i
                 PROVE  j \in Elements(loads)
      BY <1>4 DEF DownClosed
    <3>1. j \in Elements(LQ) /\ i \in Nat /\ j \in Nat
      BY <1>3, <1>6, <1>8 DEF IInv, LSQ, DownClosed
    <3> QED BY <3>1, <2>2, <1>6
  <2>4. DownClosed(Elements(SQ'), InROB \cap StoreIds)
    <3> SUFFICES ASSUME NEW i \in Elements(stores), NEW j \in InROB \cap StoreIds, j < i
                 PROVE  j \in Elements(SQ')
      BY <1>25 DEF DownClosed
    <3>1. j \in Elements(SQ) /\ i \in Nat /\ j \in Nat
      BY <1>3, <1>7, <1>8 DEF IInv, LSQ, DownClosed
    <3> QED BY <3>1, <2>2, <1>7, <1>14, <1>25
  <2>5. \A i \in Elements(SQ') \ InROB :
          /\ i \in Elements(retired)
          /\ ins'[i].stage = "COMMIT" /\ ins'[i].lsq \in {"COMMIT", "CACHE_DISPATCH"}
    <3> TAKE i \in Elements(SQ') \ InROB
    <3>1. i \in Elements(SQ) /\ i \in Ids /\ i \notin done \cup issued
      BY <1>7, <1>8, <1>14, <1>25
    <3>2. CASE i \in sent
      BY <3>2, <1>24, <1>31
    <3>3. CASE i \notin sent
      <4>1. ins'[i] = ins[i]
        BY <3>1, <3>3, <1>21
      <4> QED BY <4>1, <3>1 DEF IInv, LSQ
    <3> QED BY <3>2, <3>3
  <2>6. ASSUME NEW i \in InROB, pipe = "FLUSH" => i < squashSN
        PROVE  /\ i \in Elements(LQ) => i \in Elements(LQ')
               /\ i \in Elements(SQ) => i \in Elements(SQ')
    BY <2>6, <1>4, <1>6, <1>7, <1>14, <1>25
  <2>7. \A i \in InROB : (pipe = "NORMAL" \/ i < squashSN) =>
         /\ Op(i) = "LOAD" => i \in Elements(LQ')
         /\ Op(i) = "STORE" => i \in Elements(SQ')
    BY <2>6 DEF IInv, LSQ
  <2>8. \A i \in Elements(resStn) \cup Elements(issuePort) \cup Units :
         /\ Op(i) = "LOAD" => i \in Elements(LQ')
         /\ Op(i) = "STORE" => i \in Elements(SQ')
    <3> TAKE i \in Elements(resStn) \cup Elements(issuePort) \cup Units
    <3>1. i \in InROB
      BY DEF IInv, Stages
    <3>2. pipe = "FLUSH" => i < squashSN
      BY <1>1 DEF IInv, Flushing, FlushedIn
    <3>3. /\ Op(i) = "LOAD" => i \in Elements(LQ)
          /\ Op(i) = "STORE" => i \in Elements(SQ)
      BY DEF IInv, LSQ
    <3> QED BY <3>1, <3>2, <3>3, <2>6
  <2> QED BY <2>1, <2>3, <2>4, <2>5, <2>7, <2>8 DEF LSQ, Op
<1>34. Squashing'
  <2>1. \A i \in InROB : Detected(i)' <=> Detected(i)
    <3> TAKE i \in InROB
    <3>0. WrongPath(i)' = WrongPath(i)
      BY DEF WrongPath
    <3>1. CASE i \in done \cup issued
      <4>1. /\ ins[i].stage = "MEM_ACCESS" /\ ins'[i].stage \in {"MEM_ACCESS", "COMPLETE"}
            /\ ins'[i].memViolation = ins[i].memViolation
        BY <3>1, <1>9, <1>14, <1>22, <1>23
      <4> QED BY <3>0, <4>1 DEF Detected
    <3>2. CASE i \notin done \cup issued
      BY <3>0, <3>2, <1>30 DEF Detected
    <3> QED BY <3>1, <3>2
  <2>2. Culprit => Culprit'
    BY <2>1 DEF Culprit, WrongPath
  <2> QED BY <2>1, <2>2, <1>1 DEF IInv, Squashing
<1>35. Flushing'
  <2>1. /\ Elements(LQ') \subseteq Elements(LQ) /\ Elements(SQ') \subseteq Elements(SQ)
        /\ pipe = "FLUSH" => \A i \in Elements(LQ') \cup Elements(SQ') : i < squashSN
    BY <1>4, <1>6, <1>7, <1>25
  <2> QED BY <2>1, <1>1 DEF IInv, Flushing, FlushedIn
<1>36. Disambiguated'
  <2> SUFFICES ASSUME MemModel[program] = "PERFECT" PROVE
          /\ squashType # "MEM_MISPRED"
          /\ \A i \in Ids : ~ins'[i].memViolation
          /\ \A l \in InROB, s \in Elements(SQ') :
               ins'[l].cacheAxes /\ s < l => Addr(s) # Addr(l)
    BY DEF Disambiguated, Addr
  <2>1. /\ squashType # "MEM_MISPRED"
        /\ \A i \in Ids : ~ins[i].memViolation
        /\ \A l \in InROB, s \in Elements(SQ) :
               ins[l].cacheAxes /\ s < l => Addr(s) # Addr(l)
    BY DEF IInv, Disambiguated
  <2>2. \A i \in Ids : ins'[i].memViolation = ins[i].memViolation
    BY <1>21, <1>22, <1>23, <1>24
  <2>3. ASSUME NEW l \in InROB, NEW s \in Elements(SQ'), ins'[l].cacheAxes, s < l
        PROVE  Addr(s) # Addr(l)
    <3>1. s \in Elements(stores) /\ s \in Elements(SQ)
      BY <1>7, <1>25
    <3>2. CASE ins[l].cacheAxes
      BY <2>1, <2>3, <3>1, <3>2
    <3>3. CASE ~ins[l].cacheAxes
      <4>1. l \in issued /\ ~hasMemAddr(stores, l)
        BY <2>3, <3>3, <1>22, <1>23, <1>30
      <4> QED BY <4>1, <3>1, <2>3 DEF hasMemAddr
    <3> QED BY <3>2, <3>3
  <2> QED BY <2>1, <2>2, <2>3
<1> QED BY <1>26, <1>27, <1>28, <1>29, <1>32, <1>33, <1>34, <1>35, <1>36 DEF IInv

-----------------------------------------------------------------------------
(* Execution: what the write-back loop makes of the instructions whose     *)
(* units are done, and the culprit it is left with.                        *)

AccState == [ins : [Ids -> InsState], bad : Ids \cup {NoIns}, type : SquashType,
             badInsID : Ids \cup {NoIns}]

DetectedIn(table, i) ==
    \/ table[i].memViolation
    \/ WrongPath(i) /\ table[i].stage \in {"MEM_ACCESS", "COMPLETE"}

(* The table once the instructions of W have written back. *)
Processed(table, W) ==
    /\ \A i \in Ids : /\ table[i].cacheAxes = ins[i].cacheAxes
                      /\ ins[i].memViolation => table[i].memViolation
    /\ \A i \in Ids \ W : table[i].stage = ins[i].stage /\ table[i].lsq = ins[i].lsq
    /\ \A i \in W :
         /\ Op(i) = "ALU" => table[i].stage = "COMPLETE"
         /\ Op(i) = "LOAD" => /\ table[i].stage = "MEM_ACCESS"
                              /\ table[i].lsq = "PENDING_CACHE_DISPATCH"
         /\ Op(i) = "STORE" => table[i].stage = "COMPLETE" /\ table[i].lsq = "COMPLETE"
    /\ \A i \in Ids : table[i].memViolation =>
         \/ ins[i].memViolation
         \/ /\ i \in Elements(LQ) /\ ins[i].lsq = "COMPLETE" /\ i \notin Units
            /\ MemModel[program] # "PERFECT"

(* The loop has kept the oldest culprit, and the kind of its squash. *)
KeepsOldest(acc) ==
    /\ \A i \in InROB : DetectedIn(acc.ins, i) =>
         acc.badInsID # NoIns /\ acc.badInsID <= i
    /\ \/ acc.bad = NoIns /\ acc.badInsID = squashSN /\ acc.type = squashType
       \/ /\ acc.bad = acc.badInsID /\ acc.bad \in InROB
          /\ squashSN = 0 \/ acc.bad < squashSN
          /\ DetectedIn(acc.ins, acc.bad)
          /\ acc.type = IF WrongPath(acc.bad) THEN "BP_MISPRED" ELSE "MEM_MISPRED"
    /\ MemModel[program] = "PERFECT" => acc.type # "MEM_MISPRED"

LEMMA WriteBack ==
  ASSUME TypeOK, NEW table \in [Ids -> InsState], NEW i \in Ids
  PROVE  LET t == writeBack(table, i) IN
         /\ t \in [Ids -> InsState]
         /\ \A j \in Ids : j # i => t[j] = table[j]
         /\ t[i].memViolation = table[i].memViolation
         /\ t[i].cacheAxes = table[i].cacheAxes
         /\ Op(i) = "ALU" => t[i].stage = "COMPLETE"
         /\ Op(i) = "LOAD" => t[i].stage = "MEM_ACCESS" /\ t[i].lsq = "PENDING_CACHE_DISPATCH"
         /\ Op(i) = "STORE" => t[i].stage = "COMPLETE" /\ t[i].lsq = "COMPLETE"
<1> DEFINE l == [table[i] EXCEPT !.stage = "MEM_ACCESS", !.lsq = "PENDING_CACHE_DISPATCH"]
           s == [table[i] EXCEPT !.stage = "COMPLETE", !.lsq = "COMPLETE"]
           a == [table[i] EXCEPT !.stage = "COMPLETE"]
           t == writeBack(table, i)
<1>1. Op(i) \in {"ALU", "LOAD", "STORE"} /\ table[i] \in InsState
  BY Numbers
<1>2. /\ l \in InsState /\ l.memViolation = table[i].memViolation
      /\ l.cacheAxes = table[i].cacheAxes /\ l.stage = "MEM_ACCESS"
      /\ l.lsq = "PENDING_CACHE_DISPATCH"
  BY <1>1 DEF InsState, Stage, LsqState
<1>3. /\ s \in InsState /\ s.memViolation = table[i].memViolation
      /\ s.cacheAxes = table[i].cacheAxes /\ s.stage = "COMPLETE" /\ s.lsq = "COMPLETE"
  BY <1>1 DEF InsState, Stage, LsqState
<1>4. /\ a \in InsState /\ a.memViolation = table[i].memViolation
      /\ a.cacheAxes = table[i].cacheAxes /\ a.stage = "COMPLETE"
  BY <1>1 DEF InsState, Stage
<1>5. CASE Op(i) = "LOAD"
  <2>1. t = [table EXCEPT ![i] = l]
    BY <1>5 DEF writeBack
  <2> HIDE DEF l, t
  <2> QED BY <1>2, <1>5, <2>1 DEF t
<1>6. CASE Op(i) = "STORE"
  <2>1. t = [table EXCEPT ![i] = s]
    BY <1>6 DEF writeBack
  <2> HIDE DEF s, t
  <2> QED BY <1>3, <1>6, <2>1 DEF t
<1>7. CASE Op(i) = "ALU"
  <2>1. t = [table EXCEPT ![i] = a]
    BY <1>7 DEF writeBack
  <2> HIDE DEF a, t
  <2> QED BY <1>4, <1>7, <2>1 DEF t
<1> QED BY <1>1, <1>5, <1>6, <1>7

LEMMA Violation ==
  ASSUME TypeOK, NEW table, NEW st \in Ids, isLQviolation(table, st) # NoIns
  PROVE  LET ld == isLQviolation(table, st) IN
         /\ ld \in Elements(LQ) /\ st < ld /\ Addr(ld) = Addr(st)
         /\ table[ld].lsq = "COMPLETE" /\ table[ld].cacheAxes
<1> DEFINE waw == Filter(SQ, {i \in Ids : /\ i > st
                                          /\ table[i].lsq = "COMPLETE"
                                          /\ Addr(i) = Addr(st)})
           hi == IF waw = << >> THEN Len(program) ELSE Head(waw)
           found == {LQ[n] : n \in {m \in 2 .. Len(LQ) :
                     /\ st < LQ[m] /\ LQ[m] <= hi
                     /\ Addr(LQ[m]) = Addr(st)
                     /\ table[LQ[m]].lsq = "COMPLETE"
                     /\ table[LQ[m]].cacheAxes}}
<1> HIDE DEF hi
<1>1. isLQviolation(table, st) = IF found = {} THEN NoIns ELSE Max(found)
  BY Zenon DEF isLQviolation, hi
<1>2. LQ \in Seq(Ids) /\ Len(LQ) \in Nat /\ Ids \in SUBSET Nat /\ Len(program) \in Nat
      /\ \A i \in Ids : i \in 1 .. Len(program)
  BY QueueTypes, Numbers
<1>3. \A x \in found : /\ x \in Elements(LQ) /\ x \in Ids /\ st < x /\ Addr(x) = Addr(st)
                       /\ table[x].lsq = "COMPLETE" /\ table[x].cacheAxes
  BY <1>2 DEF Elements
<1>4. found # {} /\ isLQviolation(table, st) = Max(found)
  BY <1>1
<1> HIDE DEF found
<1>5. \E x \in found : \A y \in found : y <= x
  <2>1. found \in SUBSET Nat /\ \A x \in found : x <= Len(program)
    BY <1>2, <1>3
  <2> QED BY <2>1, <1>2, <1>4, GreatestNat
<1>6. \E x \in found : \A y \in found : x >= y
  <2>1. \A x, y \in found : y <= x => x >= y
    BY <1>2, <1>3
  <2> QED BY <1>5, <2>1
<1>7. Max(found) \in found
  BY <1>6 DEF Max
<1> QED BY <1>3, <1>4, <1>7

(* The load that the write-back of i reveals, and the table it leaves. *)
Load(table, i) == IF Op(i) = "STORE" THEN isLQviolation(writeBack(table, i), i) ELSE NoIns
Marked(table, i) ==
    IF Load(table, i) = NoIns THEN writeBack(table, i)
    ELSE [writeBack(table, i) EXCEPT ![Load(table, i)].memViolation = TRUE]

LEMMA UnitResult ==
  ASSUME NEW acc, NEW i
  PROVE  completeUnit(acc, i) =
           IF /\ WrongPath(i) \/ Marked(acc.ins, i)[i].memViolation
              /\ acc.badInsID = 0 \/ i < acc.badInsID
           THEN [ins |-> Marked(acc.ins, i), bad |-> i, badInsID |-> i, type |-> "BP_MISPRED"]
           ELSE IF /\ Load(acc.ins, i) # NoIns
                   /\ acc.badInsID = 0 \/ Load(acc.ins, i) < acc.badInsID
           THEN [ins |-> Marked(acc.ins, i), bad |-> Load(acc.ins, i),
                 badInsID |-> Load(acc.ins, i), type |-> "MEM_MISPRED"]
           ELSE [acc EXCEPT !.ins = Marked(acc.ins, i)]
BY Zenon DEF completeUnit, Load, Marked

LEMMA MarkedTable ==
  ASSUME TypeOK, NEW table \in [Ids -> InsState], NEW i \in Ids
  PROVE  LET t == Marked(table, i)
             ld == Load(table, i)
         IN
         /\ t \in [Ids -> InsState]
         /\ \A j \in Ids : /\ t[j].cacheAxes = table[j].cacheAxes
                           /\ j # i => t[j].stage = table[j].stage /\ t[j].lsq = table[j].lsq
                           /\ j # ld => t[j].memViolation = table[j].memViolation
         /\ Op(i) = "ALU" => t[i].stage = "COMPLETE"
         /\ Op(i) = "LOAD" => t[i].stage = "MEM_ACCESS" /\ t[i].lsq = "PENDING_CACHE_DISPATCH"
         /\ Op(i) = "STORE" => t[i].stage = "COMPLETE" /\ t[i].lsq = "COMPLETE"
         /\ ld # NoIns => /\ Op(i) = "STORE" /\ ld \in Elements(LQ) /\ ld \in Ids /\ i < ld
                          /\ ld # i
                          /\ Addr(ld) = Addr(i) /\ table[ld].lsq = "COMPLETE"
                          /\ table[ld].cacheAxes /\ t[ld].memViolation
<1> DEFINE w == writeBack(table, i)
           ld == Load(table, i)
           t == Marked(table, i)
<1>1. /\ w \in [Ids -> InsState]
      /\ \A j \in Ids : j # i => w[j] = table[j]
      /\ w[i].memViolation = table[i].memViolation
      /\ w[i].cacheAxes = table[i].cacheAxes
      /\ Op(i) = "ALU" => w[i].stage = "COMPLETE"
      /\ Op(i) = "LOAD" => w[i].stage = "MEM_ACCESS" /\ w[i].lsq = "PENDING_CACHE_DISPATCH"
      /\ Op(i) = "STORE" => w[i].stage = "COMPLETE" /\ w[i].lsq = "COMPLETE"
  BY WriteBack
<1> HIDE DEF w
<1>2. ld # NoIns => /\ Op(i) = "STORE" /\ ld \in Elements(LQ) /\ i < ld
                    /\ Addr(ld) = Addr(i) /\ w[ld].lsq = "COMPLETE" /\ w[ld].cacheAxes
  BY Violation DEF Load, w
<1>3. ld # NoIns => /\ ld \in Ids /\ ld # i
  BY <1>2, Numbers, ElementTypes
<1>4. t = IF ld = NoIns THEN w ELSE [w EXCEPT ![ld].memViolation = TRUE]
  BY DEF Marked, w
<1> HIDE DEF t, ld
<1>5. CASE ld = NoIns
  <2>1. t = w
    BY <1>4, <1>5
  <2> QED BY <2>1, <1>1, <1>5 DEF t, ld
<1>6. CASE ld # NoIns
  <2> DEFINE x == [w[ld] EXCEPT !.memViolation = TRUE]
  <2>1. t = [w EXCEPT ![ld] = x]
    BY <1>4, <1>6
  <2>2. w[ld] \in InsState /\ w[ld] = table[ld]
    BY <1>1, <1>3, <1>6
  <2>3. /\ x \in InsState /\ x.stage = w[ld].stage /\ x.lsq = w[ld].lsq
        /\ x.cacheAxes = w[ld].cacheAxes /\ x.memViolation = TRUE
    BY <2>2 DEF InsState
  <2> HIDE DEF x
  <2>4. t \in [Ids -> InsState] /\ t[ld] = x /\ \A j \in Ids : j # ld => t[j] = w[j]
    BY <2>1, <2>3, <1>1, <1>3, <1>6
  <2>5. \A j \in Ids : t[j].stage = w[j].stage /\ t[j].lsq = w[j].lsq
                       /\ t[j].cacheAxes = w[j].cacheAxes
    BY <2>3, <2>4
  <2>6. \A j \in Ids : /\ t[j].cacheAxes = table[j].cacheAxes
                       /\ j # i => t[j].stage = table[j].stage /\ t[j].lsq = table[j].lsq
                       /\ j # ld => t[j].memViolation = table[j].memViolation
    BY <1>1, <2>4, <2>5
  <2> QED BY <1>1, <1>2, <1>3, <1>6, <2>2, <2>3, <2>4, <2>5, <2>6 DEF t, ld
<1> QED BY <1>5, <1>6

LEMMA CompleteUnitType ==
  ASSUME TypeOK, NEW acc \in AccState, NEW i \in Ids
  PROVE  completeUnit(acc, i) \in AccState
<1>1. acc.ins \in [Ids -> InsState]
  BY DEF AccState
<1>2. Marked(acc.ins, i) \in [Ids -> InsState]
      /\ (Load(acc.ins, i) # NoIns => Load(acc.ins, i) \in Ids)
  BY <1>1, MarkedTable
<1>3. {"BP_MISPRED", "MEM_MISPRED"} \subseteq SquashType
  BY DEF SquashType
<1> DEFINE m == Marked(acc.ins, i)
           ld == Load(acc.ins, i)
<1>4. completeUnit(acc, i) \in {[ins |-> m, bad |-> i, badInsID |-> i, type |-> "BP_MISPRED"],
                                [acc EXCEPT !.ins = m]}
      \/ /\ ld # NoIns
         /\ completeUnit(acc, i) = [ins |-> m, bad |-> ld, badInsID |-> ld,
                                    type |-> "MEM_MISPRED"]
  BY UnitResult
<1> HIDE DEF m, ld
<1>5. m \in [Ids -> InsState] /\ (ld # NoIns => ld \in Ids)
  BY <1>2 DEF m, ld
<1> QED BY <1>3, <1>4, <1>5 DEF AccState

LEMMA CompleteUnit ==
  ASSUME IInv, NEW acc \in AccState, NEW W \in SUBSET Units, NEW i \in Units,
         Processed(acc.ins, W), KeepsOldest(acc)
  PROVE  LET c == completeUnit(acc, i)
         IN Processed(c.ins, W \cup {i}) /\ KeepsOldest(c)
<1> DEFINE table == acc.ins
           m == Marked(table, i)
           ld == Load(table, i)
           c == completeUnit(acc, i)
           bad == acc.badInsID
<1>1. TypeOK /\ Ids \in SUBSET Nat /\ NoIns \notin Ids /\ table \in [Ids -> InsState]
      /\ i \in Ids /\ Units \subseteq Ids /\ InROB \subseteq Ids
      /\ bad \in Ids \cup {NoIns} /\ squashSN \in Ids \cup {0}
  BY Numbers, ElementTypes DEF IInv, AccState, TypeOK
<1>2. i \in InROB /\ ins[i].stage = "EXECUTE" /\ ~ins[i].memViolation
      /\ Op(i) \in {"ALU", "LOAD", "STORE"}
  <2>1. i \in InROB /\ ins[i].stage = "EXECUTE" /\ Lifecycle(i)
        /\ (ins[i].memViolation => Op(i) = "LOAD" /\ ins[i].lsq = "COMPLETE")
    BY DEF IInv, Stages
  <2>2. Op(i) \in {"ALU", "LOAD", "STORE"}
    BY <1>1, Numbers
  <2> QED BY <2>1, <2>2 DEF Lifecycle
<1>3. /\ m \in [Ids -> InsState]
      /\ \A j \in Ids : /\ m[j].cacheAxes = table[j].cacheAxes
                        /\ j # i => m[j].stage = table[j].stage /\ m[j].lsq = table[j].lsq
                        /\ j # ld => m[j].memViolation = table[j].memViolation
      /\ Op(i) = "ALU" => m[i].stage = "COMPLETE"
      /\ Op(i) = "LOAD" => m[i].stage = "MEM_ACCESS" /\ m[i].lsq = "PENDING_CACHE_DISPATCH"
      /\ Op(i) = "STORE" => m[i].stage = "COMPLETE" /\ m[i].lsq = "COMPLETE"
      /\ ld # NoIns => /\ Op(i) = "STORE" /\ ld \in Elements(LQ) /\ ld \in Ids /\ i < ld
                       /\ ld # i
                       /\ Addr(ld) = Addr(i) /\ table[ld].lsq = "COMPLETE"
                       /\ table[ld].cacheAxes /\ m[ld].memViolation
  BY <1>1, MarkedTable
<1> HIDE DEF m, ld, bad
(* The load is complete, so it is neither in a unit nor in W. *)
<1>4. ld # NoIns => /\ ld \in InROB /\ ld \in LoadIds /\ ins[ld].lsq = "COMPLETE"
                    /\ ins[ld].stage = "COMPLETE" /\ ld \notin Units /\ ins[ld].cacheAxes
                    /\ table[ld].stage = "COMPLETE"
  <2> SUFFICES ASSUME ld # NoIns
               PROVE  /\ ld \in InROB /\ ld \in LoadIds /\ ins[ld].lsq = "COMPLETE"
                      /\ ins[ld].stage = "COMPLETE" /\ ld \notin Units /\ ins[ld].cacheAxes
                      /\ table[ld].stage = "COMPLETE"
    OBVIOUS
  <2>1. ld \in Elements(LQ) /\ ld \in Ids /\ table[ld].lsq = "COMPLETE" /\ table[ld].cacheAxes
    BY <1>3
  <2>2. ld \in InROB /\ ld \in LoadIds /\ Op(ld) = "LOAD"
    BY <2>1 DEF IInv, LSQ, LoadIds
  <2>3. ld \notin W
    BY <2>1, <2>2 DEF Processed
  <2>4. ins[ld].lsq = "COMPLETE" /\ ins[ld].cacheAxes /\ table[ld].stage = ins[ld].stage
    BY <2>1, <2>3 DEF Processed
  <2>5. ins[ld].stage = "COMPLETE"
    BY <2>2, <2>4 DEF IInv, Stages, Lifecycle
  <2>6. ld \notin Units
    BY <2>5 DEF IInv, Stages
  <2> QED BY <2>2, <2>4, <2>5, <2>6
<1>5. ld # NoIns => MemModel[program] # "PERFECT"
  <2> SUFFICES ASSUME ld # NoIns, MemModel[program] = "PERFECT" PROVE FALSE
    OBVIOUS
  <2>1. i \in Elements(SQ) /\ i < ld /\ Addr(ld) = Addr(i)
    BY <1>3 DEF IInv, LSQ
  <2> QED BY <2>1, <1>4 DEF IInv, Disambiguated
<1>6. Processed(m, W \cup {i})
  <2>1. ASSUME NEW j \in Ids
        PROVE  /\ m[j].cacheAxes = ins[j].cacheAxes
               /\ ins[j].memViolation => m[j].memViolation
    <3>1. /\ table[j].cacheAxes = ins[j].cacheAxes
          /\ ins[j].memViolation => table[j].memViolation
      BY DEF Processed
    <3>2. CASE j = ld
      <4>1. ld # NoIns
        BY <3>2, <1>1
      <4>2. m[j].memViolation
        BY <3>2, <4>1, <1>3
      <4>3. m[j].cacheAxes = table[j].cacheAxes
        BY <1>3
      <4> QED BY <3>1, <4>2, <4>3
    <3>3. CASE j # ld
      <4>1. m[j].cacheAxes = table[j].cacheAxes /\ m[j].memViolation = table[j].memViolation
        BY <1>3, <3>3
      <4> QED BY <3>1, <4>1
    <3> QED BY <3>2, <3>3
  <2>2. ASSUME NEW j \in Ids \ (W \cup {i})
        PROVE  m[j].stage = ins[j].stage /\ m[j].lsq = ins[j].lsq
    BY <1>3 DEF Processed
  <2>3. ASSUME NEW j \in W \cup {i}
        PROVE /\ Op(j) = "ALU" => m[j].stage = "COMPLETE"
              /\ Op(j) = "LOAD" => /\ m[j].stage = "MEM_ACCESS"
                                   /\ m[j].lsq = "PENDING_CACHE_DISPATCH"
              /\ Op(j) = "STORE" => m[j].stage = "COMPLETE" /\ m[j].lsq = "COMPLETE"
    <3>1. CASE j = i
      BY <3>1, <1>3
    <3>2. CASE j # i
      <4>1. j \in W /\ j \in Ids
        BY <3>2, <1>1
      <4>2. m[j].stage = table[j].stage /\ m[j].lsq = table[j].lsq
        BY <3>2, <4>1, <1>3
      <4> QED BY <4>1, <4>2 DEF Processed
    <3> QED BY <3>1, <3>2
  <2>4. ASSUME NEW j \in Ids, m[j].memViolation
        PROVE  \/ ins[j].memViolation
               \/ /\ j \in Elements(LQ) /\ ins[j].lsq = "COMPLETE" /\ j \notin Units
                  /\ MemModel[program] # "PERFECT"
    <3>1. CASE j = ld
      <4>1. ld # NoIns
        BY <3>1, <1>1
      <4> QED BY <3>1, <4>1, <1>3, <1>4, <1>5
    <3>2. CASE j # ld
      BY <3>2, <2>4, <1>3 DEF Processed
    <3> QED BY <3>1, <3>2
  <2> QED BY <2>1, <2>2, <2>3, <2>4 DEF Processed
<1>7. ~m[i].memViolation
  BY <1>1, <1>2, <1>6 DEF Processed
<1>8. /\ \A j \in InROB : DetectedIn(table, j) => DetectedIn(m, j)
      /\ \A j \in InROB : DetectedIn(m, j) =>
           DetectedIn(table, j) \/ (j = i /\ WrongPath(i)) \/ (j = ld /\ ld # NoIns)
      /\ ld # NoIns => DetectedIn(m, ld)
  <2>1. ASSUME NEW j \in InROB, DetectedIn(table, j) PROVE DetectedIn(m, j)
    <3>1. j \in Ids /\ (table[j].memViolation => m[j].memViolation)
      BY <1>1, <1>3
    <3>2. CASE j = i
      <4>1. m[i].stage \in {"MEM_ACCESS", "COMPLETE"}
        BY <1>2, <1>3
      <4> QED BY <2>1, <3>1, <3>2, <4>1 DEF DetectedIn
    <3>3. CASE j # i
      BY <2>1, <3>1, <3>3, <1>3 DEF DetectedIn
    <3> QED BY <3>2, <3>3
  <2>2. ASSUME NEW j \in InROB, DetectedIn(m, j), j # ld
        PROVE  DetectedIn(table, j) \/ (j = i /\ WrongPath(i))
    BY <2>2, <1>1, <1>3 DEF DetectedIn
  <2> QED BY <2>1, <2>2, <1>1, <1>3 DEF DetectedIn
<1>9. \A j \in InROB : DetectedIn(table, j) => bad # NoIns /\ bad <= j
  BY DEF KeepsOldest, bad
<1>10. KeepsOldest(c) /\ c.ins = m
  <2> DEFINE olderThan(j) == bad = 0 \/ j < bad
  <2>0. /\ bad = NoIns => squashSN = 0
        /\ bad # NoIns => squashSN = 0 \/ bad <= squashSN
    <3>1. \/ acc.bad = NoIns /\ bad = squashSN
          \/ acc.bad = bad /\ acc.bad \in InROB /\ (squashSN = 0 \/ acc.bad < squashSN)
      BY DEF KeepsOldest, bad
    <3>2. CASE bad = squashSN
      <4>1. squashSN \in Nat
        BY <1>1
      <4> QED BY <3>2, <4>1 DEF NoIns
    <3>3. CASE bad \in InROB /\ (squashSN = 0 \/ bad < squashSN)
      <4>1. squashSN \in Nat /\ bad \in Nat /\ bad # NoIns
        BY <1>1, <3>3
      <4> QED BY <3>3, <4>1
    <3> QED BY <3>1, <3>2, <3>3
  <2>1. CASE WrongPath(i) /\ olderThan(i)
    <3>1. c = [ins |-> m, bad |-> i, badInsID |-> i, type |-> "BP_MISPRED"]
      BY <2>1, UnitResult DEF m, bad
    <3>2. c.ins = m /\ c.bad = i /\ c.badInsID = i /\ c.type = "BP_MISPRED"
      BY <3>1
    <3> HIDE DEF c
    <3>3. \A j \in InROB : DetectedIn(m, j) => i # NoIns /\ i <= j
      <4> TAKE j \in InROB
      <4>1. i \in Nat /\ i # NoIns /\ j \in Nat /\ (bad # NoIns => bad \in Nat)
        BY <1>1
      <4>2. DetectedIn(table, j) => i <= j
        BY <4>1, <1>9, <2>1 DEF NoIns
      <4> QED BY <4>1, <4>2, <1>8, <1>3
    <3>4. DetectedIn(m, i)
      BY <2>1, <1>2, <1>3 DEF DetectedIn
    <3>5. squashSN = 0 \/ i < squashSN
      <4>1. i \in Nat /\ squashSN \in Nat /\ (bad # NoIns => bad \in Nat)
        BY <1>1
      <4> QED BY <4>1, <2>0, <2>1 DEF NoIns
    <3> QED BY <3>2, <3>3, <3>4, <3>5, <1>2, <2>1 DEF KeepsOldest
  <2>2. CASE ~(WrongPath(i) /\ olderThan(i)) /\ ld # NoIns /\ olderThan(ld)
    <3>1. c = [ins |-> m, bad |-> ld, badInsID |-> ld, type |-> "MEM_MISPRED"]
      BY <2>2, <1>7, UnitResult DEF m, ld, bad
    <3>2. c.ins = m /\ c.bad = ld /\ c.badInsID = ld /\ c.type = "MEM_MISPRED"
      BY <3>1
    <3> HIDE DEF c
    <3>n. ld \in Nat /\ i \in Nat /\ squashSN \in Nat /\ (bad # NoIns => bad \in Nat)
          /\ i < ld
      <4>1. ld # NoIns
        BY <2>2
      <4>2. ld \in Ids /\ i < ld
        BY <4>1, <1>3
      <4>3. ld \in Nat /\ i \in Nat
        BY <4>2, <1>1
      <4>4. squashSN \in Nat /\ (bad # NoIns => bad \in Nat)
        BY <1>1
      <4> QED BY <4>2, <4>3, <4>4
    <3>3. ~WrongPath(i)
      BY <3>n, <2>2 DEF NoIns
    <3>4. ~WrongPath(ld)
      <4> SUFFICES ASSUME WrongPath(ld) PROVE FALSE
        OBVIOUS
      <4>1. DetectedIn(table, ld) /\ ld \in InROB
        BY <1>4, <2>2 DEF DetectedIn
      <4>2. bad # NoIns /\ bad <= ld
        BY <4>1, <1>9
      <4> QED BY <4>2, <3>n, <2>2 DEF NoIns
    <3>5. \A j \in InROB : DetectedIn(m, j) => ld # NoIns /\ ld <= j
      <4> TAKE j \in InROB
      <4>1. j \in Nat
        BY <1>1
      <4>2. DetectedIn(table, j) => ld <= j
        BY <4>1, <3>n, <1>9, <2>2 DEF NoIns
      <4> QED BY <4>1, <4>2, <3>n, <3>3, <1>8, <2>2
    <3>6. squashSN = 0 \/ ld < squashSN
      BY <3>n, <2>0, <2>2 DEF NoIns
    <3>7. ld \in InROB /\ DetectedIn(m, ld) /\ MemModel[program] # "PERFECT"
      BY <1>4, <1>5, <1>8, <2>2
    <3> QED BY <3>2, <3>4, <3>5, <3>6, <3>7 DEF KeepsOldest
  <2>3. CASE ~(WrongPath(i) /\ olderThan(i)) /\ ~(ld # NoIns /\ olderThan(ld))
    <3>1. c = [acc EXCEPT !.ins = m]
      BY <2>3, <1>7, UnitResult DEF m, ld, bad
    <3>2. c.ins = m /\ c.bad = acc.bad /\ c.badInsID = bad /\ c.type = acc.type
      BY <3>1 DEF AccState, bad
    <3> HIDE DEF c
    <3>3. \A j \in InROB : DetectedIn(m, j) => bad # NoIns /\ bad <= j
      <4> TAKE j \in InROB
      <4>1. j \in Nat /\ i \in Nat /\ (bad # NoIns => bad \in Nat)
            /\ (ld # NoIns => ld \in Nat)
        BY <1>1, <1>3
      <4>2. WrongPath(i) => bad # NoIns /\ bad <= i
        BY <4>1, <2>3 DEF NoIns
      <4>3. ld # NoIns => bad # NoIns /\ bad <= ld
        BY <4>1, <2>3 DEF NoIns
      <4> QED BY <4>2, <4>3, <1>8, <1>9
    <3>4. acc.bad \in InROB /\ DetectedIn(table, acc.bad) => DetectedIn(m, acc.bad)
      BY <1>8
    <3> QED BY <3>2, <3>3, <3>4 DEF KeepsOldest, bad
  <2> QED BY <2>1, <2>2, <2>3
<1> HIDE DEF c
<1> QED BY <1>6, <1>10 DEF c

(* The loop itself. *)
LEMMA CompleteSteps ==
  ASSUME IInv, NEW done \in SUBSET Units,
         NEW a \in AccState,
         a = [ins |-> ins, bad |-> NoIns, type |-> squashType,
              badInsID |-> IF pipe = "NORMAL" THEN 0 ELSE badInsID]
  PROVE  \E f \in [0 .. Width -> AccState] :
           /\ f[0] = a
           /\ \A e \in 1 .. Width :
                f[e] = IF EU[e] \in done THEN completeUnit(f[e - 1], EU[e]) ELSE f[e - 1]
           /\ completeIns(done) = f[Width]
<1> DEFINE N == Width
           Step == [p \in (1 .. N) \X AccState |->
                      IF EU[p[1]] \in done THEN completeUnit(p[2], EU[p[1]]) ELSE p[2]]
           Loop(f) == [e \in 0 .. N |->
                         IF e = 0 THEN a
                         ELSE IF EU[e] \in done THEN completeUnit(f[e - 1], EU[e])
                         ELSE f[e - 1]]
           after == CHOOSE f : f = Loop(f)
<1>0. N \in Nat /\ \A e \in 1 .. N : e - 1 \in 0 .. N /\ e # 0 /\ e \in 0 .. N
  BY SizesAssumption
<1>1. completeIns(done) = after[N]
  BY Zenon DEF completeIns
<1>t. TypeOK /\ done \subseteq Ids
  BY ElementTypes DEF IInv
<1> HIDE DEF N
<1>2. Step \in [(1 .. N) \X AccState -> AccState]
  <2>1. ASSUME NEW p \in (1 .. N) \X AccState
        PROVE  (IF EU[p[1]] \in done THEN completeUnit(p[2], EU[p[1]]) ELSE p[2]) \in AccState
    <3>1. p[2] \in AccState
      OBVIOUS
    <3>2. CASE EU[p[1]] \in done
      <4>1. EU[p[1]] \in Ids
        BY <3>2, <1>t
      <4>2. completeUnit(p[2], EU[p[1]]) \in AccState
        BY <4>1, <3>1, <1>t, CompleteUnitType
      <4> QED BY <3>2, <4>2
    <3> QED BY <3>1, <3>2
  <2> QED BY <2>1
<1>r. PICK f : Recursive(f, N, AccState, a, Step)
  <2> HIDE DEF Step
  <2> QED BY <1>0, <1>2, Recursion
<1>3. /\ f \in [0 .. N -> AccState]
      /\ f[0] = a /\ \A n \in 1 .. N : f[n] = Step[<<n, f[n - 1]>>]
  BY <1>r DEF Recursive
<1>4. ASSUME NEW e \in 1 .. N
      PROVE  f[e] = IF EU[e] \in done THEN completeUnit(f[e - 1], EU[e]) ELSE f[e - 1]
  <2>1. f[e - 1] \in AccState
    BY <1>0, <1>3
  <2>2. Step[<<e, f[e - 1]>>] =
          IF EU[e] \in done THEN completeUnit(f[e - 1], EU[e]) ELSE f[e - 1]
    BY <2>1
  <2> QED BY <2>2, <1>3
<1> HIDE DEF Step
<1>5. f = Loop(f)
  <2>1. \A n \in 0 .. N : f[n] = Loop(f)[n]
    <3> TAKE n \in 0 .. N
    <3>1. CASE n = 0
      BY <3>1, <1>3
    <3>2. CASE n # 0
      <4>1. n \in 1 .. N
        BY <3>2, <1>0
      <4> QED BY <4>1, <3>2, <1>4
    <3> QED BY <3>1, <3>2
  <2>2. f \in [0 .. N -> AccState] /\ DOMAIN Loop(f) = 0 .. N
    BY <1>3
  <2>3. Loop(f) = [n \in 0 .. N |-> Loop(f)[n]] /\ f = [n \in 0 .. N |-> f[n]]
    BY <2>2, Zenon
  <2> HIDE DEF Loop
  <2> QED BY <2>1, <2>3, Zenon
<1>6. after = Loop(after)
  <2> HIDE DEF Loop
  <2> QED BY <1>5, Zenon
<1> HIDE DEF after
<1>7. /\ after[0] = a
      /\ \A e \in 1 .. N : after[e] = IF EU[e] \in done
                                      THEN completeUnit(after[e - 1], EU[e])
                                      ELSE after[e - 1]
  <2>1. \A e \in 0 .. N : after[e] = IF e = 0 THEN a
                                     ELSE IF EU[e] \in done
                                     THEN completeUnit(after[e - 1], EU[e])
                                     ELSE after[e - 1]
    BY <1>6
  <2>2. after[0] = a
    BY <2>1, <1>0
  <2>3. \A e \in 1 .. N : after[e] = IF EU[e] \in done
                                     THEN completeUnit(after[e - 1], EU[e])
                                     ELSE after[e - 1]
    BY <2>1, <1>0
  <2> QED BY <2>2, <2>3
<1>8. \A e \in 0 .. N : after[e] = f[e]
  <2> DEFINE G == {e \in 0 .. N : after[e] = f[e]}
  <2>1. 0 \in G
    BY <1>0, <1>3, <1>7
  <2>2. ASSUME NEW e \in 1 .. N, e - 1 \in G PROVE e \in G
    BY <2>2, <1>0, <1>4, <1>7
  <2>3. \A e \in 0 .. N : e \in G
    <3> HIDE DEF G
    <3> QED BY <1>0, <2>1, <2>2, UpTo
  <2> QED BY <2>3
<1>9. completeIns(done) = f[N]
  BY <1>0, <1>1, <1>8
<1> QED BY <1>3, <1>4, <1>9 DEF N

LEMMA CompleteResult ==
  ASSUME IInv, NEW done \in SUBSET Units
  PROVE  LET c == completeIns(done)
         IN c \in AccState /\ Processed(c.ins, done) /\ KeepsOldest(c)
<1> DEFINE a == [ins |-> ins, bad |-> NoIns, type |-> squashType,
                 badInsID |-> IF pipe = "NORMAL" THEN 0 ELSE badInsID]
<1>1. TypeOK /\ Ids \in SUBSET Nat /\ Width \in Nat /\ EU \in [1 .. Width -> Ids \cup {NoIns}]
      /\ InROB \subseteq Ids /\ Units \subseteq Ids
  BY Numbers, SizesAssumption, ElementTypes DEF IInv, TypeOK
<1>2. a.badInsID = squashSN
  BY DEF IInv, Squashing
<1>3. a \in AccState
  <2>1. ins \in [Ids -> InsState] /\ squashType \in SquashType /\ badInsID \in Ids \cup {0}
    BY <1>1 DEF TypeOK, InsState
  <2> QED BY <2>1 DEF AccState, NoIns
<1>4. Processed(a.ins, {})
  BY DEF Processed
<1>5. KeepsOldest(a)
  <2>1. \A i \in InROB : DetectedIn(a.ins, i) => a.badInsID # NoIns /\ a.badInsID <= i
    <3> TAKE i \in InROB
    <3>1. DetectedIn(a.ins, i) => pipe # "NORMAL" /\ squashSN <= i
      BY DEF IInv, Squashing, Detected, DetectedIn
    <3>2. pipe # "NORMAL" => squashSN # 0
      BY DEF IInv, Squashing
    <3> QED BY <3>1, <3>2, <1>2 DEF NoIns
  <2>2. a.bad = NoIns /\ a.badInsID = squashSN /\ a.type = squashType
    BY <1>2
  <2>3. MemModel[program] = "PERFECT" => a.type # "MEM_MISPRED"
    BY DEF IInv, Disambiguated
  <2> HIDE DEF a
  <2> QED BY <2>1, <2>2, <2>3 DEF KeepsOldest
<1> HIDE DEF a
<1>6. PICK f \in [0 .. Width -> AccState] :
           /\ f[0] = a
           /\ \A e \in 1 .. Width :
                f[e] = IF EU[e] \in done THEN completeUnit(f[e - 1], EU[e]) ELSE f[e - 1]
           /\ completeIns(done) = f[Width]
  BY <1>3, CompleteSteps DEF a
<1> DEFINE W(e) == {EU[d] : d \in 1 .. e} \cap done
           G == {e \in 0 .. Width : Processed(f[e].ins, W(e)) /\ KeepsOldest(f[e])}
<1>7. 0 \in G
  <2>1. W(0) = {}
    OBVIOUS
  <2> HIDE DEF W
  <2>2. Processed(f[0].ins, W(0)) /\ KeepsOldest(f[0])
    BY <2>1, <1>4, <1>5, <1>6
  <2> QED BY <2>2, <1>1
<1>8. ASSUME NEW e \in 1 .. Width, e - 1 \in G PROVE e \in G
  <2>1. e \in 0 .. Width /\ e - 1 \in 0 .. Width /\ 1 .. e = (1 .. e - 1) \cup {e}
    BY <1>1
  <2>2. /\ f[e - 1] \in AccState /\ Processed(f[e - 1].ins, W(e - 1)) /\ KeepsOldest(f[e - 1])
    BY <1>6, <1>8, <2>1
  <2>3. {EU[d] : d \in 1 .. e} = {EU[d] : d \in 1 .. e - 1} \cup {EU[e]}
    BY <2>1
  <2>4. CASE EU[e] \in done
    <3>1. f[e] = completeUnit(f[e - 1], EU[e])
      BY <2>4, <1>6
    <3>2. W(e) = W(e - 1) \cup {EU[e]}
      BY <2>3, <2>4
    <3>3. W(e - 1) \in SUBSET Units /\ EU[e] \in Units
      BY <2>4
    <3> HIDE DEF W
    <3>4. Processed(f[e].ins, W(e - 1) \cup {EU[e]}) /\ KeepsOldest(f[e])
      BY <2>2, <3>1, <3>3, CompleteUnit
    <3> QED BY <2>1, <3>2, <3>4
  <2>5. CASE EU[e] \notin done
    <3>1. f[e] = f[e - 1]
      BY <2>5, <1>6
    <3>2. W(e) = W(e - 1)
      BY <2>3, <2>5
    <3> QED BY <2>1, <2>2, <3>1, <3>2
  <2> QED BY <2>4, <2>5
<1>9. Width \in G
  <2>1. \A e \in 0 .. Width : e \in G
    <3> HIDE DEF G
    <3> QED BY <1>1, <1>7, <1>8, UpTo
  <2> HIDE DEF G
  <2> QED BY <2>1, <1>1
<1>10. W(Width) = done
  <2>1. \A i \in Units : \E e \in 1 .. Width : i = EU[e]
    <3>1. Len(EU) = Width
      BY <1>1
    <3> QED BY <3>1 DEF Units, Elements
  <2> QED BY <2>1
<1>11. f[Width] \in AccState
  BY <1>1, <1>6
<1> QED BY <1>6, <1>9, <1>10, <1>11

LEMMA Issue ==
  ASSUME IInv, NEW done \in SUBSET Units, NEW k \in 0 .. Len(issuePort),
         LET units == [e \in 1 .. Width |-> IF EU[e] \in done THEN NoIns ELSE EU[e]]
             free == {e \in 1 .. Width : units[e] = NoIns}
             nth(e) == Cardinality({f \in free : f <= e})
         IN /\ k <= Cardinality(free)
            /\ EU' = [e \in 1 .. Width |-> IF e \in free /\ nth(e) <= k
                                           THEN issuePort[nth(e)] ELSE units[e]]
  PROVE  /\ EU' \in [1 .. Width -> Ids \cup {NoIns}]
         /\ Units' = (Units \ done) \cup Elements(Take(issuePort, k))
<1> DEFINE units == [e \in 1 .. Width |-> IF EU[e] \in done THEN NoIns ELSE EU[e]]
           free == {e \in 1 .. Width : units[e] = NoIns}
           nth(e) == Cardinality({f \in free : f <= e})
<1>1. /\ Width \in Nat /\ EU \in [1 .. Width -> Ids \cup {NoIns}] /\ NoIns \notin Ids
      /\ issuePort \in Seq(Ids)
  BY Numbers, SizesAssumption, QueueTypes DEF IInv, TypeOK
<1>2. /\ k <= Cardinality(free)
      /\ EU' = [e \in 1 .. Width |-> IF e \in free /\ nth(e) <= k
                                     THEN issuePort[nth(e)] ELSE units[e]]
  OBVIOUS
<1>3. /\ Cardinality(free) \in Nat
      /\ \A e \in free : nth(e) \in Nat \ {0}
      /\ \A n \in 1 .. Cardinality(free) : \E e \in free : nth(e) = n
  <2>1. free \in SUBSET (1 .. Width)
    OBVIOUS
  <2> HIDE DEF free
  <2> QED BY <2>1, <1>1, Ranks, ZenonT(60)
<1>4. \A e \in 1 .. Width : units[e] \in Ids \cup {NoIns}
  BY <1>1
<1>5. free \subseteq 1 .. Width /\ \A e \in 1 .. Width : e \notin free <=> units[e] # NoIns
  OBVIOUS
<1>6. \A e \in 1 .. Width : units[e] = IF EU[e] \in done THEN NoIns ELSE EU[e]
  OBVIOUS
<1> HIDE DEF units, free, nth
<1>7. Elements(Take(issuePort, k)) = {issuePort[n] : n \in 1 .. k}
  BY <1>1, TakeDropElements
<1>8. \A n \in 1 .. k : issuePort[n] \in Ids
  BY <1>1
<1>9. \A e \in 1 .. Width :
        /\ e \in free /\ nth(e) <= k => nth(e) \in 1 .. k /\ EU'[e] = issuePort[nth(e)]
        /\ ~(e \in free /\ nth(e) <= k) => EU'[e] = units[e]
  <2> TAKE e \in 1 .. Width
  <2>1. EU'[e] = IF e \in free /\ nth(e) <= k THEN issuePort[nth(e)] ELSE units[e]
    BY <1>2
  <2>2. e \in free /\ nth(e) <= k => nth(e) \in 1 .. k
    <3>1. k \in Nat
      BY <1>1
    <3> QED BY <3>1, <1>3
  <2> QED BY <2>1, <2>2
<1>10. EU' \in [1 .. Width -> Ids \cup {NoIns}]
  <2>1. \A e \in 1 .. Width : EU'[e] \in Ids \cup {NoIns}
    BY <1>4, <1>8, <1>9
  <2>2. EU' = [e \in 1 .. Width |-> EU'[e]]
    BY <1>2
  <2> QED BY <2>1, <2>2
<1>11. Units = {EU[e] : e \in 1 .. Width} \ {NoIns}
  <2>1. Len(EU) = Width
    BY <1>1
  <2> QED BY <2>1 DEF Units, Elements
<1>12. Units' = {EU'[e] : e \in 1 .. Width} \ {NoIns}
  <2>1. Len(EU') = Width
    BY <1>1, <1>10
  <2> QED BY <2>1 DEF Units, Elements
<1>13. ASSUME NEW i \in Units' PROVE i \in (Units \ done) \cup Elements(Take(issuePort, k))
  <2>1. PICK e \in 1 .. Width : i = EU'[e] /\ i # NoIns
    BY <1>12
  <2>2. CASE e \in free /\ nth(e) <= k
    BY <2>1, <2>2, <1>7, <1>9
  <2>3. CASE ~(e \in free /\ nth(e) <= k)
    BY <2>1, <2>3, <1>6, <1>9, <1>11
  <2> QED BY <2>2, <2>3
<1>14. ASSUME NEW i \in Units \ done PROVE i \in Units'
  <2>1. PICK e \in 1 .. Width : i = EU[e] /\ i # NoIns
    BY <1>11
  <2>2. units[e] = i /\ e \notin free
    BY <2>1, <1>5, <1>6
  <2> QED BY <2>1, <2>2, <1>9, <1>12
<1>15. ASSUME NEW i \in Elements(Take(issuePort, k)) PROVE i \in Units'
  <2>1. PICK n \in 1 .. k : i = issuePort[n]
    BY <1>7
  <2>2. n \in 1 .. Cardinality(free)
    BY <1>1, <1>2, <1>3
  <2>3. PICK e \in free : nth(e) = n
    BY <2>2, <1>3
  <2>4. EU'[e] = i /\ i # NoIns /\ e \in 1 .. Width
    <3>1. e \in 1 .. Width /\ nth(e) <= k /\ n \in Nat
      BY <2>3, <1>1, <1>5
    <3>2. EU'[e] = issuePort[n]
      BY <3>1, <2>3, <1>9
    <3>3. i \in Ids
      BY <2>1, <1>8
    <3> QED BY <3>1, <3>2, <3>3, <2>1, <1>1
  <2> QED BY <2>4, <1>12
<1> QED BY <1>10, <1>13, <1>14, <1>15

LEMMA ExecuteStep ==
  ASSUME IInv, doEXECUTION
  PROVE  IInv'
<1> USE DEF frontVars, history
<1>u. UNCHANGED <<program, supplied, codeCache, retired, deleted, iQUE, fetchPort,
                  decodePort, resStn, ROB, LQ, SQ>>
  BY DEF doEXECUTION
<1>t. /\ Ids' = Ids /\ RightPathIds' = RightPathIds /\ LoadIds' = LoadIds
      /\ StoreIds' = StoreIds
  BY <1>u, ProgramStays
<1>3. TypeOK /\ Ids \in SUBSET Nat /\ NoIns \notin Ids
  BY Numbers DEF IInv
<1>e. /\ Fetched' = Fetched /\ InROB' = InROB /\ Traced' = Traced /\ Window' = Window
  BY <1>u DEF Fetched, InROB, Traced, Window
<1>1. turn = "EXECUTE" /\ turn' = IF pipe' = "SQUASH_ROB" THEN "SQUASH" ELSE "SCHEDULE"
  BY DEF doEXECUTION
<1>2. PICK done \in SUBSET (Elements(EU) \ {NoIns}), k \in 0 .. Width :
         LET c == completeIns(done)
             sn == setSquashSN(c.bad)
             units == [e \in 1 .. Width |-> IF EU[e] \in done THEN NoIns ELSE EU[e]]
             free == {e \in 1 .. Width : units[e] = NoIns}
             nth(e) == Cardinality({f \in free : f <= e})
         IN
         /\ pipe = "FLUSH" => done = {}
         /\ sn # squashSN \/ pipe \in {"WAIT_FLUSH", "FLUSH"} => k = 0
         /\ k <= Len(issuePort) /\ k <= Cardinality(free)
         /\ EU' = [e \in 1 .. Width |-> IF e \in free /\ nth(e) <= k
                                        THEN issuePort[nth(e)] ELSE units[e]]
         /\ issuePort' = Drop(issuePort, k)
         /\ ins' = AtStage(Elements(Take(issuePort, k)), "EXECUTE", c.ins)
         /\ badInsID' = c.badInsID
         /\ squashCtrl(sn, c.type, EU')
  BY Zenon DEF doEXECUTION
<1> DEFINE c == completeIns(done)
           sn == setSquashSN(c.bad)
           new == Take(issuePort, k)
           I == Elements(new)
<1>4. /\ pipe = "FLUSH" => done = {}
      /\ sn # squashSN \/ pipe \in {"WAIT_FLUSH", "FLUSH"} => k = 0
      /\ k <= Len(issuePort)
      /\ issuePort' = Drop(issuePort, k)
      /\ ins' = AtStage(I, "EXECUTE", c.ins)
      /\ badInsID' = c.badInsID
      /\ squashCtrl(sn, c.type, EU')
  BY <1>2
<1>5. done \in SUBSET Units
  BY DEF Units
<1>6. issuePort \in Seq(Ids) /\ Distinct(issuePort) /\ k \in 0 .. Len(issuePort)
  <2>1. issuePort \in Seq(Ids) /\ Distinct(issuePort) /\ Width \in Nat
    BY <1>3, QueueTypes, SizesAssumption DEF IInv, InOrder
  <2> QED BY <2>1, <1>4
<1>7. /\ EU' \in [1 .. Width -> Ids \cup {NoIns}]
      /\ Units' = (Units \ done) \cup I
  BY <1>2, <1>5, <1>6, Issue
<1>8. /\ issuePort' \in Seq(Ids) /\ Distinct(issuePort') /\ Len(issuePort') <= PortLen
      /\ Elements(issuePort') = Elements(issuePort) \ I
      /\ I \subseteq Elements(issuePort)
      /\ k = 0 => I = {}
  <2>1. /\ Drop(issuePort, k) \in Seq(Ids)
        /\ Len(Drop(issuePort, k)) = Len(issuePort) - k
        /\ new \in Seq(Ids) /\ Len(new) = k
    BY <1>6, TakeDrop
  <2>2. /\ Distinct(Drop(issuePort, k))
        /\ Elements(Drop(issuePort, k)) = Elements(issuePort) \ I
    BY <1>6, DistinctTakeDrop
  <2>3. I \subseteq Elements(issuePort)
    BY <1>6, TakeDropElements
  <2>4. k = 0 => I = {}
    <3> HIDE DEF new
    <3> QED BY <2>1, ElementsIn
  <2>5. Len(issuePort) <= PortLen /\ PortLen \in Nat /\ Len(issuePort) \in Nat
    BY <1>3, <1>6, Sizes
  <2> QED BY <1>4, <1>6, <2>1, <2>2, <2>3, <2>4, <2>5
<1> HIDE DEF I
<1>9. c \in AccState /\ Processed(c.ins, done) /\ KeepsOldest(c)
  BY <1>5, CompleteResult
<1> HIDE DEF c
<1>10. /\ Elements(issuePort) \subseteq InROB /\ Units \subseteq InROB /\ InROB \subseteq Ids
       /\ I \subseteq InROB /\ done \subseteq InROB /\ InROB \subseteq Fetched
       /\ \A i \in I : ins[i].stage = "ISSUE"
       /\ \A i \in Units : ins[i].stage = "EXECUTE"
       /\ I \cap Units = {} /\ I \cap done = {}
  <2>1. /\ Elements(issuePort) \subseteq InROB /\ Units \subseteq InROB
        /\ InROB \subseteq Fetched
        /\ \A i \in Elements(issuePort) : ins[i].stage = "ISSUE"
        /\ \A i \in Units : ins[i].stage = "EXECUTE"
    BY DEF IInv, Stages, WindowOrder, Window
  <2>2. InROB \subseteq Ids
    BY <1>3, ElementTypes
  <2> QED BY <1>5, <1>8, <2>1, <2>2
(* What becomes of each instruction. *)
<1>11. /\ ins' \in [Ids -> InsState]
       /\ \A i \in I : ins'[i].stage = "EXECUTE" /\ ins'[i].lsq = ins[i].lsq
       /\ \A i \in Ids \ I : ins'[i] = c.ins[i]
       /\ \A i \in Ids : /\ ins'[i].memViolation = c.ins[i].memViolation
                         /\ ins'[i].cacheAxes = ins[i].cacheAxes
                         /\ ins'[i].lsq = c.ins[i].lsq
  <2> DEFINE table == c.ins
             t == AtStage(I, "EXECUTE", table)
  <2>1. table \in [Ids -> InsState] /\ I \in SUBSET Ids /\ "EXECUTE" \in Stage
    BY <1>9, <1>10 DEF AccState, Stage
  <2>2. /\ t \in [Ids -> InsState]
        /\ \A i \in Ids \ I : t[i] = table[i]
        /\ \A i \in I : t[i].stage = "EXECUTE"
        /\ \A i \in Ids : /\ t[i].lsq = table[i].lsq
                          /\ t[i].memViolation = table[i].memViolation
                          /\ t[i].cacheAxes = table[i].cacheAxes
    <3> HIDE DEF table
    <3> QED BY <2>1, AtStageTable
  <2>3. \A i \in I : i \in Ids \ done
    BY <1>10
  <2>4. /\ \A i \in Ids : c.ins[i].cacheAxes = ins[i].cacheAxes
        /\ \A i \in Ids \ done : c.ins[i].lsq = ins[i].lsq
    BY <1>9 DEF Processed
  <2>5. ins' = t
    BY <1>4
  <2> HIDE DEF t
  <2> QED BY <2>2, <2>3, <2>4, <2>5
<1>12. \A i \in Ids \ InROB : ins'[i] = ins[i]
  <2> TAKE i \in Ids \ InROB
  <2>1. i \notin I /\ i \notin done /\ i \notin Elements(LQ)
    BY <1>10 DEF IInv, LSQ
  <2>2. ins'[i] = c.ins[i] /\ ins'[i] \in InsState /\ ins[i] \in InsState
    BY <1>3, <1>11, <2>1 DEF TypeOK, InsState
  <2>3. /\ c.ins[i].stage = ins[i].stage /\ c.ins[i].lsq = ins[i].lsq
        /\ c.ins[i].cacheAxes = ins[i].cacheAxes
        /\ ins[i].memViolation => c.ins[i].memViolation
        /\ c.ins[i].memViolation => ins[i].memViolation
    BY <1>9, <2>1 DEF Processed
  <2>4. ins'[i].memViolation = ins[i].memViolation
    BY <2>2, <2>3 DEF InsState
  <2> QED BY <2>2, <2>3, <2>4 DEF InsState
<1>13. \A i \in InROB : /\ Lifecycle(i) /\ Op(i) \in {"ALU", "LOAD", "STORE"}
                        /\ ins[i].stage = "EXECUTE" => i \in Units
                        /\ ins[i].memViolation => Op(i) = "LOAD" /\ ins[i].lsq = "COMPLETE"
  BY <1>3, <1>10, Numbers DEF IInv, Stages
<1>14. ASSUME NEW i \in InROB
       PROVE  /\ i \in I => ins'[i].stage = "EXECUTE" /\ ins'[i].lsq = ins[i].lsq
              /\ i \in done =>
                   /\ Op(i) = "ALU" => ins'[i].stage = "COMPLETE"
                   /\ Op(i) = "LOAD" => /\ ins'[i].stage = "MEM_ACCESS"
                                        /\ ins'[i].lsq = "PENDING_CACHE_DISPATCH"
                   /\ Op(i) = "STORE" => ins'[i].stage = "COMPLETE" /\ ins'[i].lsq = "COMPLETE"
              /\ i \notin I \cup done => ins'[i].stage = ins[i].stage /\ ins'[i].lsq = ins[i].lsq
              /\ ins'[i].memViolation =>
                   /\ Op(i) = "LOAD" /\ ins[i].lsq = "COMPLETE" /\ i \notin Units
                   /\ ins[i].memViolation \/ MemModel[program] # "PERFECT"
  <2>1. i \in Ids
    BY <1>10
  <2>2. i \in done => ins'[i] = c.ins[i]
    BY <1>10, <1>11, <2>1
  <2>3. i \notin I \cup done => ins'[i] = c.ins[i] /\ i \in Ids \ done
    BY <1>11, <2>1
  <2>4. ASSUME ins'[i].memViolation
        PROVE  /\ Op(i) = "LOAD" /\ ins[i].lsq = "COMPLETE" /\ i \notin Units
               /\ ins[i].memViolation \/ MemModel[program] # "PERFECT"
    <3>1. c.ins[i].memViolation
      BY <1>11, <2>1, <2>4
    <3>2. CASE ins[i].memViolation
      <4>1. Op(i) = "LOAD" /\ ins[i].lsq = "COMPLETE"
        BY <3>2, <1>13
      <4>2. ins[i].stage = "COMPLETE"
        BY <4>1, <1>13 DEF Lifecycle
      <4> QED BY <3>2, <4>1, <4>2, <1>10
    <3>3. CASE ~ins[i].memViolation
      <4>1. i \in Elements(LQ) /\ ins[i].lsq = "COMPLETE" /\ i \notin Units
            /\ MemModel[program] # "PERFECT"
        BY <3>1, <3>3, <2>1, <1>9 DEF Processed
      <4> QED BY <4>1 DEF IInv, LSQ, LoadIds
    <3> QED BY <3>2, <3>3
  <2> QED BY <1>9, <1>11, <2>2, <2>3, <2>4 DEF Processed
(* The squash number and the state it leaves the pipeline in. *)
<1>15. /\ sn = c.badInsID
       /\ sn # squashSN => sn # 0 /\ (squashSN = 0 \/ sn < squashSN)
  <2>1. CASE c.bad = NoIns
    BY <2>1, <1>9 DEF setSquashSN, KeepsOldest, NoIns
  <2>2. CASE c.bad # NoIns
    BY <2>2, <1>9 DEF setSquashSN, KeepsOldest, NoIns
  <2> QED BY <2>1, <2>2
<1> HIDE DEF sn
<1>16. \/ /\ sn # squashSN
          /\ pipe' = "WAIT_FLUSH" /\ squashSN' = sn /\ squashType' = c.type
       \/ /\ sn = squashSN /\ pipe \in {"NORMAL", "SQUASH_ROB"}
          /\ pipe' = "NORMAL" /\ squashSN' = 0 /\ squashType' = "NO_MISPRED"
       \/ /\ sn = squashSN /\ squashSN' = sn /\ squashType' = c.type
          /\ \/ pipe = "WAIT_FLUSH" /\ pipe' = "WAIT_FLUSH"
             \/ /\ pipe = "WAIT_FLUSH" /\ pipe' = "FLUSH"
                /\ \A e \in 1 .. Width : EU'[e] = NoIns
             \/ pipe = "FLUSH" /\ pipe' = "DRAIN"
             \/ pipe = "DRAIN" /\ ROB # << >> /\ ROB[1] >= sn /\ pipe' = "SQUASH_ROB"
             \/ pipe = "DRAIN" /\ pipe' = "DRAIN"
  <2>1. pipe = "SQUASH_ROB" => ROB = << >>
    BY <1>1 DEF IInv, Squashing
  <2>2. squashCtrl(sn, c.type, EU')
    BY <1>4
  <2>3. CASE sn # squashSN
    BY <2>2, <2>3 DEF squashCtrl
  <2>4. CASE sn = squashSN /\ pipe \in {"NORMAL", "SQUASH_ROB"}
    BY <2>1, <2>2, <2>4 DEF squashCtrl
  <2>5. CASE sn = squashSN /\ pipe \notin {"NORMAL", "SQUASH_ROB"}
    BY <2>2, <2>5 DEF squashCtrl
  <2> QED BY <2>3, <2>4, <2>5
<1>17. pipe = "SQUASH_ROB" => InROB = {} /\ Fetched = {}
  BY <1>1, EmptyQueue DEF IInv, Squashing, InROB, Fetched
<1>18. squashSN = 0 <=> pipe = "NORMAL"
  BY DEF IInv, Squashing
<1>19. pipe' = "NORMAL" => /\ squashSN' = 0 /\ squashType' = "NO_MISPRED" /\ sn = squashSN
                           /\ InROB = {} \/ sn = 0
                           /\ pipe = "NORMAL" \/ (InROB = {} /\ Fetched = {})
  BY <1>16, <1>17, <1>18
<1>20. pipe' # "NORMAL" => /\ squashSN' = sn /\ sn # 0 /\ squashType' = c.type
  BY <1>15, <1>16, <1>18
<1>21. /\ pipe' \in {"DRAIN", "SQUASH_ROB"} => pipe \in {"FLUSH", "DRAIN"} /\ squashSN' = squashSN
       /\ pipe' = "DRAIN" /\ pipe = "FLUSH" => k = 0
       /\ pipe' = "SQUASH_ROB" => pipe = "DRAIN"
  BY <1>4, <1>16
<1>22. pipe' = "FLUSH" => Units' = {}
  <2> SUFFICES ASSUME pipe' = "FLUSH" PROVE Units' = {}
    OBVIOUS
  <2>1. \A e \in 1 .. Width : EU'[e] = NoIns
    BY <1>16
  <2>2. Len(EU') = Width
    BY <1>7, SizesAssumption
  <2> QED BY <2>1, <2>2 DEF Units, Elements
<1>23. \A i \in InROB : DetectedIn(c.ins, i) <=> DetectedIn(ins', i)
  <2> TAKE i \in InROB
  <2>1. i \in Ids
    BY <1>10
  <2>2. CASE i \in I
    <3>1. ins'[i].stage = "EXECUTE" /\ c.ins[i].stage = "ISSUE"
          /\ ins'[i].memViolation = c.ins[i].memViolation
      BY <2>1, <2>2, <1>9, <1>10, <1>11 DEF Processed
    <3> QED BY <3>1, <2>1 DEF DetectedIn
  <2>3. CASE i \notin I
    <3>1. ins'[i] = c.ins[i]
      BY <2>1, <2>3, <1>11
    <3> QED BY <3>1, <2>1 DEF DetectedIn
  <2> QED BY <2>2, <2>3
<1>24. pipe' # "NORMAL" => Culprit'
  <2> SUFFICES ASSUME pipe' # "NORMAL" PROVE Culprit'
    OBVIOUS
  <2>1. CASE c.bad # NoIns
    <3>1. /\ c.bad = sn /\ sn \in InROB /\ DetectedIn(c.ins, sn)
          /\ c.type = IF WrongPath(sn) THEN "BP_MISPRED" ELSE "MEM_MISPRED"
      BY <2>1, <1>9, <1>15 DEF KeepsOldest
    <3>2. DetectedIn(ins', sn)
      BY <3>1, <1>23
    <3>3. Detected(squashSN)'
      BY <3>2, <1>20, <1>u DEF Detected, DetectedIn, WrongPath
    <3> QED BY <3>1, <3>3, <1>20, <1>e, <1>u DEF Culprit, WrongPath
  <2>2. CASE c.bad = NoIns
    <3>1. sn = squashSN /\ c.type = squashType
      BY <2>2, <1>9, <1>15, <1>3, <1>10 DEF KeepsOldest
    <3>2. pipe \in {"WAIT_FLUSH", "FLUSH", "DRAIN"}
      BY <3>1, <1>16
    <3>3. Culprit
      BY <3>2 DEF IInv, Squashing
    <3>4. squashSN \in InROB /\ squashSN \in Ids /\ Detected(squashSN)
      BY <3>3, <1>10 DEF Culprit
    <3>5. DetectedIn(c.ins, squashSN)
      <4>1. ins[squashSN].memViolation => c.ins[squashSN].memViolation
        BY <3>4, <1>9 DEF Processed
      <4>2. ins[squashSN].stage \in {"MEM_ACCESS", "COMPLETE"} =>
              c.ins[squashSN].stage = ins[squashSN].stage
        BY <3>4, <1>5, <1>9, <1>10 DEF Processed
      <4> QED BY <3>4, <4>1, <4>2 DEF Detected, DetectedIn
    <3>6. DetectedIn(ins', squashSN)
      BY <3>4, <3>5, <1>23
    <3>7. Detected(squashSN)'
      BY <3>1, <3>6, <1>20, <1>u DEF Detected, DetectedIn, WrongPath
    <3> QED BY <3>1, <3>3, <3>4, <3>7, <1>20, <1>e, <1>u DEF Culprit, WrongPath
  <2> QED BY <2>1, <2>2
<1>25. pipe' = "SQUASH_ROB" => \A i \in Fetched : squashSN' <= i
  <2> SUFFICES ASSUME pipe' = "SQUASH_ROB", NEW i \in Fetched PROVE squashSN <= i
    BY <1>21
  <2>1. ROB # << >> /\ ROB[1] >= squashSN /\ pipe = "DRAIN"
    BY <1>16
  <2>2. ROB \in Seq(Ids) /\ Increasing(ROB) /\ Len(ROB) \in Nat /\ Len(ROB) # 0
    BY <1>3, <2>1, QueueTypes, ElementsIn DEF IInv, InOrder
  <2>3. ROB[1] \in InROB /\ ROB[1] \in Nat /\ \A j \in InROB : j \in Nat /\ ROB[1] <= j
    <3>1. 1 \in 1 .. Len(ROB) /\ ROB[1] \in Ids
      BY <2>2
    <3>2. ASSUME NEW j \in InROB PROVE j \in Nat /\ ROB[1] <= j
      <4>1. PICK n \in 1 .. Len(ROB) : j = ROB[n]
        BY DEF InROB, Elements
      <4>2. j \in Nat /\ ROB[1] \in Nat
        BY <1>3, <1>10, <3>1
      <4>3. CASE n = 1
        BY <4>1, <4>2, <4>3
      <4>4. CASE n # 1
        <5>1. 1 < n
          BY <2>2, <4>4
        <5>2. ROB[1] < ROB[n]
          BY <5>1, <2>2, <3>1 DEF Increasing
        <5> QED BY <4>1, <4>2, <5>2
      <4> QED BY <4>3, <4>4
    <3> QED BY <3>1, <3>2, <1>3 DEF InROB, Elements
  <2>4. squashSN \in InROB /\ DownClosed(InROB, Fetched)
    BY <2>1 DEF IInv, Squashing, Culprit, WindowOrder
  <2>5. i \in Nat /\ squashSN \in Nat
    BY <1>3, <1>10, <2>4, ElementTypes
  <2>6. i < squashSN => i \in InROB
    BY <2>4 DEF DownClosed
  <2> QED BY <2>1, <2>3, <2>5, <2>6
<1>26. \A i \in InROB : pipe' = "NORMAL" \/ i < squashSN' => pipe = "NORMAL" \/ i < squashSN
  <2> TAKE i \in InROB
  <2>1. CASE pipe' = "NORMAL"
    BY <2>1, <1>19
  <2>2. CASE pipe' # "NORMAL"
    <3>1. squashSN' = sn /\ (sn = squashSN \/ squashSN = 0 \/ sn < squashSN)
      BY <2>2, <1>15, <1>20
    <3>2. sn \in Nat /\ squashSN \in Nat /\ i \in Nat
      <4>1. sn \in Ids \cup {0}
        BY <1>9, <1>15 DEF AccState, NoIns
      <4>2. squashSN \in Ids \cup {0} /\ i \in Ids
        BY <1>3, <1>10 DEF TypeOK
      <4> QED BY <4>1, <4>2, <1>3
    <3> QED BY <2>2, <3>1, <3>2, <1>18
  <2> QED BY <2>1, <2>2
<1> USE <1>u, <1>t, <1>e
<1>27. TypeOK'
  <2>1. ins' \in [Ids' -> [stage : Stage, lsq : LsqState,
                      memViolation : BOOLEAN, cacheAxes : BOOLEAN]]
    BY <1>11 DEF InsState
  <2>2. \A q \in {codeCache', iQUE', fetchPort', decodePort', resStn', issuePort',
                  ROB', LQ', SQ', retired'} : q \in Seq(Ids')
    BY <1>3, <1>8, QueueTypes
  <2>3. \A q \in {fetchPort', decodePort', issuePort'} : Len(q) <= PortLen
    BY <1>8, <1>3, Sizes
  <2>4. pipe' \in PipeState
    BY <1>16 DEF PipeState
  <2>5. /\ badInsID' \in Ids' \cup {0} /\ squashSN' \in Ids' \cup {0}
        /\ squashType' \in SquashType
    BY <1>4, <1>9, <1>15, <1>19, <1>20 DEF AccState, NoIns, SquashType
  <2>6. turn' \in {"SQUASH", "SCHEDULE"}
    BY <1>1
  <2> QED BY <1>3, <1>7, <2>1, <2>2, <2>3, <2>4, <2>5, <2>6 DEF TypeOK
<1>28. InOrder'
  BY <1>8 DEF IInv, InOrder
<1>29. TraceOrder'
  BY DEF IInv, TraceOrder
<1>30. WindowOrder'
  <2>1. pipe' = "NORMAL" => Fetched \subseteq Window
    BY <1>19 DEF IInv, WindowOrder
  <2>2. DownClosed(Window, Fetched)
    BY <1>1 DEF IInv, WindowOrder
  <2>3. pipe' \in {"DRAIN", "SQUASH_ROB"} => decodePort = << >> /\ fetchPort = << >>
    BY <1>1, <1>21 DEF IInv, WindowOrder, FlushedIn
  <2> QED BY <2>1, <2>2, <2>3, <1>1 DEF IInv, WindowOrder, FlushedIn
<1>31. Stages'
  <2>1. /\ \A i \in Ids : i > supplied => ins'[i] = NewIns
        /\ \A i \in Elements(codeCache) : ins'[i] = NewIns
    <3>1. \A i \in InROB : ins[i] # NewIns
      BY <1>13 DEF Lifecycle, NewIns
    <3>2. \A i \in Ids : ins[i] = NewIns => ins'[i] = NewIns
      BY <3>1, <1>12
    <3>3. Elements(codeCache) \subseteq Ids
      BY <1>3, ElementTypes
    <3> QED BY <3>2, <3>3 DEF IInv, Stages
  <2>2. /\ \A i \in Elements(fetchPort) : ins'[i].stage = "FETCH"
        /\ \A i \in Elements(decodePort) : ins'[i].stage = "DECODE"
    <3>1. \A i \in Elements(fetchPort) \cup Elements(decodePort) :
            ins[i].stage \in {"FETCH", "DECODE"} /\ i \in Ids
      BY <1>3, ElementTypes DEF IInv, Stages
    <3>2. \A i \in Elements(fetchPort) \cup Elements(decodePort) : i \notin InROB
      BY <3>1, <1>13 DEF Lifecycle
    <3> QED BY <3>1, <3>2, <1>12 DEF IInv, Stages
  <2>3. \A i \in Fetched \ InROB :
          /\ ins'[i].stage \in {"FETCH", "DECODE"}
          /\ ~ins'[i].memViolation /\ ~ins'[i].cacheAxes
    BY <1>3, <1>12, ElementTypes DEF IInv, Stages
  <2>4. \A i \in Elements(resStn) : i \in InROB /\ ins'[i].stage = "DISPATCH"
    <3>1. \A i \in Elements(resStn) : i \in InROB /\ ins[i].stage = "DISPATCH"
      BY DEF IInv, Stages
    <3> QED BY <3>1, <1>5, <1>10, <1>14
  <2>5. \A i \in Elements(issuePort') : i \in InROB /\ ins'[i].stage = "ISSUE"
    <3>1. \A i \in Elements(issuePort) : i \in InROB /\ ins[i].stage = "ISSUE"
      BY DEF IInv, Stages
    <3> QED BY <3>1, <1>5, <1>8, <1>10, <1>14
  <2>6. \A i \in Units' : i \in InROB /\ ins'[i].stage = "EXECUTE"
    <3> TAKE i \in Units'
    <3>1. CASE i \in I
      BY <3>1, <1>10, <1>14
    <3>2. CASE i \in Units \ done
      BY <3>2, <1>10, <1>14
    <3> QED BY <3>1, <3>2, <1>7
  <2>7. ASSUME NEW i \in InROB
        PROVE /\ Lifecycle(i)'
              /\ ins'[i].stage = "EXECUTE" => i \in Units'
              /\ ins'[i].memViolation => Op(i)' = "LOAD" /\ ins'[i].lsq = "COMPLETE"
    <3>0. Op(i)' = Op(i) /\ Lifecycle(i)
      BY <1>13 DEF Op
    <3>1. CASE i \in I
      <4>1. /\ ins[i].stage = "ISSUE" /\ ins'[i].stage = "EXECUTE" /\ ins'[i].lsq = ins[i].lsq
            /\ i \in Units'
        BY <3>1, <1>7, <1>10, <1>14
      <4> QED BY <3>0, <4>1, <1>14 DEF Lifecycle
    <3>2. CASE i \in done
      <4>1. Lifecycle(i)' /\ ins'[i].stage # "EXECUTE"
        BY <3>0, <3>2, <1>13, <1>14 DEF Lifecycle
      <4>2. ~ins'[i].memViolation
        BY <3>2, <1>5, <1>14
      <4> QED BY <4>1, <4>2
    <3>3. CASE i \notin I \cup done
      <4>1. ins'[i].stage = ins[i].stage /\ ins'[i].lsq = ins[i].lsq
        BY <3>3, <1>14
      <4>2. ins[i].stage = "EXECUTE" => i \in Units'
        BY <3>3, <1>7, <1>13
      <4> QED BY <3>0, <4>1, <4>2, <1>14 DEF Lifecycle
    <3> QED BY <3>1, <3>2, <3>3
  <2> QED BY <2>1, <2>2, <2>3, <2>4, <2>5, <2>6, <2>7 DEF Stages
<1>32. LSQ'
  <2>1. \A i \in Elements(SQ) \ InROB : ins'[i] = ins[i]
    BY <1>3, <1>12, ElementTypes
  <2>2. \A i \in InROB : (pipe' = "NORMAL" \/ i < squashSN') =>
         /\ Op(i) = "LOAD" => i \in Elements(LQ)
         /\ Op(i) = "STORE" => i \in Elements(SQ)
    BY <1>26 DEF IInv, LSQ
  <2>3. \A i \in Elements(resStn) \cup Elements(issuePort') \cup Units' :
         /\ Op(i) = "LOAD" => i \in Elements(LQ)
         /\ Op(i) = "STORE" => i \in Elements(SQ)
    BY <1>7, <1>8 DEF IInv, LSQ
  <2> QED BY <2>1, <2>2, <2>3 DEF IInv, LSQ, Op
<1>33. Squashing'
  <2>1. \A i \in InROB : Detected(i)' => pipe' # "NORMAL" /\ squashSN' <= i
    <3> TAKE i \in InROB
    <3>1. DetectedIn(c.ins, i) => sn # 0 /\ sn <= i
      BY <1>9, <1>15 DEF KeepsOldest, NoIns
    <3>2. Detected(i)' => DetectedIn(ins', i)
      BY DEF Detected, DetectedIn, WrongPath
    <3> QED BY <3>1, <3>2, <1>19, <1>20, <1>23
  <2>2. pipe' # "NORMAL" => squashSN' # 0 /\ badInsID' = squashSN'
    BY <1>4, <1>15, <1>20
  <2> QED BY <2>1, <2>2, <1>1, <1>19, <1>24, <1>25 DEF Squashing
<1>34. Flushing'
  <2>1. pipe' \in {"DRAIN", "SQUASH_ROB"} =>
          \A i \in Elements(resStn) \cup Elements(issuePort) : i < squashSN'
    BY <1>1, <1>21 DEF IInv, Flushing, FlushedIn
  <2>2. pipe' \in {"DRAIN", "SQUASH_ROB"} =>
          \A i \in Elements(LQ) \cup Elements(SQ) : i < squashSN'
    BY <1>1, <1>21 DEF IInv, Flushing, FlushedIn
  <2>3. pipe' \in {"DRAIN", "SQUASH_ROB"} => \A i \in Units : i < squashSN'
    BY <1>21 DEF IInv, Flushing
  <2>4. pipe' \in {"DRAIN", "SQUASH_ROB"} => \A i \in Units' : i < squashSN'
    BY <2>1, <2>3, <1>7, <1>8
  <2> QED BY <2>1, <2>2, <2>4, <1>1, <1>8, <1>22 DEF Flushing, FlushedIn
<1>35. Disambiguated'
  <2> SUFFICES ASSUME MemModel[program] = "PERFECT" PROVE
          /\ squashType' # "MEM_MISPRED"
          /\ \A i \in Ids : ~ins'[i].memViolation
          /\ \A l \in InROB, s \in Elements(SQ) :
               ins'[l].cacheAxes /\ s < l => Addr(s) # Addr(l)
    BY DEF Disambiguated, Addr
  <2>1. squashType' # "MEM_MISPRED"
    BY <1>9, <1>19, <1>20 DEF KeepsOldest
  <2>2. \A i \in Ids : ~ins'[i].memViolation
    BY <1>12, <1>14 DEF IInv, Disambiguated
  <2>3. \A l \in InROB, s \in Elements(SQ) :
          ins'[l].cacheAxes /\ s < l => Addr(s) # Addr(l)
    BY <1>10, <1>11 DEF IInv, Disambiguated
  <2> QED BY <2>1, <2>2, <2>3
<1> QED BY <1>27, <1>28, <1>29, <1>30, <1>31, <1>32, <1>33, <1>34, <1>35 DEF IInv

-----------------------------------------------------------------------------
(* The squash of the ROB. *)

(* Both kinds of squash empty iQUE, of which an end goes back to the code  *)
(* cache: nothing is in flight but the squashed instruction and younger    *)
(* ones.                                                                   *)
LEMMA SquashShape ==
  ASSUME IInv, squash
  PROVE  /\ turn' = "SCHEDULE" /\ squashType' = "NO_MISPRED"
         /\ ROB' = << >> /\ iQUE' = << >>
         /\ \E stop \in 0 .. Len(iQUE) :
              /\ codeCache' = Drop(iQUE, stop) \o codeCache
              /\ ins' = Replace(ins, [i \in Elements(Drop(iQUE, stop)) |-> NewIns])
              /\ \/ /\ squashType = "BP_MISPRED"
                    /\ deleted' = deleted \cup Elements(Take(iQUE, stop))
                    /\ \A n \in 1 .. stop : iQUE[n] > squashSN => isMemOrBrViolation(iQUE[n])
                 \/ squashType = "MEM_MISPRED" /\ stop = 0 /\ deleted' = deleted
<1>1. TypeOK /\ Ids \in SUBSET Nat /\ iQUE \in Seq(Ids) /\ Increasing(iQUE)
      /\ ROB \in Seq(Ids) /\ Increasing(ROB) /\ Len(iQUE) \in Nat
      /\ \A n \in 1 .. Len(iQUE) : iQUE[n] \in Nat
  BY Numbers, QueueTypes DEF IInv, InOrder
<1>2. /\ squashSN \in InROB /\ squashSN \in Fetched /\ squashSN \in Nat
      /\ \A i \in Fetched : squashSN <= i
  <2>1. turn = "SQUASH"
    BY DEF squash
  <2>2. squashSN \in InROB /\ \A i \in Fetched : squashSN <= i
    BY <2>1 DEF IInv, Squashing, Culprit
  <2>3. squashSN \in Fetched
    BY <2>2 DEF IInv, WindowOrder, Window
  <2> QED BY <2>2, <2>3, <1>1, ElementTypes
<1>3. ROB # << >>
  BY <1>2, EmptyQueue DEF InROB
<1>4. /\ turn' = "SCHEDULE" /\ squashType' = "NO_MISPRED"
      /\ ROB' = FlushBack(ROB, squashSN)
      /\ \/ squashType = "BP_MISPRED" /\ bpMispredSquash
         \/ squashType = "MEM_MISPRED" /\ memMispredSquash
  BY <1>3 DEF squash
<1>5. ASSUME NEW q \in Seq(Ids), Increasing(q), Elements(q) \subseteq Fetched
      PROVE  FlushBack(q, squashSN) = << >>
  <2>1. /\ FlushBack(q, squashSN) \in Seq(Ids)
        /\ Elements(FlushBack(q, squashSN)) = {i \in Elements(q) : i < squashSN}
    BY <1>1, <1>2, <1>5, FlushBackElements
  <2>2. \A i \in Elements(q) : i \in Nat /\ squashSN <= i
    BY <1>1, <1>2, <1>5, ElementTypes
  <2>3. Elements(FlushBack(q, squashSN)) = {}
    BY <2>1, <2>2, <1>2
  <2> QED BY <2>1, <2>3, ElementsIn
<1>6. ROB' = << >>
  <2>1. Elements(ROB) \subseteq Fetched
    BY DEF IInv, WindowOrder, Window, InROB
  <2> QED BY <1>1, <1>4, <1>5, <2>1
<1>7. CASE squashType = "MEM_MISPRED"
  <2>1. memMispredSquash
    BY <1>4, <1>7
  <2>2. FlushBack(iQUE, squashSN) = << >>
    BY <1>1, <1>5 DEF Fetched
  <2>3. /\ iQUE' = << >> /\ deleted' = deleted
        /\ codeCache' = Drop(iQUE, 0) \o codeCache
        /\ ins' = Replace(ins, [i \in Elements(Drop(iQUE, 0)) |-> NewIns])
    BY <2>1, <2>2 DEF memMispredSquash, PutBack
  <2>4. 0 \in 0 .. Len(iQUE)
    BY <1>1
  <2> QED BY <1>4, <1>6, <1>7, <2>3, <2>4
<1>8. CASE squashType = "BP_MISPRED"
  <2> DEFINE at == {n \in 1 .. Len(iQUE) : iQUE[n] = squashSN}
             start == IF at = {} THEN 1 ELSE Max(at)
             right == {n \in 1 .. Len(iQUE) :
                         iQUE[n] > squashSN /\ ~isMemOrBrViolation(iQUE[n])}
             stop == IF right = {} THEN Len(iQUE) ELSE Min(right) - 1
  <2>1. /\ codeCache' = Drop(iQUE, stop) \o codeCache
        /\ ins' = Replace(ins, [i \in Elements(Drop(iQUE, stop)) |-> NewIns])
        /\ deleted' = deleted \cup {iQUE[n] : n \in start .. stop}
        /\ iQUE' = Take(iQUE, start - 1)
    BY <1>4, <1>8 DEF bpMispredSquash, PutBack
  <2>2. at = {1}
    <3>1. PICK n \in 1 .. Len(iQUE) : iQUE[n] = squashSN
      BY <1>2 DEF Fetched, Elements
    <3>2. n = 1
      <4> SUFFICES ASSUME n # 1 PROVE FALSE
        OBVIOUS
      <4>1. 1 \in 1 .. Len(iQUE) /\ 1 < n
        BY <1>1
      <4>2. iQUE[1] < iQUE[n]
        BY <4>1, <1>1 DEF Increasing
      <4>3. iQUE[1] \in Fetched
        BY <4>1 DEF Fetched, Elements
      <4> QED BY <4>1, <4>2, <4>3, <3>1, <1>1, <1>2
    <3>3. \A m \in at : m = n
      <4> TAKE m \in at
      <4>1. iQUE[m] = iQUE[n] /\ m \in 1 .. Len(iQUE)
        BY <3>1
      <4> QED BY <4>1, <1>1, IncreasingDistinct DEF Distinct
    <3> QED BY <3>1, <3>2, <3>3
  <2>3. start = 1
    <3> HIDE DEF at
    <3>1. \E x \in at : \A y \in at : x >= y
      BY <2>2
    <3>2. Max(at) \in at
      BY <3>1 DEF Max
    <3> QED BY <2>2, <3>2
  <2>4. stop \in 0 .. Len(iQUE)
        /\ \A n \in 1 .. stop : iQUE[n] > squashSN => isMemOrBrViolation(iQUE[n])
    <3>1. CASE right = {}
      <4>1. stop = Len(iQUE)
        BY <3>1
      <4>2. \A n \in 1 .. Len(iQUE) : n \notin right
        BY <3>1
      <4> QED BY <4>1, <4>2, <1>1
    <3>2. CASE right # {}
      <4>1. right \in SUBSET Nat
        OBVIOUS
      <4>2. Min(right) \in right /\ \A n \in right : Min(right) <= n
        <5> HIDE DEF right
        <5>1. \E x \in right : \A y \in right : x <= y
          BY <3>2, <4>1, LeastNat
        <5> QED BY <5>1 DEF Min
      <4>3. stop = Min(right) - 1
        BY <3>2
      <4>4. Min(right) \in 1 .. Len(iQUE)
        BY <4>2
      <4> HIDE DEF stop
      <4>5. stop \in 0 .. Len(iQUE)
        BY <4>3, <4>4, <1>1
      <4>6. \A n \in 1 .. stop : n \in 1 .. Len(iQUE) /\ n < Min(right)
        BY <4>3, <4>4, <1>1
      <4>7. \A n \in 1 .. stop : n \notin right
        <5> TAKE n \in 1 .. stop
        <5> HIDE DEF right
        <5> QED BY <4>2, <4>4, <4>6
      <4> QED BY <4>5, <4>6, <4>7
    <3> QED BY <3>1, <3>2
  <2> HIDE DEF start, stop
  <2>5. Elements(Take(iQUE, stop)) = {iQUE[n] : n \in start .. stop}
    BY <2>3, <2>4, <1>1, TakeDropElements
  <2>6. iQUE' = << >>
    <3>1. iQUE' = Take(iQUE, 0) /\ 0 \in 0 .. Len(iQUE)
      BY <2>1, <2>3, <1>1
    <3>2. Take(iQUE, 0) \in Seq(Ids) /\ Len(Take(iQUE, 0)) = 0
      BY <3>1, <1>1, TakeDrop
    <3> QED BY <3>1, <3>2, ElementsIn
  <2> QED BY <1>4, <1>6, <1>8, <2>1, <2>4, <2>5, <2>6
<1> QED BY <1>4, <1>7, <1>8

LEMMA SquashStep ==
  ASSUME IInv, squash
  PROVE  IInv'
<1>u. UNCHANGED <<program, supplied, retired, fetchPort, decodePort, resStn, issuePort, EU,
                  LQ, SQ, pipe, squashSN, badInsID>>
  BY DEF squash
<1>t. /\ Ids' = Ids /\ RightPathIds' = RightPathIds /\ LoadIds' = LoadIds
      /\ StoreIds' = StoreIds
  BY <1>u, ProgramStays
<1>3. TypeOK /\ Ids \in SUBSET Nat
  BY Numbers DEF IInv
<1>1. turn = "SQUASH" /\ pipe = "SQUASH_ROB"
  BY DEF squash, IInv, Squashing
<1>2. /\ turn' = "SCHEDULE" /\ squashType' = "NO_MISPRED" /\ ROB' = << >> /\ iQUE' = << >>
  BY SquashShape
<1>4. PICK stop \in 0 .. Len(iQUE) :
        /\ codeCache' = Drop(iQUE, stop) \o codeCache
        /\ ins' = Replace(ins, [i \in Elements(Drop(iQUE, stop)) |-> NewIns])
        /\ \/ deleted' = deleted \cup Elements(Take(iQUE, stop))
           \/ deleted' = deleted
  BY SquashShape
<1> DEFINE back == Drop(iQUE, stop)
           B == Elements(back)
<1>5. iQUE \in Seq(Ids) /\ Increasing(iQUE) /\ codeCache \in Seq(Ids) /\ Increasing(codeCache)
  BY <1>3, QueueTypes DEF IInv, InOrder
<1>6. back \in Seq(Ids) /\ Take(iQUE, stop) \in Seq(Ids)
  BY <1>5, TakeDrop
<1>7. /\ Increasing(back) /\ Before(Elements(Take(iQUE, stop)), B)
      /\ B = Fetched \ Elements(Take(iQUE, stop))
  BY <1>3, <1>5, IncreasingTakeDrop DEF Fetched
<1>8. Elements(Take(iQUE, stop)) \subseteq Ids /\ Fetched \subseteq Ids
      /\ Elements(codeCache) \subseteq Ids /\ InROB \subseteq Ids
  BY <1>3, <1>6, ElementsIn, ElementTypes
<1> HIDE DEF back
<1>9. /\ codeCache' \in Seq(Ids) /\ Increasing(codeCache')
      /\ Elements(codeCache') = B \cup Elements(codeCache)
  <2>1. Before(B, Elements(codeCache))
    BY <1>7 DEF IInv, TraceOrder, Before
  <2>2. back \o codeCache \in Seq(Ids)
        /\ Elements(back \o codeCache) = Elements(back) \cup Elements(codeCache)
    BY <1>5, <1>6, Concat
  <2>3. Increasing(back \o codeCache)
    BY <1>5, <1>6, <1>7, <2>1, Concat
  <2> QED BY <1>4, <2>2, <2>3 DEF back
<1> HIDE DEF B
<1> DEFINE new == [i \in B |-> NewIns]
           t == Replace(ins, new)
<1>10a. new \in [B -> InsState]
  BY DEF NewIns, InsState, Stage, LsqState
<1>10f. \A i \in B : new[i] = NewIns
  OBVIOUS
<1>10b. ins' = t
  BY <1>4 DEF B, back
<1>10c. ins \in [Ids -> InsState]
  BY <1>3 DEF TypeOK, InsState
<1>10d. B \in SUBSET Ids
  BY <1>7, <1>8
<1> HIDE DEF new
<1>10e. /\ t \in [Ids -> InsState]
        /\ \A i \in Ids \ B : t[i] = ins[i]
        /\ \A i \in B : t[i] = new[i]
  BY <1>10a, <1>10c, <1>10d, ReplaceTable
<1> HIDE DEF t
<1>10. /\ ins' \in [Ids -> InsState]
       /\ \A i \in Ids \ B : ins'[i] = ins[i]
       /\ \A i \in B : ins'[i] = NewIns
  BY <1>10b, <1>10e, <1>10f
<1>11. /\ squashSN \in Nat /\ \A i \in Fetched : squashSN <= i /\ i \in Nat
       /\ InROB \subseteq Fetched
  <2>1. squashSN \in InROB /\ \A i \in Fetched : squashSN <= i
    BY <1>1 DEF IInv, Squashing, Culprit
  <2> QED BY <2>1, <1>3, <1>8 DEF IInv, WindowOrder, Window
(* Nothing is left between the stages. *)
<1>12. decodePort = << >> /\ fetchPort = << >> /\ Elements(decodePort) = {}
       /\ Elements(fetchPort) = {}
  BY <1>1, EmptyQueue DEF IInv, WindowOrder, FlushedIn
<1>13. Elements(resStn) = {} /\ Elements(issuePort) = {} /\ Units = {} /\ Elements(LQ) = {}
       /\ Elements(SQ) \cap InROB = {}
  <2>1. \A i \in Elements(resStn) \cup Elements(issuePort) \cup Units \cup Elements(LQ)
                 \cup Elements(SQ) : i < squashSN
    BY <1>1 DEF IInv, Flushing, FlushedIn
  <2>2. \A i \in Elements(resStn) \cup Elements(issuePort) \cup Units \cup Elements(LQ) :
          i \in InROB
    BY DEF IInv, Stages, LSQ
  <2>3. \A i \in InROB : ~(i < squashSN)
    BY <1>11
  <2> QED BY <2>1, <2>2, <2>3
<1>14. /\ InROB' = {} /\ Fetched' = {} /\ Units' = Units /\ Window' = {}
       /\ Traced' = B \cup Elements(codeCache)
  <2>1. InROB' = {} /\ Fetched' = {} /\ Units' = Units
    BY <1>2, <1>u, EmptyQueue DEF InROB, Fetched, Units
  <2> QED BY <2>1, <1>9, <1>12, <1>u DEF Window, Traced
<1> USE <1>u, <1>t
<1>15. TypeOK'
  <2>1. ins' \in [Ids' -> [stage : Stage, lsq : LsqState,
                      memViolation : BOOLEAN, cacheAxes : BOOLEAN]]
    BY <1>10 DEF InsState
  <2>2. \A q \in {codeCache', iQUE', fetchPort', decodePort', resStn', issuePort',
                  ROB', LQ', SQ', retired'} : q \in Seq(Ids')
    BY <1>2, <1>3, <1>9, EmptyQueue, QueueTypes
  <2>3. squashType' \in SquashType /\ deleted' \subseteq Ids' /\ Len(ROB') <= RobSize
    <3>1. deleted \subseteq Ids /\ RobSize \in Nat
      BY <1>3, SizesAssumption DEF TypeOK
    <3>2. Len(ROB') = 0
      BY <1>2, EmptyQueue
    <3> QED BY <3>1, <3>2, <1>2, <1>4, <1>8 DEF SquashType
  <2> QED BY <1>2, <1>3, <2>1, <2>2, <2>3 DEF TypeOK
<1>16. InOrder'
  BY <1>2, <1>9, EmptyQueue DEF IInv, InOrder
<1>17. TraceOrder'
  <2>1. Traced' \subseteq Traced
    BY <1>7, <1>14 DEF Traced
  <2>2. ASSUME NEW i \in Traced' PROVE i .. supplied \subseteq Traced'
    <3> SUFFICES ASSUME NEW j \in i .. supplied PROVE j \in Traced'
      OBVIOUS
    <3>1. j \in Traced
      BY <2>1 DEF IInv, TraceOrder
    <3>2. CASE j \in Elements(codeCache)
      BY <3>2, <1>14
    <3>3. CASE j \in Fetched
      <4>1. i <= j /\ i \in Nat /\ j \in Nat
        BY <1>3, <1>7, <1>8, <1>14, <3>3
      <4>2. j \notin Elements(Take(iQUE, stop))
        <5> SUFFICES ASSUME j \in Elements(Take(iQUE, stop)) PROVE FALSE
          OBVIOUS
        <5>1. CASE i \in B
          BY <5>1, <4>1, <1>7 DEF Before
        <5>2. CASE i \in Elements(codeCache)
          BY <5>2, <3>3, <4>1 DEF IInv, TraceOrder, Before
        <5> QED BY <5>1, <5>2, <1>14
      <4> QED BY <3>3, <4>2, <1>7, <1>14
    <3> QED BY <3>1, <3>2, <3>3 DEF Traced
  <2> QED BY <2>1, <2>2, <1>14 DEF IInv, TraceOrder, Before
<1>18. WindowOrder'
  BY <1>1, <1>12, <1>14 DEF WindowOrder, Before, DownClosed
<1>19. Stages'
  <2>1. \A i \in Elements(codeCache') : ins'[i] = NewIns
    BY <1>8, <1>9, <1>10 DEF IInv, Stages
  <2>2. \A i \in Ids : i > supplied => ins'[i] = NewIns
    BY <1>10 DEF IInv, Stages
  <2> QED BY <2>1, <2>2, <1>12, <1>13, <1>14 DEF Stages
<1>20. LSQ'
  <2>1. ASSUME NEW i \in Elements(SQ)
        PROVE  /\ i \in Elements(retired)
               /\ ins'[i].stage = "COMMIT" /\ ins'[i].lsq \in {"COMMIT", "CACHE_DISPATCH"}
    <3>1. /\ i \in Elements(retired) /\ i \in Ids
          /\ ins[i].stage = "COMMIT" /\ ins[i].lsq \in {"COMMIT", "CACHE_DISPATCH"}
      BY <1>3, <1>13, ElementTypes DEF IInv, LSQ
    <3>2. i \notin B
      <4>1. i \in Fetched => i < i
        BY <3>1 DEF IInv, TraceOrder, Before, Traced
      <4> QED BY <4>1, <3>1, <1>3, <1>7
    <3> QED BY <3>1, <3>2, <1>10
  <2> QED BY <2>1, <1>13, <1>14 DEF IInv, LSQ, DownClosed
<1>21. Squashing'
  BY <1>1, <1>2, <1>14 DEF IInv, Squashing
<1>22. Flushing'
  BY <1>1, <1>13, <1>14 DEF IInv, Flushing, FlushedIn
<1>23. Disambiguated'
  BY <1>2, <1>8, <1>10, <1>14 DEF IInv, Disambiguated, NewIns
<1> QED BY <1>15, <1>16, <1>17, <1>18, <1>19, <1>20, <1>21, <1>22, <1>23 DEF IInv


-----------------------------------------------------------------------------
(* The steps together. *)

LEMMA InitHolds ==
  ASSUME Init
  PROVE  IInv
<1> USE DEF Init
<1>1. Len(program) \in Nat /\ Ids \in SUBSET Nat
  <2> DEFINE R == [op : {"ALU", "LOAD", "STORE"}, addr : Nat,
                   rd : SUBSET Nat, wr : SUBSET Nat, wrongPath : BOOLEAN]
  <2>1. program \in Seq(R)
    BY ProgramsAssumption
  <2> HIDE DEF R
  <2>2. Len(program) \in Nat
    BY <2>1
  <2> QED BY <2>2 DEF Ids
<1>2. supplied \in Ids /\ supplied \in Nat /\ supplied \in 0 .. Len(program)
      /\ 1 .. supplied \subseteq Ids
  <2>1. supplied \in Ids
    BY DEF supplyPoints
  <2> QED BY <2>1, <1>1 DEF Ids
<1>3. /\ codeCache \in Seq(Ids) /\ Increasing(codeCache)
      /\ Elements(codeCache) = 1 .. supplied
  <2>1. Len(codeCache) = supplied /\ \A i \in 1 .. supplied : codeCache[i] = i
    BY <1>2
  <2>2. codeCache \in Seq(Ids)
    BY <1>2
  <2>3. Elements(codeCache) = 1 .. supplied
    BY <2>1 DEF Elements
  <2>4. Increasing(codeCache)
    BY <2>1, <1>2 DEF Increasing
  <2> QED BY <2>2, <2>3, <2>4
<1>4. /\ << >> \in Seq(Ids) /\ Len(<< >>) = 0 /\ Elements(<< >>) = {}
      /\ Increasing(<< >>) /\ Distinct(<< >>)
  BY EmptyQueue
<1>5. Units = {}
  <2>1. Width \in Nat
    BY SizesAssumption
  <2>2. Len(EU) = Width /\ \A e \in 1 .. Width : EU[e] = NoIns
    BY <2>1
  <2> QED BY <2>2 DEF Units, Elements
<1>6. Fetched = {} /\ InROB = {} /\ Window = {} /\ Traced = 1 .. supplied
  BY <1>3, <1>4 DEF Fetched, InROB, Window, Traced
<1>7. TypeOK
  <2>1. \A q \in {codeCache, iQUE, fetchPort, decodePort, resStn, issuePort, ROB,
                  LQ, SQ, retired} : q \in Seq(Ids)
    BY <1>3, <1>4
  <2>2. EU \in [1 .. Width -> Ids \cup {NoIns}]
    OBVIOUS
  <2>3. NewIns \in [stage : Stage, lsq : LsqState,
                    memViolation : BOOLEAN, cacheAxes : BOOLEAN]
    BY DEF NewIns, Stage, LsqState
  <2>4. ins \in [Ids -> [stage : Stage, lsq : LsqState,
                         memViolation : BOOLEAN, cacheAxes : BOOLEAN]]
    BY <2>3
  <2>5. {PortLen, ResStnSize, RobSize, LQSize, SQSize} \subseteq Nat
    BY SizesAssumption
  <2>6. /\ \A q \in {fetchPort, decodePort, issuePort} : Len(q) <= PortLen
        /\ Len(resStn) <= ResStnSize /\ Len(ROB) <= RobSize
        /\ Len(LQ) <= LQSize /\ Len(SQ) <= SQSize
    BY <1>4, <2>5
  <2> QED BY <1>2, <2>1, <2>2, <2>4, <2>6 DEF TypeOK, PipeState, SquashType
<1>8. InOrder
  BY <1>3, <1>4 DEF InOrder
<1>9. TraceOrder
  BY <1>2, <1>4, <1>6 DEF TraceOrder, Before
<1>10. WindowOrder
  BY <1>4, <1>6 DEF WindowOrder, Before, DownClosed, FlushedIn
<1>11. Stages
  BY <1>2, <1>3, <1>4, <1>5, <1>6 DEF Stages
<1>12. LSQ
  BY <1>4, <1>5, <1>6 DEF LSQ, DownClosed
<1>13. Squashing
  BY <1>6 DEF Squashing
<1>14. Flushing
  BY <1>5 DEF Flushing, FlushedIn
<1>15. Disambiguated
  BY <1>6 DEF Disambiguated, NewIns
<1> QED BY <1>7, <1>8, <1>9, <1>10, <1>11, <1>12, <1>13, <1>14, <1>15 DEF IInv

LEMMA StutterHolds ==
  ASSUME IInv, UNCHANGED vars
  PROVE  IInv'
<1> USE DEF vars, work, frontVars, queues, squashVars, history
<1>1. /\ Ids' = Ids /\ RightPathIds' = RightPathIds /\ LoadIds' = LoadIds
      /\ StoreIds' = StoreIds
  BY ProgramStays
<1>2. /\ Fetched' = Fetched /\ InROB' = InROB /\ Units' = Units /\ Traced' = Traced
      /\ Window' = Window
  BY DEF Fetched, InROB, Units, Traced, Window
<1> USE <1>1, <1>2
<1>3. TypeOK'
  BY DEF IInv, TypeOK
<1>4. InOrder'
  BY DEF IInv, InOrder
<1>5. TraceOrder'
  BY DEF IInv, TraceOrder
<1>6. WindowOrder'
  BY DEF IInv, WindowOrder, FlushedIn
<1>7. Stages'
  BY DEF IInv, Stages, Lifecycle, Op
<1>8. LSQ'
  BY DEF IInv, LSQ, Op
<1>9. Squashing'
  BY DEF IInv, Squashing, Culprit, Detected, WrongPath
<1>10. Flushing'
  BY DEF IInv, Flushing, FlushedIn
<1>11. Disambiguated'
  BY DEF IInv, Disambiguated, Addr
<1> QED BY <1>3, <1>4, <1>5, <1>6, <1>7, <1>8, <1>9, <1>10, <1>11 DEF IInv

LEMMA NextHolds ==
  ASSUME IInv, [Next]_vars
  PROVE  IInv'
<1>1. CASE doCOMMIT
  BY <1>1, CommitStep
<1>2. CASE doMEMORY
  BY <1>2, MemoryStep
<1>3. CASE doEXECUTION
  BY <1>3, ExecuteStep
<1>4. CASE squash
  BY <1>4, SquashStep
<1>5. CASE doSCHEDULER
  BY <1>5, SchedulerStep
<1>6. CASE doDECODE
  BY <1>6, DecodeStep
<1>7. CASE doFETCH
  BY <1>7, FetchNormal, FetchFlush
<1>8. CASE frontend
  BY <1>8, FrontendStep
<1>9. CASE halted
  BY <1>9, StutterHolds DEF halted
<1>10. CASE UNCHANGED vars
  BY <1>10, StutterHolds
<1> QED BY <1>1, <1>2, <1>3, <1>4, <1>5, <1>6, <1>7, <1>8, <1>9, <1>10 DEF Next

(* In every state the core reaches, whatever it speculates, squashes and   *)
(* fetches again, the instructions are where IInv says (o3_sysCore and the *)
(* stages it runs).                                                        *)
THEOREM Inductive == Spec => []IInv
<1>1. Init => IInv
  BY InitHolds
<1>2. IInv /\ [Next]_vars => IInv'
  BY NextHolds
<1> QED BY <1>1, <1>2, PTL DEF Spec

-----------------------------------------------------------------------------
(* Consequences. *)

(* The library's prefix is that of Queues_proofs. *)
LEMMA OldestAreFront ==
  ASSUME NEW D \in SUBSET Nat, NEW p \in Seq(D), NEW q \in Seq(D),
         Increasing(p), Increasing(q),
         Elements(p) \subseteq Elements(q), DownClosed(Elements(p), Elements(q))
  PROVE  IsPrefix(p, q) /\ p = Take(q, Len(p)) /\ Len(p) \in 0 .. Len(q)
<1>1. IsPrefixOf(p, q)
  BY LeastElementsPrefix
<1>2. /\ Len(p) \in 0 .. Len(q) /\ p = Take(q, Len(p))
      /\ SubSeq(p, 1, Len(p)) = SubSeq(q, 1, Len(p))
  BY <1>1, PrefixTake
<1> QED BY <1>2 DEF IsPrefix

(* Three queues that follow one another. *)
LEMMA Concat3 ==
  ASSUME NEW D \in SUBSET Nat, NEW p \in Seq(D), NEW q \in Seq(D), NEW r \in Seq(D),
         Increasing(p), Increasing(q), Increasing(r),
         Before(Elements(p), Elements(q) \cup Elements(r)),
         Before(Elements(q), Elements(r))
  PROVE  /\ p \o q \o r \in Seq(D) /\ Increasing(p \o q \o r)
         /\ Elements(p \o q \o r) = Elements(p) \cup Elements(q) \cup Elements(r)
<1> DEFINE s == p \o q
<1>1. s \in Seq(D) /\ Elements(s) = Elements(p) \cup Elements(q)
  BY Concat
<1>2. Before(Elements(p), Elements(q))
  BY DEF Before
<1>3. Increasing(s)
  BY <1>2, Concat
<1>4. Before(Elements(s), Elements(r))
  BY <1>1 DEF Before
<1> HIDE DEF s
<1>5. s \o r \in Seq(D) /\ Elements(s \o r) = Elements(s) \cup Elements(r)
  BY <1>1, Concat
<1>6. Increasing(s \o r)
  BY <1>1, <1>3, <1>4, Concat
<1> QED BY <1>1, <1>5, <1>6 DEF s

-----------------------------------------------------------------------------
(* The agreement of the queues. *)

LEMMA WindowAgrees ==
  ASSUME IInv
  PROVE  WindowContiguous
<1> DEFINE w == ROB \o decodePort \o fetchPort
<1>1. TypeOK /\ Ids \in SUBSET Nat
  BY Numbers DEF IInv
<1>2. /\ ROB \in Seq(Ids) /\ decodePort \in Seq(Ids) /\ fetchPort \in Seq(Ids)
      /\ iQUE \in Seq(Ids)
  BY <1>1, QueueTypes
<1>3. Increasing(ROB) /\ Increasing(decodePort) /\ Increasing(fetchPort) /\ Increasing(iQUE)
  BY DEF IInv, InOrder
<1>4. /\ Before(Elements(ROB), Elements(decodePort) \cup Elements(fetchPort))
      /\ Before(Elements(decodePort), Elements(fetchPort))
      /\ Window \subseteq Elements(iQUE)
  BY DEF IInv, WindowOrder, InROB, Fetched
<1>5. w \in Seq(Ids) /\ Increasing(w) /\ Elements(w) = Window
  BY <1>1, <1>2, <1>3, <1>4, Concat3 DEF Window, InROB
<1> HIDE DEF w
<1>6. CASE pipe = "FLUSH" /\ turn = "FETCH"
  BY <1>6 DEF WindowContiguous
<1>7. CASE ~(pipe = "FLUSH" /\ turn = "FETCH")
  <2>1. DownClosed(Elements(w), Elements(iQUE))
    BY <1>5, <1>7 DEF IInv, WindowOrder, Fetched
  <2>2. IsPrefix(w, iQUE)
    BY <1>1, <1>2, <1>3, <1>4, <1>5, <2>1, OldestAreFront
  <2>3. ASSUME pipe = "NORMAL" PROVE iQUE = w
    <3>1. Elements(iQUE) = Elements(w)
      BY <1>4, <1>5, <2>3 DEF IInv, WindowOrder, Fetched
    <3> QED BY <1>1, <1>2, <1>3, <1>5, <3>1, SameElements
  <2> QED BY <2>2, <2>3 DEF WindowContiguous, w
<1> QED BY <1>6, <1>7

LEMMA LSQAgrees ==
  ASSUME IInv
  PROVE  LSQMatchesROB
<1> DEFINE done == {i \in Ids : ins[i].stage = "COMMIT"}
           draining == Filter(SQ, done)
           inflight == Drop(SQ, Len(draining))
           C == Elements(SQ) \ InROB
<1>1. TypeOK /\ Ids \in SUBSET Nat
  BY Numbers DEF IInv
<1>2. /\ ROB \in Seq(Ids) /\ LQ \in Seq(Ids) /\ SQ \in Seq(Ids)
      /\ Increasing(ROB) /\ Increasing(LQ) /\ Increasing(SQ)
  BY <1>1, QueueTypes DEF IInv, InOrder
<1>3. /\ Elements(LQ) \subseteq InROB \cap LoadIds
      /\ DownClosed(Elements(LQ), InROB \cap LoadIds)
      /\ Elements(SQ) \subseteq StoreIds
      /\ DownClosed(Elements(SQ), InROB \cap StoreIds)
  BY DEF IInv, LSQ
<1>4. /\ InROB \subseteq Ids /\ Elements(SQ) \subseteq Ids /\ Elements(retired) \subseteq Ids
      /\ InROB \subseteq Traced
  BY <1>1, ElementTypes DEF IInv, WindowOrder, Window, Traced
<1>5. /\ Loads(ROB) \in Seq(Ids) /\ Increasing(Loads(ROB))
      /\ Elements(Loads(ROB)) = InROB \cap LoadIds
      /\ Stores(ROB) \in Seq(Ids) /\ Increasing(Stores(ROB))
      /\ Elements(Stores(ROB)) = InROB \cap StoreIds
  BY <1>1, <1>2, FilterQueue DEF Loads, Stores, InROB
<1>6. IsPrefix(LQ, Loads(ROB))
  BY <1>1, <1>2, <1>3, <1>5, OldestAreFront
(* The committed stores are the oldest of the store queue. *)
<1>7. Elements(SQ) \cap done = C
  <2>1. ASSUME NEW i \in C PROVE i \in done
    BY <1>4 DEF IInv, LSQ
  <2>2. ASSUME NEW i \in Elements(SQ), i \in InROB PROVE i \notin done
    <3>1. Lifecycle(i) /\ Op(i) = "STORE"
      BY <1>3, <2>2 DEF IInv, Stages, StoreIds
    <3> QED BY <3>1 DEF Lifecycle
  <2> QED BY <2>1, <2>2
<1>8. DownClosed(C, Elements(SQ))
  <2> SUFFICES ASSUME NEW i \in C, NEW j \in Elements(SQ), j < i, j \in InROB
               PROVE  FALSE
    BY DEF DownClosed
  <2>1. i \in Elements(retired)
    BY DEF IInv, LSQ
  <2>2. i < j
    BY <1>4, <2>1 DEF IInv, TraceOrder, Before
  <2>3. i \in Nat /\ j \in Nat
    BY <1>1, <1>4
  <2> QED BY <2>2, <2>3
<1> HIDE DEF done
<1>9. /\ draining \in Seq(Ids) /\ Increasing(draining) /\ Elements(draining) = C
      /\ Len(draining) = Cardinality(C)
  BY <1>1, <1>2, <1>7, FilterQueue, FilterCount
<1> HIDE DEF draining, C
<1>10. C \subseteq Elements(SQ)
  BY DEF C
<1>11. IsPrefix(draining, SQ)
  BY <1>1, <1>2, <1>8, <1>9, <1>10, OldestAreFront
<1>12. /\ Len(draining) \in 0 .. Len(SQ)
       /\ Elements(inflight) = Elements(SQ) \ C
  BY <1>1, <1>2, <1>8, <1>9, <1>10, TakeCount
<1>13. inflight \in Seq(Ids) /\ Increasing(inflight)
  BY <1>1, <1>2, <1>12, TakeDrop, IncreasingTakeDrop
<1>14. Elements(inflight) = Elements(SQ) \cap InROB
  BY <1>12 DEF C
<1> HIDE DEF inflight
<1>15. DownClosed(Elements(inflight), InROB \cap StoreIds)
  BY <1>3, <1>14 DEF DownClosed
<1>16. IsPrefix(inflight, Stores(ROB))
  BY <1>1, <1>3, <1>5, <1>13, <1>14, <1>15, OldestAreFront
<1>17. ASSUME pipe = "NORMAL" PROVE LQ = Loads(ROB) /\ inflight = Stores(ROB)
  <2>1. \A i \in InROB : /\ Op(i) = "LOAD" => i \in Elements(LQ)
                         /\ Op(i) = "STORE" => i \in Elements(SQ)
    BY <1>17 DEF IInv, LSQ
  <2>2. Elements(LQ) = Elements(Loads(ROB))
    BY <1>3, <1>5, <2>1 DEF LoadIds
  <2>3. Elements(inflight) = Elements(Stores(ROB))
    BY <1>3, <1>5, <1>14, <2>1 DEF StoreIds
  <2> QED BY <1>1, <1>2, <1>5, <1>13, <2>2, <2>3, SameElements
<1> QED BY <1>6, <1>11, <1>16, <1>17 DEF LSQMatchesROB, draining, inflight, done

(* TypeOK and the agreement of the queues: the ROB, the ports and iQUE     *)
(* hold the same window, the load and the store queue the loads and stores *)
(* of the ROB, and no queue holds more than it has entries, at every       *)
(* moment of a squash (o3_commit's pops, o3_lsq).                          *)
THEOREM QueuesAlwaysAgree == Spec => []QueuesAgree
<1>1. IInv => QueuesAgree
  BY WindowAgrees, LSQAgrees DEF QueuesAgree, IInv
<1> QED BY <1>1, Inductive, PTL

-----------------------------------------------------------------------------
(* Squashes. *)

(* The squash number is the oldest culprit detected and the squash type    *)
(* that culprit's, so that commit always reaches it (o3_execution's        *)
(* completeIns and squashCtrl).                                            *)
THEOREM OldestCulpritSquashed == Spec => []SquashesOldestCulprit
<1>1. ASSUME IInv PROVE SquashesOldestCulprit
  <2>1. \A i \in Elements(ROB) : Detected(i) => pipe # "NORMAL" /\ squashSN <= i
    BY <1>1 DEF IInv, Squashing, InROB
  <2>2. ASSUME pipe # "NORMAL", ROB # << >> PROVE Culprit
    <3>1. pipe \in {"WAIT_FLUSH", "FLUSH", "DRAIN", "SQUASH_ROB"}
      BY <1>1, <2>2 DEF IInv, TypeOK, PipeState
    <3> QED BY <1>1, <2>2, <3>1 DEF IInv, Squashing
  <2>3. pipe = "DRAIN" => ROB # << >>
    <3>1. pipe = "DRAIN" => squashSN \in Elements(ROB)
      BY <1>1 DEF IInv, Squashing, Culprit, InROB
    <3> QED BY <3>1, EmptyQueue
  <2> QED BY <2>1, <2>2, <2>3 DEF SquashesOldestCulprit, Culprit, InROB
<1> QED BY <1>1, Inductive, PTL

LEMMA Quiescent ==
  ASSUME IInv
  PROVE  QuiescentAtRecovery
<1> SUFFICES ASSUME pipe = "SQUASH_ROB" PROVE QuiescentAtRecovery
  BY DEF QuiescentAtRecovery
<1>1. TypeOK /\ Ids \in SUBSET Nat /\ Width \in Nat
  BY Numbers, Sizes DEF IInv
<1>2. fetchPort = << >> /\ decodePort = << >>
  BY DEF IInv, WindowOrder, FlushedIn
(* Either the ROB is empty or the squash number is the oldest there is. *)
<1>3. \A i \in Fetched : squashSN <= i
  <2>1. CASE turn = "SQUASH"
    BY <2>1 DEF IInv, Squashing
  <2>2. CASE turn # "SQUASH"
    BY <2>2, EmptyQueue DEF IInv, Squashing, Fetched
  <2> QED BY <2>1, <2>2
<1>4. /\ \A i \in Elements(resStn) \cup Elements(issuePort) \cup Units \cup Elements(LQ)
                  \cup Elements(SQ) : i < squashSN
      /\ \A i \in Elements(resStn) \cup Elements(issuePort) \cup Units \cup Elements(LQ) :
           i \in InROB
  BY DEF IInv, Flushing, FlushedIn, Stages, LSQ
<1>5. InROB \subseteq Fetched /\ Fetched \subseteq Ids /\ squashSN \in Nat
  BY <1>1, ElementTypes, SMTT(30) DEF IInv, WindowOrder, Window, TypeOK
<1>6. \A i \in InROB : ~(i < squashSN)
  BY <1>1, <1>3, <1>5
<1>7. /\ Elements(resStn) = {} /\ Elements(issuePort) = {} /\ Units = {}
      /\ Elements(LQ) = {} /\ Elements(SQ) \cap InROB = {}
  BY <1>4, <1>6
<1>8. resStn = << >> /\ issuePort = << >> /\ LQ = << >>
  BY <1>1, <1>7, QueueTypes, ElementsIn
<1>9. fetchPort \o decodePort \o resStn \o issuePort \o LQ = << >>
  BY <1>2, <1>8
<1>10. \A e \in 1 .. Width : EU[e] = NoIns
  <2>1. Len(EU) = Width
    BY <1>1 DEF TypeOK
  <2> QED BY <1>7, <2>1 DEF Units, Elements
<1>11. \A i \in Elements(SQ) : ins[i].stage = "COMMIT"
  BY <1>7 DEF IInv, LSQ
<1>12. \A i \in Elements(iQUE) : ins[i].stage # "EXECUTE" /\ i >= squashSN
  <2> TAKE i \in Elements(iQUE)
  <2>1. i >= squashSN
    BY <1>1, <1>3, <1>5 DEF Fetched
  <2>2. CASE i \in InROB
    BY <1>7, <2>1, <2>2 DEF IInv, Stages
  <2>3. CASE i \notin InROB
    <3>1. ins[i].stage = "FETCH" \/ ins[i].stage = "DECODE"
      BY <2>3 DEF IInv, Stages, Fetched
    <3>2. ins[i].stage # "EXECUTE"
      BY <3>1
    <3> QED BY <2>1, <3>2
  <2> QED BY <2>1, <2>2, <2>3
<1> QED BY <1>9, <1>10, <1>11, <1>12 DEF QuiescentAtRecovery

(* When the ROB is squashed nothing younger than the squash number is left *)
(* anywhere else and nothing older is unfinished (o3_execution::squash).   *)
THEOREM RecoveryIsQuiescent == Spec => []QuiescentAtRecovery
<1>1. IInv => QuiescentAtRecovery
  BY Quiescent
<1> QED BY <1>1, Inductive, PTL

(* With perfect disambiguation no load is ever squashed                    *)
(* (o3_memManager::hasMemAddr, o3_lsq::isLQviolation).                     *)
THEOREM PerfectMemory == Spec => []PerfectMemoryNeverSquashes
<1>1. IInv => PerfectMemoryNeverSquashes
  BY DEF IInv, Disambiguated, PerfectMemoryNeverSquashes
<1> QED BY <1>1, Inductive, PTL

(* A step removes a committed store from the store queue only when the     *)
(* cache has taken it, however the queue is squashed in that step          *)
(* (o3_lsq::squash, o3_memManager::delAfterCommit).                        *)
THEOREM CommittedStoresSurvive == Spec => CommittedStoresReachTheCache
<1> DEFINE Survives == \A i \in Elements(SQ) :
             (ins[i].stage = "COMMIT" /\ i \notin Elements(SQ')) =>
               ins[i].lsq = "CACHE_DISPATCH"
<1>1. ASSUME IInv, Next PROVE Survives
  <2> SUFFICES ASSUME NEW i \in Elements(SQ), ins[i].stage = "COMMIT",
                      i \notin Elements(SQ')
               PROVE  ins[i].lsq = "CACHE_DISPATCH"
    OBVIOUS
  <2>1. TypeOK /\ Ids \in SUBSET Nat /\ SQ \in Seq(Ids) /\ Increasing(SQ)
    BY <1>1, Numbers, QueueTypes DEF IInv, InOrder
  <2>2. SQ' # SQ
    OBVIOUS
  <2>3. CASE doMEMORY
    <3> DEFINE stores == squashLSQ(SQ)
    <3>1. PICK taken \in SUBSET DispatchedStores(stores) : SQ' = Without(stores, taken)
      BY <2>3 DEF doMEMORY
    <3>2. stores \in Seq(Ids)
          /\ Elements(stores) = {j \in Elements(SQ) : pipe = "FLUSH" => j < squashSN}
      BY <1>1, <2>1, SquashLSQ
    <3> HIDE DEF stores
    <3>3. i \notin InROB /\ i \in Ids
      <4>1. i \in StoreIds
        BY <1>1 DEF IInv, LSQ
      <4>2. i \in InROB => Lifecycle(i)
        BY <1>1 DEF IInv, Stages
      <4> QED BY <4>1, <4>2 DEF Lifecycle, StoreIds
    <3>4. pipe = "FLUSH" => i < squashSN
      BY <1>1, <3>3, CommittedAreOlder
    <3>5. i \in Elements(stores)
      BY <3>2, <3>4
    <3>6. Elements(SQ') = Elements(stores) \cap (Ids \ taken)
      BY <3>1, <3>2, FilterElements DEF Without
    <3> QED BY <3>1, <3>3, <3>5, <3>6 DEF DispatchedStores
  <2>4. CASE doSCHEDULER
    <3>1. PICK k \in 0 .. Width, m \in 0 .. Width : schedulerImpl(k, m)
      BY <2>2, <2>4 DEF doSCHEDULER
    <3>2. k \in 0 .. Len(decodePort) /\ decodePort \in Seq(Ids)
      <4>1. Width \in Nat /\ decodePort \in Seq(Ids)
        BY <2>1, Sizes, QueueTypes
      <4>2. k <= Len(decodePort)
        BY <3>1 DEF schedulerImpl
      <4>3. Len(decodePort) \in Nat
        BY <4>1, ElementsIn
      <4> QED BY <4>1, <4>2, <4>3
    <3> DEFINE new == Take(decodePort, k)
               add == Filter(new, StoreIds)
    <3>3. SQ' = SQ \o add
      BY <3>1 DEF schedulerImpl
    <3>4. new \in Seq(Ids)
      BY <3>2, TakeDrop
    <3> HIDE DEF new
    <3>5. add \in Seq(Ids)
      BY <3>4, FilterElements
    <3> HIDE DEF add
    <3>6. Elements(SQ \o add) = Elements(SQ) \cup Elements(add)
      BY <2>1, <3>5, Concat
    <3> QED BY <3>3, <3>6
  <2>5. ASSUME ~doMEMORY, ~doSCHEDULER PROVE SQ' = SQ
    BY <1>1, <2>5 DEF Next, doCOMMIT, doEXECUTION, squash, doDECODE, doFETCH, frontend,
         halted, vars, work, queues
  <2> QED BY <2>2, <2>3, <2>4, <2>5
<1>2. IInv /\ [Next]_vars => [Survives]_vars
  BY <1>1
<1> QED BY <1>2, Inductive, PTL DEF Spec, CommittedStoresReachTheCache

-----------------------------------------------------------------------------
(* Nothing is lost.  A squash for a misprediction destroys the violating   *)
(* loads that follow the wrong path immediately with it; under naive       *)
(* speculation this takes a right-path load there.                         *)
Unmixed ==
    \/ MemModel[program] = "PERFECT"
    \/ \A j \in Ids : (j > 1 /\ WrongPath(j - 1) /\ ~WrongPath(j)) => Op(j) # "LOAD"

(* What a squash destroys: it is in flight, from the squash number on,     *)
(* wrong-path or violating.                                                *)
LEMMA OnlyCulpritsDeleted ==
  ASSUME IInv, Unmixed, squashType = "BP_MISPRED", Culprit, turn = "SQUASH",
         NEW stop \in 0 .. Len(iQUE),
         \A n \in 1 .. stop : iQUE[n] > squashSN => isMemOrBrViolation(iQUE[n])
  PROVE  \A i \in Elements(Take(iQUE, stop)) : WrongPath(i)
<1> DEFINE out == Elements(Take(iQUE, stop))
           bad == {i \in out : ~WrongPath(i)}
<1>1. TypeOK /\ Ids \in SUBSET Nat /\ iQUE \in Seq(Ids) /\ Increasing(iQUE)
  BY Numbers, QueueTypes DEF IInv, InOrder
<1>2. /\ out = {iQUE[n] : n \in 1 .. stop} /\ out \subseteq Fetched
      /\ DownClosed(out, Fetched) /\ Fetched \subseteq Ids
  BY <1>1, TakeDropElements, IncreasingTakeDrop, ElementTypes DEF Fetched
<1>3. /\ squashSN \in InROB /\ squashSN \in Fetched /\ squashSN \in Nat
      /\ \A i \in Fetched : squashSN <= i /\ i \in Nat
  <2>1. squashSN \in InROB /\ squashSN \in Fetched
    BY DEF Culprit, IInv, WindowOrder, Window
  <2>2. pipe = "SQUASH_ROB"
    BY DEF IInv, Squashing
  <2>3. \A i \in Fetched : squashSN <= i
    BY <2>2 DEF IInv, Squashing
  <2> QED BY <1>1, <1>2, <2>1, <2>3
<1>4. WrongPath(squashSN)
  BY DEF Culprit
<1>5. \A i \in out : i > squashSN => isMemOrBrViolation(i)
  BY <1>2
<1> HIDE DEF out
<1>6. \A i \in bad : /\ i \in Fetched /\ i \in Ids /\ i \in Nat /\ squashSN < i
                     /\ ins[i].memViolation
  <2> TAKE i \in bad
  <2>1. i \in Fetched /\ i \in Ids /\ i \in Nat /\ squashSN <= i
    BY <1>2, <1>3
  <2>2. i # squashSN
    BY <1>4
  <2>3. squashSN < i
    BY <2>1, <2>2, <1>3
  <2>4. isMemOrBrViolation(i)
    BY <1>5, <2>3, <2>1, <1>3
  <2> QED BY <2>1, <2>3, <2>4 DEF isMemOrBrViolation
<1>7. SUFFICES ASSUME bad # {} PROVE FALSE
  BY DEF out
<1>8. PICK j \in bad : \A i \in bad : j <= i
  <2>1. bad \in SUBSET Nat
    BY <1>6
  <2> HIDE DEF bad
  <2> QED BY <1>7, <2>1, LeastNat
<1>9. /\ j \in Fetched /\ j \in Ids /\ j \in Nat /\ squashSN < j /\ ins[j].memViolation
      /\ j \in out /\ ~WrongPath(j)
  BY <1>6, <1>8
<1>10. MemModel[program] # "PERFECT"
  BY <1>9 DEF IInv, Disambiguated
<1>11. Op(j) = "LOAD"
  <2>1. j \in InROB
    BY <1>9 DEF IInv, Stages
  <2> QED BY <1>9, <2>1 DEF IInv, Stages
(* Its predecessor is destroyed too, and on the wrong path. *)
<1>12. j - 1 \in Nat /\ squashSN <= j - 1 /\ j - 1 < j /\ j > 1
  <2>1. squashSN > 0
    BY <1>1, <1>2, <1>3 DEF Ids
  <2> QED BY <1>3, <1>9, <2>1
<1>13. j - 1 \in Traced
  <2>1. squashSN .. supplied \subseteq Traced
    BY <1>3 DEF IInv, TraceOrder, Traced
  <2>2. j \in 1 .. supplied
    BY <1>9 DEF IInv, TraceOrder, Traced
  <2>3. supplied \in Nat
    BY <1>1, Numbers DEF TypeOK
  <2>4. j - 1 \in squashSN .. supplied
    BY <1>3, <1>9, <1>12, <2>2, <2>3
  <2> QED BY <2>1, <2>4
<1>14. j - 1 \in Fetched
  <2>1. j - 1 \in Elements(codeCache) => j < j - 1
    BY <1>9 DEF IInv, TraceOrder, Before
  <2> QED BY <1>9, <1>12, <1>13, <2>1 DEF Traced
<1>15. j - 1 \in out
  BY <1>2, <1>9, <1>12, <1>14 DEF DownClosed
<1>16. WrongPath(j - 1)
  <2>1. j - 1 \notin bad
    BY <1>8, <1>9, <1>12
  <2> QED BY <1>15, <2>1
<1> QED BY <1>9, <1>10, <1>11, <1>12, <1>16 DEF Unmixed

(* The instructions that are gone from iQUE and the code cache are retired *)
(* or on the wrong path.                                                   *)
LEMMA SquashAccounts ==
  ASSUME IInv, Unmixed, squash
  PROVE  /\ \A i \in Traced : i \in Traced' \/ WrongPath(i)
         /\ \A i \in deleted' : i \in deleted \/ WrongPath(i)
<1>1. PICK stop \in 0 .. Len(iQUE) :
        /\ codeCache' = Drop(iQUE, stop) \o codeCache
        /\ \/ /\ squashType = "BP_MISPRED"
              /\ deleted' = deleted \cup Elements(Take(iQUE, stop))
              /\ \A n \in 1 .. stop : iQUE[n] > squashSN => isMemOrBrViolation(iQUE[n])
           \/ squashType = "MEM_MISPRED" /\ stop = 0 /\ deleted' = deleted
  BY SquashShape
<1>2. iQUE \in Seq(Ids) /\ codeCache \in Seq(Ids)
  BY QueueTypes DEF IInv
<1>3. turn = "SQUASH" /\ Culprit
  BY DEF squash, IInv, Squashing
<1>4. /\ Elements(codeCache') = Elements(Drop(iQUE, stop)) \cup Elements(codeCache)
      /\ Fetched = Elements(Take(iQUE, stop)) \cup Elements(Drop(iQUE, stop))
  <2>1. Drop(iQUE, stop) \in Seq(Ids)
    BY <1>2, TakeDrop
  <2> DEFINE back == Drop(iQUE, stop)
  <2> HIDE DEF back
  <2>2. back \in Seq(Ids) /\ codeCache \in Seq(Ids)
    BY <1>2, <2>1 DEF back
  <2>3. Elements(back \o codeCache) = Elements(back) \cup Elements(codeCache)
    BY <2>2, Concat
  <2> QED BY <1>1, <1>2, <2>3, TakeDropElements DEF back, Fetched
<1>5. \A i \in Elements(Take(iQUE, stop)) : WrongPath(i)
  <2>1. CASE squashType = "BP_MISPRED"
    BY <1>1, <1>3, <2>1, OnlyCulpritsDeleted
  <2>2. CASE stop = 0
    BY <1>2, <2>2, TakeDropElements
  <2> QED BY <1>1, <2>1, <2>2
<1> QED BY <1>1, <1>4, <1>5 DEF Traced

(* A commit moves the oldest instructions of iQUE to the retired ones. *)
LEMMA CommitAccounts ==
  ASSUME IInv, doCOMMIT
  PROVE  /\ codeCache' = codeCache /\ Elements(retired) \cup Traced = Elements(retired') \cup Traced'
         /\ retired' \in Seq(Ids)
         /\ \E k \in 0 .. Width : Len(retired') = Len(retired) + k
<1>1. TypeOK /\ Ids \in SUBSET Nat /\ Width \in Nat
  BY Numbers, Sizes DEF IInv
<1>2. /\ ROB \in Seq(Ids) /\ Increasing(ROB) /\ iQUE \in Seq(Ids) /\ Increasing(iQUE)
      /\ retired \in Seq(Ids) /\ Len(retired) \in Nat /\ Len(ROB) \in Nat
  BY <1>1, QueueTypes DEF IInv, InOrder
<1>3. codeCache' = codeCache
  BY DEF doCOMMIT, frontVars
<1>4. CASE pipe \in {"WAIT_FLUSH", "FLUSH"}
  <2>1. retired' = retired /\ iQUE' = iQUE
    BY <1>4 DEF doCOMMIT
  <2> QED BY <1>1, <1>2, <1>3, <2>1 DEF Traced, Fetched
<1>5. CASE pipe \notin {"WAIT_FLUSH", "FLUSH"}
  <2> DEFINE new(k) == Take(ROB, k)
  <2>1. PICK k \in 0 .. Width :
          k <= Len(ROB) /\ iQUE' = Drop(iQUE, k) /\ retired' = retired \o new(k)
    BY <1>5 DEF doCOMMIT, commitImpl
  <2>2. k \in 0 .. Len(ROB)
    BY <1>1, <1>2, <2>1
  <2>3. InROB \subseteq Fetched /\ DownClosed(InROB, Fetched)
    BY DEF IInv, WindowOrder, Window
  <2>4. IsPrefixOf(ROB, iQUE)
    BY <1>1, <1>2, <2>3, LeastElementsPrefix DEF InROB, Fetched
  <2>5. Len(ROB) \in 0 .. Len(iQUE) /\ \A n \in 0 .. Len(ROB) : Take(ROB, n) = Take(iQUE, n)
    BY <1>2, <2>4, PrefixTake
  <2>6. new(k) = Take(iQUE, k) /\ k \in 0 .. Len(iQUE)
    BY <1>2, <2>2, <2>5
  <2>7. new(k) \in Seq(Ids) /\ Len(new(k)) = k
    BY <1>2, <2>2, TakeDrop
  <2>8. Fetched = Elements(new(k)) \cup Fetched'
    BY <1>2, <2>1, <2>6, TakeDropElements DEF Fetched
  <2>9. /\ retired' \in Seq(Ids) /\ Len(retired') = Len(retired) + k
        /\ Elements(retired') = Elements(retired) \cup Elements(new(k))
    <3> HIDE DEF new
    <3> DEFINE n == new(k)
    <3>1. n \in Seq(Ids) /\ Len(n) = k
      BY <2>7
    <3>2. retired' = retired \o n
      BY <2>1
    <3> HIDE DEF n
    <3>3. /\ retired \o n \in Seq(Ids) /\ Len(retired \o n) = Len(retired) + Len(n)
          /\ Elements(retired \o n) = Elements(retired) \cup Elements(n)
      BY <1>2, <3>1, Concat, SMTT(30)
    <3> QED BY <3>1, <3>2, <3>3 DEF n
  <2> QED BY <1>3, <2>8, <2>9 DEF Traced
<1> QED BY <1>4, <1>5

(* Fetch moves instructions from the code cache to iQUE. *)
LEMMA FetchAccounts ==
  ASSUME IInv, doFETCH
  PROVE  Traced' = Traced /\ retired' = retired
<1>1. TypeOK /\ codeCache \in Seq(Ids) /\ iQUE \in Seq(Ids) /\ fetchPort \in Seq(Ids)
  BY QueueTypes DEF IInv
<1>2. CASE pipe # "NORMAL"
  BY <1>2 DEF doFETCH, history, Traced, Fetched
<1>3. CASE pipe = "NORMAL"
  <2> DEFINE k == Min({Width, Len(codeCache), PortLen - Len(fetchPort)})
             new == Take(codeCache, k)
  <2>1. codeCache' = Drop(codeCache, k) /\ iQUE' = iQUE \o new
    BY <1>3 DEF doFETCH, fetchImpl
  <2>2. k \in 0 .. Len(codeCache)
    <3> DEFINE M == {Width, Len(codeCache), PortLen - Len(fetchPort)}
    <3>1. Width \in Nat /\ PortLen \in Nat /\ Len(fetchPort) <= PortLen
      BY <1>1, Sizes
    <3>2. Len(codeCache) \in Nat /\ Len(fetchPort) \in Nat
      BY <1>1, ElementsIn
    <3>3. \E x \in M : \A y \in M : x <= y
      BY <3>1, <3>2
    <3>4. Min(M) \in M /\ \A y \in M : Min(M) <= y
      <4> HIDE DEF M
      <4> QED BY <3>3 DEF Min
    <3> QED BY <3>1, <3>2, <3>4
  <2> HIDE DEF k
  <2>3. new \in Seq(Ids) /\ Elements(codeCache) = Elements(new) \cup Elements(codeCache')
    BY <1>1, <2>1, <2>2, TakeDrop, TakeDropElements
  <2> HIDE DEF new
  <2>4. Elements(iQUE \o new) = Elements(iQUE) \cup Elements(new)
    BY <1>1, <2>3, Concat
  <2>5. retired' = retired
    BY DEF doFETCH, history
  <2> QED BY <2>1, <2>3, <2>4, <2>5 DEF Traced, Fetched
<1> QED BY <1>2, <1>3

(* The frontend adds to the end of the code cache. *)
LEMMA FrontendAccounts ==
  ASSUME IInv, frontend
  PROVE  /\ retired' = retired /\ supplied \in Nat /\ supplied' \in Nat
         /\ Traced' = Traced \cup supplied + 1 .. supplied'
<1>1. PICK n \in {m \in supplyPoints : m > supplied} :
        /\ supplied' = n
        /\ codeCache' = codeCache \o [i \in 1 .. n - supplied |-> supplied + i]
  BY DEF frontend
<1>2. TypeOK /\ codeCache \in Seq(Ids) /\ Ids \in SUBSET Nat /\ Len(program) \in Nat
  BY QueueTypes, Numbers DEF IInv
<1>3. n \in Ids /\ n \in Nat /\ supplied \in Nat /\ supplied < n
  <2>1. n \in Ids /\ supplied < n
    BY <1>1 DEF supplyPoints
  <2> QED BY <1>2, <2>1 DEF TypeOK
<1> DEFINE new == [i \in 1 .. n - supplied |-> supplied + i]
<1>4. /\ new \in Seq(Ids) /\ Elements(new) = supplied + 1 .. n
  <2>1. n - supplied \in Nat /\ 1 .. n \subseteq Ids
    BY <1>2, <1>3 DEF Ids
  <2>2. Len(new) = n - supplied
    BY <2>1
  <2>3. \A i \in 1 .. n - supplied : supplied + i \in 1 .. n
    BY <1>3
  <2>4. new \in Seq(Ids)
    BY <2>1, <2>3
  <2>5. Elements(new) = {supplied + i : i \in 1 .. n - supplied}
    BY <2>2 DEF Elements
  <2>6. \A j \in supplied + 1 .. n : j - supplied \in 1 .. n - supplied
                                     /\ j = supplied + (j - supplied)
    BY <1>3
  <2>7. \A i \in 1 .. n - supplied : supplied + i \in supplied + 1 .. n
    BY <1>3
  <2>8. {supplied + i : i \in 1 .. n - supplied} = supplied + 1 .. n
    BY <2>6, <2>7
  <2> QED BY <2>4, <2>5, <2>8
<1> HIDE DEF new
<1>5. codeCache' = codeCache \o new
  BY <1>1 DEF new
<1>6. Elements(codeCache \o new) = Elements(codeCache) \cup Elements(new)
  <2>1. codeCache \in Seq(Ids) /\ new \in Seq(Ids)
    BY <1>2, <1>4
  <2> QED BY <2>1, Concat
<1>7. retired' = retired /\ iQUE' = iQUE
  BY DEF frontend, history, queues
<1> QED BY <1>1, <1>3, <1>4, <1>5, <1>6, <1>7 DEF Traced, Fetched

-----------------------------------------------------------------------------
(* In-order commit. *)

JInv == IInv /\ Unmixed /\ Accounted /\ OnlyWrongPathDeleted

(* What the retired instructions are the front of. *)
toCommit == RightPath(TraceUpTo(Len(program)))
RetiredInOrder == retired = Take(toCommit, Len(retired)) /\ Len(retired) \in 0 .. Len(toCommit)

LEMMA TraceQueue ==
  ASSUME TypeOK, NEW n \in 0 .. Len(program)
  PROVE  /\ RightPath(TraceUpTo(n)) \in Seq(Ids)
         /\ Increasing(RightPath(TraceUpTo(n)))
         /\ Elements(RightPath(TraceUpTo(n))) = RightPathIds \cap 1 .. n
<1> DEFINE t == TraceUpTo(n)
<1>1. Len(program) \in Nat /\ n \in Nat /\ Ids \in SUBSET Nat /\ 1 .. n \subseteq Ids
  <2>1. Len(program) \in Nat /\ Ids \in SUBSET Nat
    BY Numbers
  <2> QED BY <2>1 DEF Ids
<1>2. Len(t) = n /\ (\A i \in 1 .. n : t[i] = i) /\ t \in Seq(Ids)
  BY <1>1 DEF TraceUpTo
<1>3. Elements(t) = 1 .. n /\ Increasing(t)
  BY <1>1, <1>2 DEF Elements, Increasing
<1> HIDE DEF t
<1>4. /\ Filter(t, RightPathIds) \in Seq(Ids) /\ Increasing(Filter(t, RightPathIds))
      /\ Elements(Filter(t, RightPathIds)) = Elements(t) \cap RightPathIds
  BY <1>1, <1>2, <1>3, FilterQueue
<1> QED BY <1>3, <1>4 DEF RightPath, t

LEMMA RetiredFront ==
  ASSUME JInv
  PROVE  RetiredInOrder
<1>1. TypeOK /\ Ids \in SUBSET Nat /\ retired \in Seq(Ids) /\ Increasing(retired)
      /\ Len(program) \in Nat /\ supplied \in Nat
  <2>1. TypeOK
    BY DEF JInv, IInv
  <2>2. Len(program) \in Nat /\ Ids \in SUBSET Nat
    BY <2>1, Numbers
  <2>3. supplied \in Nat
    BY <2>1, <2>2 DEF TypeOK
  <2> QED BY <2>1, <2>2, <2>3, QueueTypes DEF JInv, IInv, InOrder
<1>2. /\ toCommit \in Seq(Ids) /\ Increasing(toCommit)
      /\ Elements(toCommit) = RightPathIds
  <2>1. Len(program) \in 0 .. Len(program)
    BY <1>1
  <2>2. RightPathIds \cap 1 .. Len(program) = RightPathIds
    BY <1>1, Numbers
  <2> QED BY <1>1, <2>1, <2>2, TraceQueue DEF toCommit
<1>3. Elements(retired) \subseteq RightPathIds
  BY DEF JInv, IInv, TraceOrder
<1>4. DownClosed(Elements(retired), RightPathIds)
  <2> SUFFICES ASSUME NEW i \in Elements(retired), NEW j \in RightPathIds, j < i
               PROVE  j \in Elements(retired)
    BY DEF DownClosed
  <2>1. i \in 1 .. supplied
    BY DEF JInv, IInv, TraceOrder
  <2>2. j \in Ids /\ j \in Nat /\ ~WrongPath(j) /\ j > 0
    BY <1>1 DEF RightPathIds, Ids
  <2>3. j \in 1 .. supplied
    BY <1>1, <2>1, <2>2
  <2>4. j \in Elements(retired) \cup Traced
    BY <2>2, <2>3 DEF JInv, Accounted
  <2>5. j \in Traced => i < j
    BY DEF JInv, IInv, TraceOrder, Before
  <2> QED BY <2>1, <2>2, <2>4, <2>5
<1> HIDE DEF toCommit
<1> QED BY <1>1, <1>2, <1>3, <1>4, OldestAreFront DEF RetiredInOrder

LEMMA JInvStep ==
  ASSUME JInv, [Next]_vars
  PROVE  JInv'
<1>1. IInv'
  BY NextHolds DEF JInv
<1>2. program' = program
  BY DEF Next, doCOMMIT, doMEMORY, doEXECUTION, squash, doSCHEDULER, doDECODE, doFETCH,
     frontend, halted, vars, work, frontVars
<1>3. Unmixed'
  BY <1>2 DEF JInv, Unmixed, Ids, WrongPath, Op
<1>4. Accounted'
  <2>1. \A i \in 1 .. supplied : ~WrongPath(i) => i \in Elements(retired) \cup Traced
    BY DEF JInv, Accounted
  <2>2. SUFFICES \A i \in 1 .. supplied' :
                   ~WrongPath(i) => i \in Elements(retired') \cup Traced'
    BY <1>2 DEF Accounted, WrongPath
  <2>3. CASE doCOMMIT
    <3>1. supplied' = supplied
      BY <2>3 DEF doCOMMIT, frontVars
    <3> QED BY <2>1, <2>3, <3>1, CommitAccounts DEF JInv
  <2>4. CASE squash
    <3>1. supplied' = supplied /\ retired' = retired
      BY <2>4 DEF squash
    <3> QED BY <2>1, <2>4, <3>1, SquashAccounts DEF JInv
  <2>5. CASE doFETCH
    <3>1. supplied' = supplied
      BY <2>5 DEF doFETCH
    <3> QED BY <2>1, <2>5, <3>1, FetchAccounts DEF JInv
  <2>6. CASE frontend
    <3>1. /\ retired' = retired /\ supplied \in Nat /\ supplied' \in Nat
          /\ Traced' = Traced \cup supplied + 1 .. supplied'
      BY <2>6, FrontendAccounts DEF JInv
    <3>2. \A i \in 1 .. supplied' : i \in 1 .. supplied \/ i \in supplied + 1 .. supplied'
      BY <3>1
    <3> QED BY <2>1, <3>1, <3>2
  <2>7. ASSUME ~doCOMMIT, ~squash, ~doFETCH, ~frontend
        PROVE  UNCHANGED <<supplied, retired, iQUE, codeCache>>
    BY <2>7 DEF Next, doMEMORY, doEXECUTION, doSCHEDULER, doDECODE, halted, vars, work,
       frontVars, history, queues
  <2>8. CASE UNCHANGED <<supplied, retired, iQUE, codeCache>>
    BY <2>1, <2>8 DEF Traced, Fetched
  <2> QED BY <2>3, <2>4, <2>5, <2>6, <2>7, <2>8
<1>5. OnlyWrongPathDeleted'
  <2>1. CASE squash
    BY <1>2, <2>1, SquashAccounts DEF JInv, OnlyWrongPathDeleted, WrongPath
  <2>2. ASSUME ~squash PROVE deleted' = deleted
    BY <2>2 DEF Next, doCOMMIT, doMEMORY, doEXECUTION, doSCHEDULER, doDECODE, doFETCH,
     frontend, halted, vars, work, history
  <2> QED BY <1>2, <2>1, <2>2 DEF JInv, OnlyWrongPathDeleted, WrongPath
<1> QED BY <1>1, <1>3, <1>4, <1>5 DEF JInv

LEMMA JInvInit ==
  ASSUME Init, Unmixed
  PROVE  JInv
<1>1. IInv
  BY InitHolds
<1>2. Elements(codeCache) = 1 .. supplied
  <2>1. TypeOK /\ Len(program) \in Nat
    BY <1>1, Numbers DEF IInv
  <2>2. supplied \in Nat
    BY <2>1 DEF TypeOK
  <2>3. Len(codeCache) = supplied /\ \A i \in 1 .. supplied : codeCache[i] = i
    BY <2>2 DEF Init
  <2> QED BY <2>3 DEF Elements
<1>3. Accounted
  BY <1>2 DEF Accounted, Traced
<1>4. OnlyWrongPathDeleted
  BY DEF Init, OnlyWrongPathDeleted
<1> QED BY <1>1, <1>3, <1>4 DEF JInv

(* When no load follows the wrong path immediately, or disambiguation is   *)
(* perfect, nothing is lost: what has retired, what is in flight and what  *)
(* waits are, in order, the right path supplied so far.                    *)
THEOREM NothingLost == Spec /\ Unmixed => []EveryInstructionAccountedFor
<1>1. ASSUME JInv PROVE EveryInstructionAccountedFor
  <2> DEFINE q == iQUE \o codeCache
             r == Filter(q, RightPathIds)
             all == retired \o r
             trace == RightPath(TraceUpTo(supplied))
  <2>1. TypeOK /\ Ids \in SUBSET Nat /\ supplied \in 0 .. Len(program)
    <3>1. TypeOK
      BY <1>1 DEF JInv, IInv
    <3> QED BY <3>1, Numbers DEF TypeOK
  <2>2. /\ iQUE \in Seq(Ids) /\ Increasing(iQUE) /\ codeCache \in Seq(Ids)
        /\ Increasing(codeCache) /\ retired \in Seq(Ids) /\ Increasing(retired)
    BY <1>1, <2>1, QueueTypes DEF JInv, IInv, InOrder
  <2>3. Before(Elements(iQUE), Elements(codeCache))
    BY <1>1 DEF JInv, IInv, TraceOrder, Fetched
  <2>4. q \in Seq(Ids) /\ Elements(q) = Traced
    <3>1. iQUE \in Seq(Ids) /\ codeCache \in Seq(Ids)
      BY <2>2
    <3> QED BY <3>1, Concat DEF Traced, Fetched
  <2>5. Increasing(q)
    BY <2>2, <2>3, Concat
  <2> HIDE DEF q
  <2>6. r \in Seq(Ids) /\ Increasing(r) /\ Elements(r) = Traced \cap RightPathIds
    BY <2>1, <2>4, <2>5, FilterQueue
  <2>7. Before(Elements(retired), Elements(r))
    BY <1>1, <2>6 DEF JInv, IInv, TraceOrder, Before
  <2> HIDE DEF r
  <2>8. all \in Seq(Ids) /\ Elements(all) = Elements(retired) \cup Elements(r)
    <3>1. retired \in Seq(Ids) /\ r \in Seq(Ids)
      BY <2>2, <2>6
    <3> QED BY <3>1, Concat
  <2>9. Increasing(all)
    BY <2>2, <2>6, <2>7, Concat
  <2>10. /\ trace \in Seq(Ids) /\ Increasing(trace)
         /\ Elements(trace) = RightPathIds \cap 1 .. supplied
    BY <2>1, TraceQueue
  <2>11. Elements(all) = Elements(trace)
    <3>1. /\ Elements(retired) \cup Traced \subseteq 1 .. supplied
          /\ Elements(retired) \subseteq RightPathIds
      BY <1>1 DEF JInv, IInv, TraceOrder
    <3>2. ASSUME NEW i \in RightPathIds, i \in 1 .. supplied
          PROVE  i \in Elements(retired) \cup (Traced \cap RightPathIds)
      BY <1>1, <3>2 DEF JInv, Accounted, RightPathIds
    <3> QED BY <2>6, <2>8, <2>10, <3>1, <3>2
  <2> HIDE DEF all, trace
  <2>12. all = trace
    BY <2>1, <2>8, <2>9, <2>10, <2>11, SameElements
  <2> QED BY <2>12 DEF all, trace, r, q, RightPath, EveryInstructionAccountedFor
<1>2. Init /\ Unmixed => JInv
  BY JInvInit
<1>3. JInv /\ [Next]_vars => JInv'
  BY JInvStep
<1> QED BY <1>1, <1>2, <1>3, PTL DEF Spec

(* Under the same condition a squash destroys only wrong-path              *)
(* instructions, as o3_commit::bpMispredSquash says it does.               *)
THEOREM WrongPathDeleted == Spec /\ Unmixed => []OnlyWrongPathDeleted
<1>1. JInv => OnlyWrongPathDeleted
  BY DEF JInv
<1>2. Init /\ Unmixed => JInv
  BY JInvInit
<1>3. JInv /\ [Next]_vars => JInv'
  BY JInvStep
<1> QED BY <1>1, <1>2, <1>3, PTL DEF Spec

(* Under the same condition the core implements in-order commit of the     *)
(* right path: whatever it speculates, squashes and fetches again, each    *)
(* step retires the next few right-path instructions or none (o3_commit).  *)
THEOREM CommitsInOrder == Spec /\ Unmixed => CommitOrder!SafeSpec
<1>1. Init => CommitOrder!Init
  BY DEF Init, CommitOrder!Init
<1>2. JInv => RetiredInOrder
  BY RetiredFront
<1>3. ASSUME JInv, RetiredInOrder, RetiredInOrder', [Next]_vars
      PROVE  [CommitOrder!Commit]_(CommitOrder!vars)
  <2>1. program' = program
    BY <1>3 DEF Next, doCOMMIT, doMEMORY, doEXECUTION, squash, doSCHEDULER, doDECODE,
       doFETCH, frontend, halted, vars, work, frontVars
  <2>2. toCommit' = toCommit
    <3>1. RightPathIds' = RightPathIds
      BY <2>1, ProgramStays
    <3> QED BY <2>1, <3>1 DEF toCommit, RightPath, TraceUpTo
  <2>3. CASE retired' = retired
    BY <2>2, <2>3 DEF CommitOrder!vars, toCommit
  <2>4. CASE doCOMMIT
    <3>1. PICK k \in 0 .. Width : Len(retired') = Len(retired) + k
      BY <1>3, <2>4, CommitAccounts DEF JInv
    <3>2. /\ retired = Take(toCommit, Len(retired)) /\ Len(retired) \in 0 .. Len(toCommit)
          /\ retired' = Take(toCommit, Len(retired) + k)
          /\ Len(retired) + k \in 0 .. Len(toCommit)
      BY <1>3, <2>2, <3>1 DEF RetiredInOrder
    <3>3. Width \in Nat
      BY SizesAssumption
    <3>4. Len(retired) \in Nat
      BY <3>2
    <3>5. CASE k = 0
      <4>1. Len(retired) + k = Len(retired)
        BY <3>4, <3>5
      <4>2. retired' = retired
        BY <3>2, <4>1
      <4> QED BY <2>3, <4>2
    <3>6. CASE k # 0
      <4>1. k \in 1 .. Width
        BY <3>3, <3>6
      <4>2. Len(retired) + k <= Len(toCommit)
        BY <3>2, <3>3, <3>4
      <4>3. retired' = SubSeq(toCommit, 1, Len(retired) + k)
        BY <3>2 DEF Take
      <4> QED BY <2>2, <4>1, <4>2, <4>3 DEF CommitOrder!Commit, toCommit
    <3> QED BY <3>5, <3>6
  <2>5. ASSUME ~doCOMMIT PROVE retired' = retired
    BY <1>3, <2>5 DEF Next, doMEMORY, doEXECUTION, squash, doSCHEDULER, doDECODE,
       doFETCH, frontend, halted, vars, work, history
  <2> QED BY <2>3, <2>4, <2>5
<1>4. Init /\ Unmixed => JInv
  BY JInvInit
<1>5. JInv /\ [Next]_vars => JInv'
  BY JInvStep
<1> QED BY <1>1, <1>2, <1>3, <1>4, <1>5, PTL DEF Spec, CommitOrder!SafeSpec
=============================================================================
