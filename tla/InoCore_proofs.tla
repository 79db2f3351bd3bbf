--------------------------- MODULE InoCore_proofs ---------------------------
(***************************************************************************)
(* The inductive invariant of the in-order pipeline, for every program,    *)
(* queue size and width, the proof that every stage keeps it, and what     *)
(* follows from it: the scoreboard is exact, no wrong-path store reaches   *)
(* the cache unless an older access was held back, a squash destroys only  *)
(* the wrong path, and commit is in order, of the whole right path.        *)
(*                                                                         *)
(* IInv speaks of the sets of the instructions in each queue and of the    *)
(* order between them: a queue in program order is determined by its       *)
(* elements (Queues_proofs).                                               *)
(***************************************************************************)
EXTENDS InoCore, Queues_proofs

(* What is in flight between the stages. *)
Units == Elements(EU) \ {NoIns}
Fetched == Elements(iQUE)
InROB == Elements(iROB)
Window == InROB \cup Elements(decodePort) \cup Elements(fetchPort)
Waiting == Elements(issuePort) \cup Elements(iWindow)
Accesses == Elements(memPort) \cup Elements(memBuff)
Traced == Fetched \cup Elements(codeCache)

(* The flush has reached the queues of the stages that have had their turn *)
(* in the flush cycle; those that still have it are in turns.              *)
FlushedIn(turns) ==
    pipe \in {"DRAIN", "SQUASH_ROB"} \/ (pipe = "FLUSH" /\ turn \in turns)

(* Every queue up to issue is in program order; behind it an instruction   *)
(* is in one place.                                                        *)
InOrder ==
    /\ Increasing(codeCache) /\ Increasing(iQUE) /\ Increasing(fetchPort)
    /\ Increasing(decodePort) /\ Increasing(iWindow) /\ Increasing(issuePort)
    /\ Increasing(iROB) /\ Increasing(retired)
    /\ Distinct(memPort) /\ Distinct(memBuff)
    /\ Elements(memPort) \cap Elements(memBuff) = {}
    /\ \A d, e \in 1 .. Width : EU[d] = EU[e] => d = e \/ EU[d] = NoIns

(* Retired instructions, those in flight and those not fetched follow one  *)
(* another, and from the oldest in flight on nothing is missing.           *)
TraceOrder ==
    /\ Before(Elements(retired), Traced)
    /\ Before(Fetched, Elements(codeCache))
    /\ Elements(retired) \cup Traced \subseteq 1 .. supplied
    /\ Elements(retired) \subseteq RightPathIds
    /\ \A i \in Traced : i .. supplied \subseteq Traced

(* iROB and the front-end ports hold the oldest instructions of iQUE.      *)
WindowOrder ==
    /\ Before(InROB, Elements(decodePort) \cup Elements(fetchPort))
    /\ Before(Elements(decodePort), Elements(fetchPort))
    /\ Window \subseteq Fetched
    /\ DownClosed(InROB, Fetched)
    /\ pipe = "NORMAL" => Fetched \subseteq Window
    /\ FlushedIn({"FETCH", "COMMIT", "MEMORY", "EXECUTE"}) => decodePort = << >>
    /\ FlushedIn({"COMMIT", "MEMORY", "EXECUTE"}) => fetchPort = << >>

(* Issue is in order: what has left issuePort is older than what waits.    *)
Begun == {i \in Fetched : stage[i] \in {"EXECUTE", "MEM_ACCESS", "COMPLETE"}}

IssueOrder ==
    /\ Waiting \subseteq InROB
    /\ Before(Elements(issuePort), Elements(iWindow))
    /\ Before(Begun, Waiting)

(* Where an instruction is, and the stage it says it is at. *)
StagesTrue ==
    /\ \A i \in Elements(fetchPort) : stage[i] = "FETCH"
    /\ \A i \in Elements(decodePort) : stage[i] = "DECODE"
    /\ \A i \in Fetched \ InROB : stage[i] \in {"FETCH", "DECODE"}
    /\ \A i \in Elements(iWindow) : stage[i] = "DISPATCH"
    /\ \A i \in Elements(issuePort) : stage[i] = "ISSUE"
    /\ \A i \in Units : i \in InROB /\ stage[i] = "EXECUTE"
    /\ \A i \in Accesses : i \in InROB /\ stage[i] = "MEM_ACCESS"

(* The squash number is a wrong-path instruction that has left its unit.   *)
Culprit ==
    /\ squashSN \in InROB
    /\ WrongPath(squashSN) /\ stage[squashSN] \in {"MEM_ACCESS", "COMPLETE"}

Squashing ==
    /\ pipe = "NORMAL" =>
         /\ squashSN = 0
         /\ \A i \in Fetched :
              stage[i] \in {"MEM_ACCESS", "COMPLETE"} => ~WrongPath(i)
    /\ pipe \in {"WAIT_FLUSH", "FLUSH", "DRAIN"} => Culprit
    /\ pipe = "SQUASH_ROB" /\ turn = "SQUASH" =>
         Culprit /\ \A i \in Fetched : squashSN <= i
    /\ pipe = "SQUASH_ROB" /\ turn # "SQUASH" => iROB = << >> /\ iQUE = << >>
    /\ turn = "SQUASH" => pipe = "SQUASH_ROB"
    /\ turn \in {"FRONTEND", "HALT"} => pipe = "NORMAL"

(* A queue of memory accesses from which the flush has taken the back. *)
EndsBefore(q, sn) == q = << >> \/ q[Len(q)] < sn

(* How far a flush has come. *)
Flushing ==
    /\ FlushedIn({"DECODE", "FETCH", "COMMIT", "MEMORY", "EXECUTE"}) => Waiting = {}
    /\ pipe \in {"FLUSH", "DRAIN", "SQUASH_ROB"} =>
         Units = {} /\ EndsBefore(memPort, squashSN)
    /\ FlushedIn({"EXECUTE"}) => memPort # << >> \/ EndsBefore(memBuff, squashSN)
    /\ pipe = "SQUASH_ROB" => memPort = << >> /\ memBuff = << >>

(* Every right-path instruction supplied is retired, in flight or waiting, *)
(* and what a squash has destroyed is on the wrong path.                   *)
Accounted ==
    /\ \A i \in 1 .. supplied : ~WrongPath(i) => i \in Elements(retired) \cup Traced
    /\ \A i \in deleted : WrongPath(i)

IInv == /\ TypeOK /\ InOrder /\ TraceOrder /\ WindowOrder /\ IssueOrder /\ StagesTrue
        /\ ScoreboardExact /\ Squashing /\ Flushing /\ Accounted

-----------------------------------------------------------------------------
(* Types. *)

(* The sequence numbers, and what the program says of them. *)
LEMMA Numbers ==
  ASSUME TypeOK
  PROVE  /\ Len(program) \in Nat
         /\ Ids \in SUBSET Nat /\ NoIns \notin Ids
         /\ \A i \in Ids : /\ i \in 1 .. Len(program)
                           /\ Op(i) \in {"ALU", "LOAD", "STORE"}
                           /\ WrongPath(i) \in BOOLEAN
                           /\ IsFiniteSet(wr(i)) /\ wr(i) \subseteq Regs
         /\ RightPathIds \subseteq Ids
<1> DEFINE R == [op : {"ALU", "LOAD", "STORE"}, rd : SUBSET Nat,
                 wr : SUBSET Nat, wrongPath : BOOLEAN]
<1>1. program \in Seq(R) /\ \A i \in 1 .. Len(program) : IsFiniteSet(program[i].wr)
  BY ProgramsAssumption DEF TypeOK
<1>2. Len(program) \in Nat /\ \A i \in 1 .. Len(program) : program[i] \in R
  <2> HIDE DEF R
  <2> QED BY <1>1
<1>3. \A i \in 1 .. Len(program) : /\ Op(i) \in {"ALU", "LOAD", "STORE"}
                                  /\ WrongPath(i) \in BOOLEAN
  BY <1>2 DEF Op, WrongPath
<1>4. Ids \in SUBSET Nat /\ NoIns \notin Ids
  BY <1>2 DEF Ids, NoIns
<1>5. \A i \in Ids : IsFiniteSet(wr(i)) /\ wr(i) \subseteq Regs
  BY <1>1 DEF wr, Regs, Ids
<1> QED BY <1>2, <1>3, <1>4, <1>5 DEF Ids, RightPathIds

(* The program stays, and what is defined from it. *)
LEMMA ProgramStays ==
  ASSUME program' = program
  PROVE  /\ Ids' = Ids /\ RightPathIds' = RightPathIds /\ Regs' = Regs
         /\ supplyPoints' = supplyPoints
BY DEF Ids, RightPathIds, supplyPoints, Regs, WrongPath, rd, wr

LEMMA QueueTypes ==
  ASSUME TypeOK
  PROVE  /\ codeCache \in Seq(Ids) /\ iQUE \in Seq(Ids) /\ fetchPort \in Seq(Ids)
         /\ decodePort \in Seq(Ids) /\ iWindow \in Seq(Ids) /\ issuePort \in Seq(Ids)
         /\ memPort \in Seq(Ids) /\ memBuff \in Seq(Ids) /\ iROB \in Seq(Ids)
         /\ retired \in Seq(Ids)
BY DEF TypeOK

LEMMA ElementTypes ==
  ASSUME TypeOK
  PROVE  /\ Elements(codeCache) \subseteq Ids /\ Fetched \subseteq Ids
         /\ Elements(fetchPort) \subseteq Ids /\ Elements(decodePort) \subseteq Ids
         /\ Waiting \subseteq Ids /\ Accesses \subseteq Ids
         /\ InROB \subseteq Ids /\ Elements(retired) \subseteq Ids
         /\ Units = {EU[e] : e \in 1 .. Width} \ {NoIns} /\ Units \subseteq Ids
<1>1. Units = {EU[e] : e \in 1 .. Width} \ {NoIns} /\ Units \subseteq Ids
  <2>1. EU \in [1 .. Width -> Ids \cup {NoIns}] /\ Width \in Nat
    BY SizesAssumption DEF TypeOK
  <2>2. Len(EU) = Width
    BY <2>1
  <2>3. Units = {EU[e] : e \in 1 .. Width} \ {NoIns}
    BY <2>2 DEF Units, Elements
  <2> QED BY <2>1, <2>3
<1> QED BY <1>1, QueueTypes, ElementsIn DEF Fetched, InROB, Waiting, Accesses

LEMMA Sizes ==
  ASSUME TypeOK
  PROVE  /\ {Width, MemWidth, PortLen, MemPortLen, WinSize, RobSize, MemBuffLen, WrWires}
              \subseteq Nat \ {0}
         /\ Len(fetchPort) <= PortLen /\ Len(decodePort) <= PortLen
         /\ Len(issuePort) <= PortLen /\ Len(memPort) <= MemPortLen
         /\ Len(memBuff) <= MemBuffLen /\ Len(iWindow) <= WinSize /\ Len(iROB) <= RobSize
BY SizesAssumption DEF TypeOK

(* A flush takes a queue's back as far as its youngest older entry. *)
LEMMA FlushBackTake ==
  ASSUME NEW D \in SUBSET Nat, NEW q \in Seq(D), NEW sn \in Nat
  PROVE  \E k \in 0 .. Len(q) :
           /\ FlushBack(q, sn) = Take(q, k)
           /\ k = 0 \/ q[k] < sn
           /\ \A n \in 1 .. Len(q) : q[n] < sn => n <= k
<1> DEFINE M == {0} \cup {n \in 1 .. Len(q) : q[n] < sn}
           k == Max(M)
<1>0. Len(q) \in Nat
  BY ElementsIn
<1>1. k \in M /\ \A n \in M : k >= n
  <2>1. M \in SUBSET Nat /\ M # {} /\ \A n \in M : n <= Len(q)
    BY <1>0
  <2> HIDE DEF M
  <2>2. \E n \in M : \A m \in M : m <= n
    BY <2>1, <1>0, GreatestNat
  <2>3. \E n \in M : \A m \in M : n >= m
    BY <2>1, <2>2
  <2> QED BY <2>3 DEF Max
<1>2. FlushBack(q, sn) = Take(q, k)
  BY DEF FlushBack
<1>3. k \in 0 .. Len(q)
  BY <1>0, <1>1
<1> HIDE DEF k
<1>4. k = 0 \/ q[k] < sn
  BY <1>1
<1>5. \A n \in 1 .. Len(q) : q[n] < sn => n <= k
  BY <1>1, <1>3
<1> QED BY <1>2, <1>3, <1>4, <1>5

LEMMA FlushBackElements ==
  ASSUME NEW D \in SUBSET Nat, NEW q \in Seq(D), NEW sn \in Nat
  PROVE  /\ FlushBack(q, sn) \in Seq(D)
         /\ Len(FlushBack(q, sn)) <= Len(q)
         /\ Elements(FlushBack(q, sn)) \subseteq Elements(q)
         /\ EndsBefore(FlushBack(q, sn), sn)
         /\ Increasing(q) => Increasing(FlushBack(q, sn))
         /\ Distinct(q) => Distinct(FlushBack(q, sn))
<1>1. PICK k \in 0 .. Len(q) : FlushBack(q, sn) = Take(q, k) /\ (k = 0 \/ q[k] < sn)
  BY FlushBackTake
<1> DEFINE t == Take(q, k)
<1>2. t \in Seq(D) /\ Len(t) = k /\ \A n \in 1 .. k : t[n] = q[n]
  BY TakeDrop
<1>3. Elements(t) \subseteq Elements(q)
  BY TakeDropElements
<1>4. Len(q) \in Nat /\ k \in Nat
  BY ElementsIn
<1>5. Increasing(q) => Increasing(t)
  BY IncreasingTakeDrop
<1>6. Distinct(q) => Distinct(t)
  BY DistinctTakeDrop
<1> HIDE DEF t
<1>7. EndsBefore(t, sn)
  <2>1. k = 0 => t = << >>
    BY <1>2, ElementsIn
  <2>2. k # 0 => t[Len(t)] = q[k]
    BY <1>2, <1>4
  <2> QED BY <1>1, <2>1, <2>2 DEF EndsBefore
<1> QED BY <1>1, <1>2, <1>3, <1>4, <1>5, <1>6, <1>7 DEF t

LEMMA FlushBackAll ==
  ASSUME NEW D \in SUBSET Nat, NEW q \in Seq(D), NEW sn \in Nat,
         \A i \in Elements(q) : sn <= i
  PROVE  FlushBack(q, sn) = << >>
<1>1. PICK k \in 0 .. Len(q) : FlushBack(q, sn) = Take(q, k) /\ (k = 0 \/ q[k] < sn)
  BY FlushBackTake
<1>2. k = 0
  <2> SUFFICES ASSUME k # 0 PROVE FALSE
    OBVIOUS
  <2>1. k \in 1 .. Len(q) /\ Len(q) \in Nat
    BY ElementsIn
  <2>2. q[k] \in Elements(q) /\ q[k] \in Nat
    BY <2>1, ElementsIn
  <2> QED BY <1>1, <2>2
<1>3. Take(q, k) \in Seq(D) /\ Len(Take(q, k)) = 0
  BY <1>2, TakeDrop
<1> QED BY <1>1, <1>3, ElementsIn

LEMMA AtStageTable ==
  ASSUME NEW D, NEW S \in SUBSET D, NEW table \in [D -> Stages], NEW s \in Stages
  PROVE  /\ AtStage(S, s, table) \in [D -> Stages]
         /\ \A i \in D \ S : AtStage(S, s, table)[i] = table[i]
         /\ \A i \in S : AtStage(S, s, table)[i] = s
<1>1. AtStage(S, s, table) = [i \in D |-> IF i \in S THEN s ELSE table[i]]
  BY DEF AtStage
<1> QED BY <1>1

-----------------------------------------------------------------------------
(* The scoreboard. *)

(* Instructions complete and others are issued, to registers that none of  *)
(* those outstanding writes: the scoreboard follows.                       *)
LEMMA ScoreboardStep ==
  ASSUME ScoreboardExact, program' = program,
         NEW done \in SUBSET Outstanding, NEW new,
         Outstanding' = (Outstanding \ done) \cup new,
         pipe' # "SQUASH_ROB" =>
           pipe # "SQUASH_ROB" /\ busy' = (busy \ writtenBy(done)) \cup writtenBy(new),
         \A i \in new : wr(i) \cap writtenBy(Outstanding) = {},
         \A i, j \in new : i # j => wr(i) \cap wr(j) = {}
  PROVE  ScoreboardExact'
<1>1. \A i : wr(i)' = wr(i)
  BY DEF wr
<1>2. \A i, j \in Outstanding : i # j => wr(i) \cap wr(j) = {}
  BY DEF ScoreboardExact
<1>3. \A i \in new, j \in Outstanding : wr(i) \cap wr(j) = {}
  BY DEF writtenBy
<1>4. ASSUME NEW i \in Outstanding', NEW j \in Outstanding', i # j
      PROVE  wr(i) \cap wr(j) = {}
  BY <1>2, <1>3, <1>4
<1>5. ASSUME pipe' # "SQUASH_ROB" PROVE busy' = UNION {wr(i) : i \in Outstanding'}
  <2>1. busy = writtenBy(Outstanding)
    BY <1>5 DEF ScoreboardExact
  <2>2. writtenBy(Outstanding) \ writtenBy(done) = writtenBy(Outstanding \ done)
    BY <1>2 DEF writtenBy
  <2> QED BY <1>5, <2>1, <2>2 DEF writtenBy
<1>6. writtenBy(Outstanding)' = UNION {wr(i) : i \in Outstanding'}
  BY <1>1 DEF writtenBy
<1> QED BY <1>1, <1>4, <1>5, <1>6 DEF ScoreboardExact

(* Nothing completes and nothing is issued. *)
LEMMA ScoreboardStays ==
  ASSUME ScoreboardExact, program' = program, Outstanding' = Outstanding,
         pipe' = pipe, busy' = busy
  PROVE  ScoreboardExact'
<1>1. writtenBy({}) = {}
  BY DEF writtenBy
<1> QED BY <1>1, ScoreboardStep

-----------------------------------------------------------------------------
(* A stage that does nothing in this state of the pipeline. *)

LEMMA Stalled ==
  ASSUME IInv, UNCHANGED work,
         \/ turn' = turn
         \/ /\ pipe = "WAIT_FLUSH"
            /\ turn \in {"SCHEDULE", "DECODE", "COMMIT"}
            /\ turn' \in {"DECODE", "FETCH", "MEMORY"}
         \/ pipe = "FLUSH" /\ turn = "COMMIT" /\ turn' = "MEMORY"
  PROVE  IInv'
<1> USE DEF work, frontVars, memVars, backQueues, queues, squashVars, history
<1>u. UNCHANGED <<program, supplied, codeCache, pipe, squashSN, stage, busy, wires,
                  retired, deleted, iQUE, fetchPort, decodePort, iWindow, issuePort, EU,
                  memPort, memBuff, iROB>>
  OBVIOUS
<1>t. Ids' = Ids /\ RightPathIds' = RightPathIds /\ Regs' = Regs
  BY <1>u, ProgramStays
<1>e. /\ Fetched' = Fetched /\ InROB' = InROB /\ Units' = Units /\ Traced' = Traced
      /\ Window' = Window /\ Waiting' = Waiting /\ Accesses' = Accesses
      /\ Begun' = Begun /\ Outstanding' = Outstanding
  BY <1>u DEF Fetched, InROB, Units, Traced, Window, Waiting, Accesses, Begun, Outstanding
<1> USE <1>u, <1>t, <1>e
<1>1. TypeOK'
  BY DEF IInv, TypeOK
<1>2. InOrder' /\ TraceOrder'
  BY DEF IInv, InOrder, TraceOrder
<1>3. WindowOrder'
  BY DEF IInv, WindowOrder, FlushedIn
<1>4. IssueOrder' /\ StagesTrue'
  BY DEF IInv, IssueOrder, StagesTrue
<1>5. ScoreboardExact'
  BY ScoreboardStays DEF IInv
<1>6. Squashing'
  BY DEF IInv, Squashing, Culprit, WrongPath
<1>7. Flushing'
  BY DEF IInv, Flushing, FlushedIn, EndsBefore
<1>8. Accounted'
  BY DEF IInv, Accounted, WrongPath
<1> QED BY <1>1, <1>2, <1>3, <1>4, <1>5, <1>6, <1>7, <1>8 DEF IInv

-----------------------------------------------------------------------------
(* The frontend hands over more of the program. *)

LEMMA FrontendStep ==
  ASSUME IInv, frontend
  PROVE  IInv'
<1> USE DEF memVars, backQueues, queues, squashVars, history
<1>1. PICK n \in {m \in supplyPoints : m > supplied} :
        /\ supplied' = n
        /\ codeCache' = codeCache \o [i \in 1 .. n - supplied |-> supplied + i]
  BY DEF frontend
<1>2. /\ program' = program /\ turn = "FRONTEND" /\ turn' = "COMMIT" /\ pipe = "NORMAL"
      /\ UNCHANGED <<iQUE, fetchPort, decodePort, iWindow, issuePort, EU, iROB, memPort,
                     memBuff, stage, busy, wires, pipe, squashSN, retired, deleted>>
  BY DEF frontend, IInv, Squashing
<1>3. TypeOK
  BY DEF IInv
<1>t. Ids' = Ids /\ RightPathIds' = RightPathIds /\ Regs' = Regs
  BY <1>2, ProgramStays
<1>e. /\ Fetched' = Fetched /\ InROB' = InROB /\ Units' = Units /\ Window' = Window
      /\ Waiting' = Waiting /\ Accesses' = Accesses /\ Begun' = Begun
      /\ Outstanding' = Outstanding
  BY <1>2 DEF Fetched, InROB, Units, Window, Waiting, Accesses, Begun, Outstanding
<1>4. n \in Ids /\ n \in Nat /\ supplied \in Nat /\ supplied < n /\ Ids \in SUBSET Nat
      /\ 1 .. n \subseteq Ids
  <2>1. Len(program) \in Nat /\ Ids \in SUBSET Nat
    BY <1>3, Numbers
  <2>2. n \in Ids /\ supplied < n
    BY <1>1 DEF supplyPoints
  <2>3. supplied \in Nat
    BY <1>3, <2>1 DEF TypeOK
  <2>4. n \in Nat /\ 1 .. n \subseteq Ids
    BY <2>1, <2>2 DEF Ids
  <2> QED BY <2>1, <2>2, <2>3, <2>4
<1> DEFINE new == [i \in 1 .. n - supplied |-> supplied + i]
<1>5. /\ new \in Seq(Ids) /\ Len(new) = n - supplied
      /\ \A i \in 1 .. n - supplied : new[i] = supplied + i
  BY <1>4
<1> HIDE DEF new
<1>6. Elements(new) = supplied + 1 .. n
  <2>1. \A j \in supplied + 1 .. n : j - supplied \in 1 .. n - supplied /\ j = new[j - supplied]
    BY <1>4, <1>5
  <2>2. \A i \in 1 .. n - supplied : new[i] \in supplied + 1 .. n
    BY <1>4, <1>5
  <2> QED BY <1>5, <2>1, <2>2 DEF Elements
<1>7. Increasing(new)
  BY <1>4, <1>5 DEF Increasing
<1>8. codeCache' = codeCache \o new
  BY <1>1 DEF new
<1>9. /\ Elements(codeCache) \subseteq 1 .. supplied
      /\ codeCache \in Seq(Ids) /\ Increasing(codeCache)
  BY <1>3, QueueTypes DEF IInv, TraceOrder, Traced, InOrder
<1>10. Before(Elements(codeCache), Elements(new))
  BY <1>4, <1>6, <1>9 DEF Before
<1>11. /\ codeCache' \in Seq(Ids) /\ Increasing(codeCache')
       /\ Elements(codeCache') = Elements(codeCache) \cup (supplied + 1 .. n)
  <2> DEFINE cc == codeCache \o new
  <2>1. cc \in Seq(Ids) /\ Elements(cc) = Elements(codeCache) \cup Elements(new)
    BY <1>5, <1>9, Concat
  <2>2. Increasing(cc)
    BY <1>5, <1>7, <1>9, <1>10, Concat
  <2> QED BY <2>1, <2>2, <1>6, <1>8
<1> USE <1>2, <1>t, <1>e
<1>12. TypeOK'
  <2>1. supplied' \in 0 .. Len(program')
    BY <1>1, <1>4 DEF Ids
  <2>2. \A q \in {codeCache', iQUE', fetchPort', decodePort', iWindow', issuePort',
                  memPort', memBuff', iROB', retired'} : q \in Seq(Ids')
    BY <1>3, <1>11, QueueTypes
  <2> QED BY <1>3, <2>1, <2>2 DEF TypeOK
<1>13. InOrder'
  BY <1>11 DEF IInv, InOrder
<1>14. Traced' = Traced \cup (supplied + 1 .. n) /\ Traced \subseteq 1 .. supplied
  BY <1>11 DEF IInv, TraceOrder, Traced
<1>15. TraceOrder'
  <2>1. TraceOrder
    BY DEF IInv
  <2>2. Elements(retired) \subseteq 1 .. supplied /\ Fetched \subseteq 1 .. supplied
    BY <2>1 DEF TraceOrder, Traced
  <2>3. Before(Elements(retired), Traced')
    BY <2>1, <2>2, <1>4, <1>14 DEF TraceOrder, Before
  <2>a. Before(Fetched, Elements(codeCache'))
    BY <2>1, <2>2, <1>4, <1>11 DEF TraceOrder, Before
  <2>4. Elements(retired) \cup Traced' \subseteq 1 .. supplied'
    <3>1. 1 .. supplied \subseteq 1 .. n /\ supplied + 1 .. n \subseteq 1 .. n
      BY <1>4
    <3> QED BY <2>2, <3>1, <1>1, <1>14
  <2>5. \A i \in Traced' : i .. supplied' \subseteq Traced'
    <3> SUFFICES ASSUME NEW i \in Traced', NEW j \in i .. n PROVE j \in Traced'
      BY <1>1
    <3>1. i \in Nat
      BY <2>4, <1>1, <1>4
    <3>2. CASE j <= supplied
      <4>1. i \in Traced /\ j \in i .. supplied
        BY <3>1, <3>2, <1>14, <1>4
      <4> QED BY <4>1, <2>1, <1>14 DEF TraceOrder
    <3>3. CASE j > supplied
      BY <3>1, <3>3, <1>14, <1>4
    <3> QED BY <3>1, <3>2, <3>3, <1>4
  <2> QED BY <2>1, <2>3, <2>4, <2>5, <2>a DEF TraceOrder
<1>16. WindowOrder'
  BY DEF IInv, WindowOrder, FlushedIn
<1>17. IssueOrder' /\ StagesTrue'
  BY DEF IInv, IssueOrder, StagesTrue
<1>18. ScoreboardExact'
  BY ScoreboardStays DEF IInv
<1>19. Squashing'
  BY DEF IInv, Squashing, Culprit, WrongPath
<1>20. Flushing'
  BY DEF IInv, Flushing, FlushedIn, EndsBefore
<1>21. Accounted'
  <2>1. \A i \in 1 .. n : i \in 1 .. supplied \/ i \in supplied + 1 .. n
    BY <1>4
  <2> QED BY <2>1, <1>1, <1>14 DEF IInv, Accounted, WrongPath
<1> QED BY <1>12, <1>13, <1>15, <1>16, <1>17, <1>18, <1>19, <1>20, <1>21 DEF IInv

-----------------------------------------------------------------------------
(* Fetch. *)

LEMMA FetchNormal ==
  ASSUME IInv, doFETCH, pipe = "NORMAL"
  PROVE  IInv'
<1> USE DEF squashVars, history, memVars, backQueues
<1>u. UNCHANGED <<program, supplied, pipe, squashSN, retired, deleted, decodePort, iWindow,
                  issuePort, EU, iROB, memPort, memBuff, busy, wires>>
  BY DEF doFETCH
<1>t. Ids' = Ids /\ RightPathIds' = RightPathIds /\ Regs' = Regs
  BY <1>u, ProgramStays
<1>3. TypeOK /\ Ids \in SUBSET Nat /\ Len(program) \in Nat
  BY Numbers DEF IInv
<1>e. InROB' = InROB /\ Units' = Units /\ Waiting' = Waiting /\ Accesses' = Accesses
  BY <1>u DEF InROB, Units, Waiting, Accesses
<1> DEFINE k == Min({Width, Len(codeCache), PortLen - Len(fetchPort)})
           new == Elements(Take(codeCache, k))
<1>1. /\ codeCache' = Drop(codeCache, k)
      /\ iQUE' = iQUE \o Take(codeCache, k)
      /\ fetchPort' = fetchPort \o Take(codeCache, k)
      /\ stage' = AtStage(new, "FETCH", stage)
      /\ turn = "FETCH" /\ turn' \in {"FRONTEND", "HALT", "COMMIT"}
  BY DEF doFETCH, fetchImpl
<1>2. k \in 0 .. Len(codeCache) /\ Len(fetchPort) + k <= PortLen
  <2> DEFINE M == {Width, Len(codeCache), PortLen - Len(fetchPort)}
  <2>1. Width \in Nat /\ PortLen \in Nat /\ Len(fetchPort) <= PortLen
    BY <1>3, Sizes
  <2>2. Len(codeCache) \in Nat /\ Len(fetchPort) \in Nat
    BY <1>3, QueueTypes, ElementsIn
  <2>3. \E x \in M : \A y \in M : x <= y
    BY <2>1, <2>2
  <2>4. Min(M) \in M /\ \A y \in M : Min(M) <= y
    <3> HIDE DEF M
    <3> QED BY <2>3 DEF Min
  <2> QED BY <2>1, <2>2, <2>4
<1> HIDE DEF k
<1>4. codeCache \in Seq(Ids) /\ Increasing(codeCache) /\ iQUE \in Seq(Ids)
      /\ Increasing(iQUE) /\ fetchPort \in Seq(Ids) /\ Increasing(fetchPort)
  BY <1>3, QueueTypes DEF IInv, InOrder
<1>5. /\ Take(codeCache, k) \in Seq(Ids) /\ Len(Take(codeCache, k)) = k
      /\ Drop(codeCache, k) \in Seq(Ids)
  BY <1>2, <1>4, TakeDrop
<1>6. /\ Increasing(Take(codeCache, k)) /\ Increasing(Drop(codeCache, k))
      /\ Before(new, Elements(Drop(codeCache, k)))
      /\ Elements(Drop(codeCache, k)) = Elements(codeCache) \ new
      /\ Elements(codeCache) = new \cup Elements(Drop(codeCache, k))
  BY <1>2, <1>3, <1>4, IncreasingTakeDrop, TakeDropElements
<1>7. new \subseteq Elements(codeCache) /\ new \subseteq Ids /\ Elements(codeCache) \subseteq Ids
      /\ Fetched \subseteq Ids /\ InROB \subseteq Ids
  BY <1>3, <1>5, <1>6, ElementTypes, ElementsIn
<1>8. /\ Before(Fetched, Elements(codeCache)) /\ Window \subseteq Fetched
      /\ Waiting \subseteq InROB /\ Accesses \subseteq InROB /\ InROB \subseteq Fetched
      /\ Units \subseteq InROB
  BY DEF IInv, TraceOrder, WindowOrder, IssueOrder, StagesTrue, Window
<1>9. /\ codeCache' \in Seq(Ids) /\ Increasing(codeCache')
      /\ Elements(codeCache') = Elements(codeCache) \ new
  BY <1>1, <1>5, <1>6
<1>10. /\ iQUE' \in Seq(Ids) /\ Increasing(iQUE') /\ Elements(iQUE') = Fetched \cup new
  <2>1. Before(Elements(iQUE), new)
    BY <1>7, <1>8 DEF Before, Fetched
  <2> QED BY <1>1, <1>4, <1>5, <1>6, <2>1, Concat DEF Fetched
<1>11. /\ fetchPort' \in Seq(Ids) /\ Increasing(fetchPort')
       /\ Elements(fetchPort') = Elements(fetchPort) \cup new
       /\ Len(fetchPort') <= PortLen
  <2>1. Before(Elements(fetchPort), new)
    BY <1>7, <1>8 DEF Before, Window
  <2> DEFINE t == Take(codeCache, k)
  <2>2. t \in Seq(Ids) /\ Increasing(t) /\ Elements(t) = new /\ Len(t) = k
    BY <1>5, <1>6
  <2>3. fetchPort' = fetchPort \o t
    BY <1>1
  <2> HIDE DEF t, new
  <2>4. /\ fetchPort \o t \in Seq(Ids) /\ Len(fetchPort \o t) = Len(fetchPort) + k
        /\ Elements(fetchPort \o t) = Elements(fetchPort) \cup new
    BY <1>4, <2>2, Concat, ZenonT(60)
  <2>5. Increasing(fetchPort \o t)
    BY <1>4, <2>1, <2>2, Concat
  <2> QED BY <1>2, <2>3, <2>4, <2>5
<1>12. Fetched \cap Elements(codeCache) = {}
  BY <1>3, <1>7, <1>8, BeforeDisjoint
<1> HIDE DEF new
<1>13. /\ stage' \in [Ids -> Stages]
       /\ \A i \in new : stage'[i] = "FETCH"
       /\ \A i \in Ids \ new : stage'[i] = stage[i]
  <2>1. stage \in [Ids -> Stages] /\ "FETCH" \in Stages /\ new \in SUBSET Ids
    BY <1>3, <1>7 DEF TypeOK, Stages
  <2> DEFINE t == AtStage(new, "FETCH", stage)
  <2>2. /\ t \in [Ids -> Stages]
        /\ \A i \in new : t[i] = "FETCH"
        /\ \A i \in Ids \ new : t[i] = stage[i]
    BY <2>1, AtStageTable
  <2> HIDE DEF t
  <2> QED BY <1>1, <2>2 DEF t
<1>14. /\ Fetched' = Fetched \cup new /\ Window' = Window \cup new /\ Traced' = Traced
       /\ new \cap Fetched = {} /\ new \cap InROB = {}
  BY <1>7, <1>9, <1>10, <1>11, <1>12, <1>8, <1>u DEF Fetched, Window, Traced, InROB
<1>15. \A i \in Fetched : stage'[i] = stage[i]
  BY <1>7, <1>13, <1>14
<1>15a. Begun' = Begun /\ Outstanding' = Outstanding
  <2>1. \A i \in Fetched' : i \in Fetched \/ stage'[i] = "FETCH"
    BY <1>13, <1>14
  <2> QED BY <2>1, <1>14, <1>15 DEF Begun, Outstanding, Fetched
<1> USE <1>u, <1>t, <1>e
<1>16. TypeOK'
  <2>1. \A q \in {codeCache', iQUE', fetchPort', decodePort', iWindow', issuePort',
                  memPort', memBuff', iROB', retired'} : q \in Seq(Ids')
    BY <1>3, <1>9, <1>10, <1>11, QueueTypes
  <2>2. \A q \in {fetchPort', decodePort', issuePort'} : Len(q) <= PortLen
    BY <1>11, <1>3, Sizes
  <2>3. stage' \in [Ids' -> Stages]
    BY <1>13
  <2> QED BY <1>1, <1>3, <2>1, <2>2, <2>3 DEF TypeOK
<1>17. InOrder'
  BY <1>9, <1>10, <1>11 DEF IInv, InOrder
<1>18. TraceOrder'
  <2>1. Before(Fetched', Elements(codeCache'))
    BY <1>6, <1>9, <1>14, <1>8, <1>1 DEF Before, Fetched
  <2> QED BY <2>1, <1>14 DEF IInv, TraceOrder
<1>19. WindowOrder'
  <2>1. Before(Window, new)
    BY <1>7, <1>8 DEF Before
  <2>2. Before(InROB, Elements(decodePort) \cup Elements(fetchPort'))
    BY <2>1, <1>11 DEF IInv, WindowOrder, Before, Window
  <2>3. Before(Elements(decodePort), Elements(fetchPort'))
    BY <2>1, <1>11 DEF IInv, WindowOrder, Before, Window
  <2>4. Window' = Fetched'
    BY <1>14, <1>8 DEF IInv, WindowOrder
  <2>5. DownClosed(InROB, Fetched')
    <3> SUFFICES ASSUME NEW i \in InROB, NEW j \in new, j < i PROVE FALSE
      BY <1>14 DEF IInv, WindowOrder, DownClosed
    <3>1. i < j
      BY <2>1 DEF Before, Window
    <3>2. i \in Nat /\ j \in Nat
      BY <1>7, <1>3
    <3> QED BY <3>1, <3>2
  <2>6. Before(InROB', Elements(decodePort') \cup Elements(fetchPort'))
    BY <2>2
  <2> QED BY <2>3, <2>4, <2>5, <2>6 DEF WindowOrder, FlushedIn
<1>20. IssueOrder'
  BY <1>15a DEF IInv, IssueOrder
<1>21. StagesTrue'
  <2>1. /\ \A i \in Elements(fetchPort') : stage'[i] = "FETCH"
        /\ \A i \in Elements(decodePort) : stage'[i] = "DECODE"
    BY <1>11, <1>13, <1>15, <1>8 DEF IInv, StagesTrue, Window
  <2>2. \A i \in Fetched' \ InROB : stage'[i] \in {"FETCH", "DECODE"}
    BY <1>13, <1>14, <1>15 DEF IInv, StagesTrue
  <2>3. \A i \in InROB : stage'[i] = stage[i]
    BY <1>8, <1>15
  <2>4. Elements(iWindow) \subseteq InROB /\ Elements(issuePort) \subseteq InROB
    BY <1>8 DEF Waiting
  <2> QED BY <2>1, <2>2, <2>3, <2>4 DEF IInv, StagesTrue
<1>22. ScoreboardExact'
  BY <1>15a, ScoreboardStays DEF IInv
<1>23. Squashing'
  <2>1. \A i \in Fetched' : stage'[i] \in {"MEM_ACCESS", "COMPLETE"} => ~WrongPath(i)
    BY <1>13, <1>14, <1>15 DEF IInv, Squashing
  <2>2. \A i \in Fetched' : stage'[i] \in {"MEM_ACCESS", "COMPLETE"} => ~WrongPath(i)'
    BY <2>1 DEF WrongPath
  <2> QED BY <2>2, <1>1 DEF IInv, Squashing
<1>24. Flushing'
  BY DEF IInv, Flushing, FlushedIn, EndsBefore
<1>25. Accounted'
  BY <1>14 DEF IInv, Accounted, WrongPath
<1> QED BY <1>16, <1>17, <1>18, <1>19, <1>20, <1>21, <1>22, <1>23, <1>24, <1>25 DEF IInv

-----------------------------------------------------------------------------
(* The flush of the queues before issue: what they hold is younger than    *)
(* the squash number, so that it leaves nothing in them.                   *)

LEMMA FlushEmpties ==
  ASSUME IInv, pipe = "FLUSH"
  PROVE  /\ FlushBack(fetchPort, squashSN) = << >>
         /\ FlushBack(decodePort, squashSN) = << >>
         /\ FlushBack(issuePort, squashSN) = << >>
         /\ Filter(iWindow, {i \in Ids : i < squashSN}) = << >>
<1>1. TypeOK /\ Ids \in SUBSET Nat
  BY Numbers DEF IInv
<1>2. /\ fetchPort \in Seq(Ids) /\ decodePort \in Seq(Ids) /\ issuePort \in Seq(Ids)
      /\ iWindow \in Seq(Ids)
  BY <1>1, QueueTypes
<1>3. squashSN \in InROB /\ squashSN \in Begun /\ squashSN \in Nat
  <2>1. Culprit
    BY DEF IInv, Squashing
  <2>2. squashSN \in Fetched
    BY <2>1 DEF Culprit, IInv, WindowOrder, Window
  <2> QED BY <1>1, <2>1, <2>2, ElementTypes DEF Culprit, Begun
<1>4. /\ \A i \in Elements(fetchPort) \cup Elements(decodePort) : squashSN < i
      /\ \A i \in Waiting : squashSN < i
  BY <1>3 DEF IInv, WindowOrder, IssueOrder, Before
<1>5. \A i \in Elements(fetchPort) \cup Elements(decodePort) \cup Waiting :
        i \in Nat /\ squashSN <= i /\ ~(i < squashSN)
  <2>1. \A i \in Elements(fetchPort) \cup Elements(decodePort) \cup Waiting :
          i \in Nat /\ squashSN < i
    BY <1>1, <1>4, ElementTypes
  <2> QED BY <1>3, <2>1
<1>6. /\ FlushBack(fetchPort, squashSN) = << >>
      /\ FlushBack(decodePort, squashSN) = << >>
      /\ FlushBack(issuePort, squashSN) = << >>
  BY <1>1, <1>2, <1>3, <1>5, FlushBackAll DEF Waiting
<1>7. Filter(iWindow, {i \in Ids : i < squashSN}) = << >>
  <2> DEFINE f == Filter(iWindow, {i \in Ids : i < squashSN})
  <2>1. f \in Seq(Ids) /\ Elements(f) = Elements(iWindow) \cap {i \in Ids : i < squashSN}
    BY <1>2, FilterElements
  <2>2. Elements(f) = {}
    BY <2>1, <1>5 DEF Waiting
  <2> HIDE DEF f
  <2> QED BY <2>1, <2>2, ElementsIn DEF f
<1> QED BY <1>6, <1>7

LEMMA FlushStep ==
  ASSUME IInv, pipe # "NORMAL",
         UNCHANGED <<program, supplied, codeCache, pipe, squashSN, stage, busy, wires,
                     retired, deleted, iQUE, EU, memPort, memBuff, iROB>>,
         fetchPort' \in {fetchPort, << >>}, decodePort' \in {decodePort, << >>},
         issuePort' \in {issuePort, << >>}, iWindow' \in {iWindow, << >>},
         \/ /\ turn = "SCHEDULE" /\ turn' = "DECODE" /\ pipe = "FLUSH"
            /\ issuePort' = << >> /\ iWindow' = << >>
         \/ turn = "DECODE" /\ turn' = "FETCH" /\ pipe = "FLUSH" /\ decodePort' = << >>
         \/ turn = "FETCH" /\ turn' = "COMMIT" /\ (pipe = "FLUSH" => fetchPort' = << >>)
  PROVE  IInv'
<1>t. Ids' = Ids /\ RightPathIds' = RightPathIds /\ Regs' = Regs
  BY ProgramStays
<1>3. TypeOK /\ Ids \in SUBSET Nat
  BY Numbers DEF IInv
<1>e. /\ Fetched' = Fetched /\ InROB' = InROB /\ Units' = Units /\ Traced' = Traced
      /\ Accesses' = Accesses /\ Begun' = Begun /\ Outstanding' = Outstanding
  BY DEF Fetched, InROB, Units, Traced, Accesses, Begun, Outstanding
<1> DEFINE Kept(q, r) == r \in Seq(Ids) /\ Increasing(r) /\ Len(r) <= Len(q)
                         /\ Elements(r) \subseteq Elements(q)
<1>1. ASSUME NEW q \in Seq(Ids), Increasing(q), NEW r \in {q, << >>} PROVE Kept(q, r)
  <2>1. Len(q) \in Nat
    BY ElementsIn
  <2>2. CASE r = q
    BY <1>1, <2>1, <2>2
  <2>3. CASE r = << >>
    <3>1. Len(r) <= Len(q)
      BY <2>1, <2>3, EmptyQueue
    <3> QED BY <2>3, <3>1, EmptyQueue
  <2> QED BY <2>2, <2>3
<1>2. /\ Kept(fetchPort, fetchPort') /\ Kept(decodePort, decodePort')
      /\ Kept(issuePort, issuePort') /\ Kept(iWindow, iWindow')
  <2> HIDE DEF Kept
  <2>1. /\ fetchPort \in Seq(Ids) /\ decodePort \in Seq(Ids)
        /\ issuePort \in Seq(Ids) /\ iWindow \in Seq(Ids)
        /\ Increasing(fetchPort) /\ Increasing(decodePort)
        /\ Increasing(issuePort) /\ Increasing(iWindow)
    BY <1>3, QueueTypes DEF IInv, InOrder
  <2> QED BY <1>1, <2>1
<1>4. Waiting' \subseteq Waiting /\ Window' \subseteq Window
  BY <1>2 DEF Waiting, Window, InROB
<1> USE <1>t, <1>e
<1>5. TypeOK'
  <2>1. \A q \in {codeCache', iQUE', fetchPort', decodePort', iWindow', issuePort',
                  memPort', memBuff', iROB', retired'} : q \in Seq(Ids')
    BY <1>2, <1>3, QueueTypes
  <2>2. /\ Len(fetchPort') <= PortLen /\ Len(decodePort') <= PortLen
        /\ Len(issuePort') <= PortLen /\ Len(iWindow') <= WinSize
    <3>1. /\ Len(fetchPort) <= PortLen /\ Len(decodePort) <= PortLen
          /\ Len(issuePort) <= PortLen /\ Len(iWindow) <= WinSize
          /\ PortLen \in Nat /\ WinSize \in Nat
      BY <1>3, Sizes
    <3>2. /\ Len(fetchPort) \in Nat /\ Len(decodePort) \in Nat
          /\ Len(issuePort) \in Nat /\ Len(iWindow) \in Nat
          /\ Len(fetchPort') \in Nat /\ Len(decodePort') \in Nat
          /\ Len(issuePort') \in Nat /\ Len(iWindow') \in Nat
      BY <1>2, <1>3, QueueTypes, ElementsIn
    <3>3. /\ Len(fetchPort') <= Len(fetchPort) /\ Len(decodePort') <= Len(decodePort)
          /\ Len(issuePort') <= Len(issuePort) /\ Len(iWindow') <= Len(iWindow)
      BY <1>2
    <3> HIDE DEF Kept
    <3> QED BY <3>1, <3>2, <3>3
  <2>3. turn' \in {"COMMIT", "DECODE", "FETCH"}
    OBVIOUS
  <2> QED BY <1>3, <2>1, <2>2, <2>3 DEF TypeOK
<1>6. InOrder'
  BY <1>2 DEF IInv, InOrder
<1>7. TraceOrder'
  BY DEF IInv, TraceOrder
<1>8. WindowOrder'
  <2>1. /\ Before(InROB, Elements(decodePort') \cup Elements(fetchPort'))
        /\ Before(Elements(decodePort'), Elements(fetchPort'))
        /\ Window' \subseteq Fetched /\ DownClosed(InROB, Fetched)
    BY <1>2, <1>4 DEF IInv, WindowOrder, Before
  <2>2. FlushedIn({"FETCH", "COMMIT", "MEMORY", "EXECUTE"})' => decodePort' = << >>
    BY DEF IInv, WindowOrder, FlushedIn
  <2>3. FlushedIn({"COMMIT", "MEMORY", "EXECUTE"})' => fetchPort' = << >>
    BY DEF IInv, WindowOrder, FlushedIn
  <2> QED BY <2>1, <2>2, <2>3 DEF WindowOrder
<1>9. IssueOrder'
  BY <1>2, <1>4 DEF IInv, IssueOrder, Before
<1>10. StagesTrue'
  BY <1>2 DEF IInv, StagesTrue
<1>11. ScoreboardExact'
  BY ScoreboardStays DEF IInv
<1>12. Squashing'
  BY DEF IInv, Squashing, Culprit, WrongPath
<1>13. Flushing'
  <2>1. ASSUME FlushedIn({"DECODE", "FETCH", "COMMIT", "MEMORY", "EXECUTE"})'
        PROVE  Waiting' = {}
    <3>1. CASE issuePort' = << >> /\ iWindow' = << >>
      BY <3>1, EmptyQueue DEF Waiting
    <3>2. CASE FlushedIn({"DECODE", "FETCH", "COMMIT", "MEMORY", "EXECUTE"})
      BY <3>2, <1>4 DEF IInv, Flushing
    <3> QED BY <2>1, <3>1, <3>2 DEF FlushedIn
  <2> QED BY <2>1 DEF IInv, Flushing, FlushedIn, EndsBefore
<1>14. Accounted'
  BY DEF IInv, Accounted, WrongPath
<1> QED BY <1>5, <1>6, <1>7, <1>8, <1>9, <1>10, <1>11, <1>12, <1>13, <1>14 DEF IInv

LEMMA FetchStep ==
  ASSUME IInv, doFETCH
  PROVE  IInv'
<1>1. CASE pipe = "NORMAL"
  BY <1>1, FetchNormal
<1>2. CASE pipe # "NORMAL"
  <2> USE DEF squashVars, history, memVars, backQueues
  <2>1. /\ turn = "FETCH" /\ turn' = "COMMIT"
        /\ fetchPort' = IF pipe = "FLUSH" THEN FlushBack(fetchPort, squashSN) ELSE fetchPort
        /\ UNCHANGED <<program, supplied, codeCache, pipe, squashSN, stage, busy, wires,
                       retired, deleted, iQUE, EU, memPort, memBuff, iROB, decodePort,
                       issuePort, iWindow>>
    BY <1>2 DEF doFETCH
  <2> QED BY <1>2, <2>1, FlushEmpties, FlushStep
<1> QED BY <1>1, <1>2

-----------------------------------------------------------------------------
(* Decode. *)

LEMMA DecodeNormal ==
  ASSUME IInv, doDECODE, pipe \notin {"WAIT_FLUSH", "FLUSH"}
  PROVE  IInv'
<1> USE DEF frontVars, squashVars, history, memVars, backQueues
<1>u. UNCHANGED <<program, supplied, codeCache, pipe, squashSN, busy, wires, retired,
                  deleted, iQUE, iWindow, issuePort, EU, iROB, memPort, memBuff>>
  BY DEF doDECODE
<1>t. Ids' = Ids /\ RightPathIds' = RightPathIds /\ Regs' = Regs
  BY <1>u, ProgramStays
<1>3. TypeOK /\ Ids \in SUBSET Nat
  BY Numbers DEF IInv
<1>e. /\ Fetched' = Fetched /\ InROB' = InROB /\ Units' = Units /\ Traced' = Traced
      /\ Waiting' = Waiting /\ Accesses' = Accesses
  BY <1>u DEF Fetched, InROB, Units, Traced, Waiting, Accesses
<1>1. PICK k \in 0 .. Width :
        /\ k <= Len(fetchPort) /\ Len(decodePort) + k <= PortLen
        /\ fetchPort' = Drop(fetchPort, k)
        /\ decodePort' = decodePort \o Take(fetchPort, k)
        /\ stage' = AtStage(Elements(Take(fetchPort, k)), "DECODE", stage)
  BY DEF doDECODE
<1>1a. turn = "DECODE" /\ turn' = "FETCH"
  BY DEF doDECODE
<1> DEFINE t == Take(fetchPort, k)
           new == Elements(t)
<1>2. /\ fetchPort \in Seq(Ids) /\ Increasing(fetchPort) /\ Len(fetchPort) \in Nat
      /\ decodePort \in Seq(Ids) /\ Increasing(decodePort) /\ Len(decodePort) \in Nat
  BY <1>3, QueueTypes, ElementsIn DEF IInv, InOrder
<1>2a. k \in 0 .. Len(fetchPort) /\ k \in Nat
  <2>1. Width \in Nat
    BY <1>3, Sizes
  <2> QED BY <1>1, <1>2, <2>1
<1>4. /\ t \in Seq(Ids) /\ Len(t) = k /\ Drop(fetchPort, k) \in Seq(Ids)
      /\ Len(Drop(fetchPort, k)) = Len(fetchPort) - k
  BY <1>2, <1>2a, TakeDrop
<1>5. /\ Increasing(t) /\ Increasing(Drop(fetchPort, k))
      /\ Before(new, Elements(Drop(fetchPort, k)))
      /\ Elements(Drop(fetchPort, k)) = Elements(fetchPort) \ new
      /\ Elements(fetchPort) = new \cup Elements(Drop(fetchPort, k))
  BY <1>2, <1>2a, <1>3, IncreasingTakeDrop, TakeDropElements
<1> HIDE DEF t
<1>6. /\ fetchPort' \in Seq(Ids) /\ Increasing(fetchPort') /\ Len(fetchPort') <= PortLen
      /\ Elements(fetchPort') = Elements(fetchPort) \ new /\ new \subseteq Elements(fetchPort)
  <2>1. Len(fetchPort) <= PortLen /\ PortLen \in Nat
    BY <1>3, Sizes
  <2> QED BY <1>1, <1>2, <1>2a, <1>4, <1>5, <2>1
<1>7. /\ decodePort' \in Seq(Ids) /\ Increasing(decodePort') /\ Len(decodePort') <= PortLen
      /\ Elements(decodePort') = Elements(decodePort) \cup new
  <2>1. Before(Elements(decodePort), new)
    BY <1>6 DEF IInv, WindowOrder, Before
  <2>2. decodePort' = decodePort \o t
    BY <1>1 DEF t
  <2>3. /\ decodePort \o t \in Seq(Ids) /\ Len(decodePort \o t) = Len(decodePort) + Len(t)
        /\ Elements(decodePort \o t) = Elements(decodePort) \cup new
    BY <1>2, <1>4, Concat, ZenonT(60)
  <2>4. Increasing(decodePort \o t)
    BY <1>2, <1>4, <1>5, <2>1, Concat
  <2> QED BY <1>1, <1>4, <2>2, <2>3, <2>4
<1>8. /\ Elements(fetchPort) \subseteq Fetched /\ Elements(decodePort) \subseteq Fetched
      /\ Fetched \subseteq Ids /\ InROB \subseteq Fetched /\ new \cap InROB = {}
      /\ new \cap Elements(decodePort) = {}
  <2>1. /\ Elements(fetchPort) \subseteq Fetched /\ Elements(decodePort) \subseteq Fetched
        /\ Fetched \subseteq Ids /\ InROB \subseteq Fetched
    BY <1>3, ElementTypes DEF IInv, WindowOrder, Window
  <2>2. Before(InROB, new) /\ Before(Elements(decodePort), new)
    BY <1>6 DEF IInv, WindowOrder, Before
  <2>3. /\ new \in SUBSET Nat /\ InROB \in SUBSET Nat /\ Elements(decodePort) \in SUBSET Nat
    BY <1>3, <1>6, <2>1
  <2> QED BY <2>1, <2>2, <2>3, BeforeDisjoint
<1>9. stage' = AtStage(new, "DECODE", stage)
  BY <1>1 DEF t
<1> HIDE DEF new
<1>10. /\ stage' \in [Ids -> Stages]
       /\ \A i \in new : stage'[i] = "DECODE"
       /\ \A i \in Ids \ new : stage'[i] = stage[i]
  <2>1. stage \in [Ids -> Stages] /\ "DECODE" \in Stages /\ new \in SUBSET Ids
    BY <1>3, <1>6, <1>8 DEF TypeOK, Stages
  <2> DEFINE s == AtStage(new, "DECODE", stage)
  <2>2. /\ s \in [Ids -> Stages]
        /\ \A i \in new : s[i] = "DECODE"
        /\ \A i \in Ids \ new : s[i] = stage[i]
    BY <2>1, AtStageTable
  <2> HIDE DEF s
  <2> QED BY <1>9, <2>2 DEF s
<1>11. Window' = Window
  BY <1>6, <1>7, <1>e DEF Window
<1>12. \A i \in new : stage[i] = "FETCH"
  BY <1>6 DEF IInv, StagesTrue
<1>13. Begun' = Begun /\ Outstanding' = Outstanding
  <2>1. \A i \in Fetched : i \in new \/ stage'[i] = stage[i]
    BY <1>8, <1>10
  <2> QED BY <2>1, <1>10, <1>12, <1>e DEF Begun, Outstanding, Fetched
<1> USE <1>u, <1>t, <1>e
<1>14. TypeOK'
  <2>1. \A q \in {codeCache', iQUE', fetchPort', decodePort', iWindow', issuePort',
                  memPort', memBuff', iROB', retired'} : q \in Seq(Ids')
    BY <1>3, <1>6, <1>7, QueueTypes
  <2>2. \A q \in {fetchPort', decodePort', issuePort'} : Len(q) <= PortLen
    BY <1>6, <1>7, <1>3, Sizes
  <2>3. stage' \in [Ids' -> Stages]
    BY <1>10
  <2> QED BY <1>1a, <1>3, <2>1, <2>2, <2>3 DEF TypeOK
<1>15. InOrder'
  BY <1>6, <1>7 DEF IInv, InOrder
<1>16. TraceOrder'
  BY DEF IInv, TraceOrder
<1>17. WindowOrder'
  <2>1. Before(InROB, Elements(decodePort') \cup Elements(fetchPort'))
    BY <1>6, <1>7 DEF IInv, WindowOrder, Before
  <2>2. Before(Elements(decodePort'), Elements(fetchPort'))
    <3>1. Before(new, Elements(fetchPort'))
      BY <1>1, <1>5, <1>6 DEF new
    <3> QED BY <3>1, <1>6, <1>7 DEF IInv, WindowOrder, Before
  <2>3. ASSUME pipe \in {"DRAIN", "SQUASH_ROB"} PROVE fetchPort' = << >> /\ decodePort' = << >>
    <3>1. fetchPort = << >> /\ decodePort = << >>
      BY <2>3 DEF IInv, WindowOrder, FlushedIn
    <3>2. Elements(fetchPort) = {} /\ Elements(decodePort) = {}
      BY <3>1, EmptyQueue
    <3>3. Elements(fetchPort') = {} /\ Elements(decodePort') = {}
      BY <3>2, <1>6, <1>7
    <3> QED BY <3>3, <1>6, <1>7, ElementsIn
  <2>4. pipe # "FLUSH"
    OBVIOUS
  <2> QED BY <2>1, <2>2, <2>3, <2>4, <1>11 DEF IInv, WindowOrder, FlushedIn
<1>18. IssueOrder'
  BY <1>13 DEF IInv, IssueOrder
<1>19. StagesTrue'
  <2>1. \A i \in InROB : stage'[i] = stage[i]
    BY <1>8, <1>10
  <2>2. /\ Elements(iWindow) \subseteq InROB /\ Elements(issuePort) \subseteq InROB
        /\ Units \subseteq InROB /\ Accesses \subseteq InROB
    BY DEF IInv, StagesTrue, IssueOrder, Waiting
  <2>3. /\ \A i \in Elements(fetchPort') : stage'[i] = "FETCH"
        /\ \A i \in Elements(decodePort') : stage'[i] = "DECODE"
    BY <1>6, <1>7, <1>8, <1>10 DEF IInv, StagesTrue
  <2>4. \A i \in Fetched \ InROB : stage'[i] \in {"FETCH", "DECODE"}
    BY <1>8, <1>10 DEF IInv, StagesTrue
  <2> QED BY <2>1, <2>2, <2>3, <2>4 DEF IInv, StagesTrue
<1>20. ScoreboardExact'
  BY <1>13, ScoreboardStays DEF IInv
<1>21. Squashing'
  <2>1. \A i \in InROB : stage'[i] = stage[i]
    BY <1>8, <1>10
  <2>2. \A i \in Fetched : i \in new \/ stage'[i] = stage[i]
    BY <1>8, <1>10
  <2>3. pipe = "NORMAL" => \A i \in Fetched :
          stage'[i] \in {"MEM_ACCESS", "COMPLETE"} => ~WrongPath(i)
    BY <2>2, <1>10 DEF IInv, Squashing
  <2> QED BY <2>1, <2>3, <1>1a DEF IInv, Squashing, Culprit, WrongPath
<1>22. Flushing'
  BY DEF IInv, Flushing, FlushedIn, EndsBefore
<1>23. Accounted'
  BY DEF IInv, Accounted, WrongPath
<1> QED BY <1>14, <1>15, <1>16, <1>17, <1>18, <1>19, <1>20, <1>21, <1>22, <1>23 DEF IInv

LEMMA DecodeStep ==
  ASSUME IInv, doDECODE
  PROVE  IInv'
<1> USE DEF frontVars, squashVars, history, memVars, backQueues, queues
<1>1. CASE pipe = "WAIT_FLUSH"
  <2>1. UNCHANGED work /\ turn = "DECODE" /\ turn' = "FETCH"
    BY <1>1 DEF doDECODE, work
  <2> QED BY <1>1, <2>1, Stalled
<1>2. CASE pipe = "FLUSH"
  <2>1. /\ turn = "DECODE" /\ turn' = "FETCH"
        /\ decodePort' = FlushBack(decodePort, squashSN)
        /\ UNCHANGED <<program, supplied, codeCache, pipe, squashSN, stage, busy, wires,
                       retired, deleted, iQUE, EU, memPort, memBuff, iROB, fetchPort,
                       issuePort, iWindow>>
    BY <1>2 DEF doDECODE
  <2> QED BY <1>2, <2>1, FlushEmpties, FlushStep
<1>3. CASE pipe \notin {"WAIT_FLUSH", "FLUSH"}
  BY <1>3, DecodeNormal
<1> QED BY <1>1, <1>2, <1>3

-----------------------------------------------------------------------------
(* Scheduling. *)

LEMMA SchedulerNormal ==
  ASSUME IInv, doSCHEDULER, pipe \notin {"WAIT_FLUSH", "FLUSH"}
  PROVE  IInv'
<1> USE DEF frontVars, squashVars, history, memVars
<1>u. UNCHANGED <<program, supplied, codeCache, pipe, squashSN, wires, retired, deleted,
                  iQUE, fetchPort, EU, memPort, memBuff>>
  BY DEF doSCHEDULER
<1>t. Ids' = Ids /\ RightPathIds' = RightPathIds /\ Regs' = Regs
  BY <1>u, ProgramStays
<1>3. TypeOK /\ Ids \in SUBSET Nat
  BY Numbers DEF IInv
<1>e. /\ Fetched' = Fetched /\ Units' = Units /\ Traced' = Traced /\ Accesses' = Accesses
  BY <1>u DEF Fetched, Units, Traced, Accesses
<1>1. PICK k, m \in 0 .. Width : schedulerImpl(k, m)
  BY DEF doSCHEDULER
<1>1a. turn = "SCHEDULE" /\ turn' = "DECODE"
  BY DEF doSCHEDULER
<1> DEFINE new == Take(decodePort, k)
           win == iWindow \o new
           issued == Take(win, m)
           N == Elements(new)
           I == Elements(issued)
<1>2. /\ k <= Len(decodePort) /\ Len(iROB) + k <= RobSize /\ Len(win) <= WinSize
      /\ m <= Len(win) /\ Len(issuePort) + m <= PortLen
      /\ canIssue(win, m, busy)
      /\ decodePort' = Drop(decodePort, k)
      /\ iROB' = iROB \o new
      /\ iWindow' = Drop(win, m)
      /\ issuePort' = issuePort \o issued
      /\ busy' = busy \cup writtenBy(I)
      /\ stage' = AtStage(I, "ISSUE", AtStage(N, "DISPATCH", stage))
  BY <1>1 DEF schedulerImpl
<1>4. /\ decodePort \in Seq(Ids) /\ Increasing(decodePort) /\ Len(decodePort) \in Nat
      /\ iWindow \in Seq(Ids) /\ Increasing(iWindow) /\ Len(iWindow) \in Nat
      /\ issuePort \in Seq(Ids) /\ Increasing(issuePort) /\ Len(issuePort) \in Nat
      /\ iROB \in Seq(Ids) /\ Increasing(iROB) /\ Len(iROB) \in Nat
  BY <1>3, QueueTypes, ElementsIn DEF IInv, InOrder
<1>5. k \in 0 .. Len(decodePort) /\ k \in Nat /\ m \in Nat
  BY <1>2, <1>3, <1>4, Sizes
<1>6. /\ InROB \subseteq Fetched /\ Elements(decodePort) \subseteq Fetched
      /\ Elements(fetchPort) \subseteq Fetched /\ Fetched \subseteq Ids
      /\ Waiting \subseteq InROB
      /\ Before(InROB, Elements(decodePort)) /\ Before(InROB, Elements(fetchPort))
      /\ Before(Elements(decodePort), Elements(fetchPort))
  BY <1>3, ElementTypes DEF IInv, WindowOrder, Window, IssueOrder, Before
<1>7. /\ new \in Seq(Ids) /\ Increasing(new) /\ Len(new) = k
      /\ N \subseteq Elements(decodePort)
      /\ Drop(decodePort, k) \in Seq(Ids) /\ Increasing(Drop(decodePort, k))
      /\ Len(Drop(decodePort, k)) = Len(decodePort) - k
      /\ Elements(Drop(decodePort, k)) = Elements(decodePort) \ N
      /\ Before(N, Elements(Drop(decodePort, k)))
  <2>1. /\ new \in Seq(Ids) /\ Len(new) = k
        /\ Drop(decodePort, k) \in Seq(Ids) /\ Len(Drop(decodePort, k)) = Len(decodePort) - k
    BY <1>4, <1>5, TakeDrop
  <2>2. /\ Increasing(new) /\ Increasing(Drop(decodePort, k))
        /\ Elements(Drop(decodePort, k)) = Elements(decodePort) \ N
        /\ Before(N, Elements(Drop(decodePort, k)))
    BY <1>3, <1>4, <1>5, IncreasingTakeDrop
  <2>3. N \subseteq Elements(decodePort)
    BY <1>4, <1>5, TakeDropElements
  <2> QED BY <2>1, <2>2, <2>3
<1> HIDE DEF new
<1>8. /\ decodePort' \in Seq(Ids) /\ Increasing(decodePort') /\ Len(decodePort') <= PortLen
      /\ Elements(decodePort') = Elements(decodePort) \ N
      /\ Before(N, Elements(decodePort'))
  <2>1. Len(decodePort) <= PortLen /\ PortLen \in Nat
    BY <1>3, Sizes
  <2> QED BY <1>2, <1>4, <1>5, <1>7, <2>1
<1>9. /\ iROB' \in Seq(Ids) /\ Increasing(iROB') /\ Len(iROB') <= RobSize
      /\ InROB' = InROB \cup N
  <2>1. Before(Elements(iROB), N)
    BY <1>6, <1>7 DEF Before, InROB
  <2> DEFINE r == iROB \o new
  <2>2. r \in Seq(Ids) /\ Len(r) = Len(iROB) + k /\ Elements(r) = Elements(iROB) \cup N
    <3>1. iROB \in Seq(Ids) /\ new \in Seq(Ids)
      BY <1>4, <1>7
    <3>2. r \in Seq(Ids) /\ Len(r) = Len(iROB) + Len(new) /\ Elements(r) = Elements(iROB) \cup N
      BY <3>1, Concat
    <3> HIDE DEF r, N
    <3> QED BY <3>2, <1>7
  <2>3. Increasing(r)
    BY <1>4, <1>7, <2>1, Concat
  <2>4. iROB' = r
    BY <1>2
  <2> HIDE DEF r
  <2> QED BY <1>2, <2>2, <2>3, <2>4 DEF InROB
<1>10. /\ win \in Seq(Ids) /\ Increasing(win) /\ Len(win) \in Nat
       /\ Elements(win) = Elements(iWindow) \cup N
  <2>1. Before(Elements(iWindow), N)
    BY <1>6, <1>7 DEF Before, Waiting
  <2>2. win \in Seq(Ids) /\ Elements(win) = Elements(iWindow) \cup N
    BY <1>4, <1>7, Concat
  <2>3. Increasing(win)
    BY <1>4, <1>7, <2>1, Concat
  <2> HIDE DEF win
  <2> QED BY <2>2, <2>3, ElementsIn
<1> HIDE DEF win
<1>11. m \in 0 .. Len(win)
  BY <1>2, <1>5, <1>10
<1>12. /\ issued \in Seq(Ids) /\ Increasing(issued) /\ Len(issued) = m
       /\ I = {win[n] : n \in 1 .. m} /\ I \subseteq Elements(win)
       /\ Drop(win, m) \in Seq(Ids) /\ Increasing(Drop(win, m))
       /\ Len(Drop(win, m)) = Len(win) - m
       /\ Elements(Drop(win, m)) = Elements(win) \ I
       /\ Before(I, Elements(Drop(win, m)))
  <2>1. /\ issued \in Seq(Ids) /\ Len(issued) = m
        /\ Drop(win, m) \in Seq(Ids) /\ Len(Drop(win, m)) = Len(win) - m
    BY <1>10, <1>11, TakeDrop
  <2>2. /\ Increasing(issued) /\ Increasing(Drop(win, m))
        /\ Elements(Drop(win, m)) = Elements(win) \ I
        /\ Before(I, Elements(Drop(win, m)))
    BY <1>3, <1>10, <1>11, IncreasingTakeDrop
  <2>3. I = {win[n] : n \in 1 .. m} /\ I \subseteq Elements(win)
    BY <1>10, <1>11, TakeDropElements
  <2> QED BY <2>1, <2>2, <2>3
<1> HIDE DEF issued
<1>13. /\ iWindow' \in Seq(Ids) /\ Increasing(iWindow') /\ Len(iWindow') <= WinSize
       /\ Elements(iWindow') = (Elements(iWindow) \cup N) \ I
       /\ Before(I, Elements(iWindow'))
  <2>1. WinSize \in Nat
    BY <1>3, Sizes
  <2> QED BY <1>2, <1>10, <1>11, <1>12, <2>1
<1>14. I \subseteq Elements(iWindow) \cup N
  BY <1>10, <1>12
<1>15. /\ issuePort' \in Seq(Ids) /\ Increasing(issuePort') /\ Len(issuePort') <= PortLen
       /\ Elements(issuePort') = Elements(issuePort) \cup I
  <2>1. Before(Elements(issuePort), Elements(iWindow)) /\ Elements(issuePort) \subseteq InROB
    BY <1>6 DEF IInv, IssueOrder, Waiting
  <2>2. Before(Elements(issuePort), I)
    BY <2>1, <1>6, <1>7, <1>14 DEF Before
  <2> DEFINE p == issuePort \o issued
  <2>3. /\ p \in Seq(Ids) /\ Len(p) = Len(issuePort) + m
        /\ Elements(p) = Elements(issuePort) \cup I
    <3>1. issuePort \in Seq(Ids) /\ issued \in Seq(Ids)
      BY <1>4, <1>12
    <3>2. /\ p \in Seq(Ids) /\ Len(p) = Len(issuePort) + Len(issued)
          /\ Elements(p) = Elements(issuePort) \cup I
      BY <3>1, Concat
    <3> HIDE DEF p, I
    <3> QED BY <3>2, <1>12
  <2>4. Increasing(p)
    BY <1>4, <1>12, <2>2, Concat
  <2>5. issuePort' = p
    BY <1>2
  <2> HIDE DEF p
  <2> QED BY <1>2, <2>3, <2>4, <2>5
<1> HIDE DEF N, I
<1>16. /\ N \subseteq Ids /\ I \subseteq Ids /\ Elements(iWindow) \subseteq InROB
       /\ N \cap InROB = {} /\ N \subseteq Fetched /\ I \subseteq Fetched
       /\ \A i \in N : stage[i] = "DECODE"
       /\ \A i \in I : stage[i] \in {"DECODE", "DISPATCH"}
  <2>1. Elements(iWindow) \subseteq InROB
    BY <1>6 DEF Waiting
  <2>2. Before(InROB, N) /\ InROB \in SUBSET Nat /\ N \in SUBSET Nat
    BY <1>3, <1>6, <1>7 DEF Before
  <2>3. N \cap InROB = {}
    BY <2>2, BeforeDisjoint
  <2>4. \A i \in N : stage[i] = "DECODE"
    BY <1>7 DEF IInv, StagesTrue
  <2>5. \A i \in I : stage[i] \in {"DECODE", "DISPATCH"}
    BY <2>4, <1>14 DEF IInv, StagesTrue
  <2> QED BY <1>6, <1>7, <1>14, <2>1, <2>3, <2>4, <2>5
<1>17. /\ stage' \in [Ids -> Stages]
       /\ \A i \in I : stage'[i] = "ISSUE"
       /\ \A i \in N \ I : stage'[i] = "DISPATCH"
       /\ \A i \in Ids \ (I \cup N) : stage'[i] = stage[i]
  <2>1. stage \in [Ids -> Stages] /\ {"ISSUE", "DISPATCH"} \subseteq Stages
    BY <1>3 DEF TypeOK, Stages
  <2> DEFINE t == AtStage(N, "DISPATCH", stage)
             s == AtStage(I, "ISSUE", t)
  <2>2. /\ t \in [Ids -> Stages]
        /\ \A i \in N : t[i] = "DISPATCH"
        /\ \A i \in Ids \ N : t[i] = stage[i]
    BY <1>16, <2>1, AtStageTable
  <2>3. stage' = s
    BY <1>2
  <2> HIDE DEF t
  <2>4. /\ s \in [Ids -> Stages]
        /\ \A i \in I : s[i] = "ISSUE"
        /\ \A i \in Ids \ I : s[i] = t[i]
    BY <1>16, <2>1, <2>2, AtStageTable, SMTT(30)
  <2> HIDE DEF s
  <2> QED BY <1>16, <2>2, <2>3, <2>4
<1>18. /\ Window' = Window /\ Waiting' = Waiting \cup N
  BY <1>7, <1>8, <1>9, <1>13, <1>14, <1>15, <1>u DEF Window, Waiting
<1>19. Begun' = Begun /\ Outstanding' = Outstanding \cup I
  <2>1. \A i \in Fetched : i \in I \cup N \/ stage'[i] = stage[i]
    BY <1>6, <1>17
  <2>2. \A i \in I \cup N : /\ stage[i] \in {"DECODE", "DISPATCH"}
                            /\ stage'[i] \in {"ISSUE", "DISPATCH"}
                            /\ i \in Fetched
    BY <1>16, <1>17
  <2>3. \A i \in I \cup N : stage'[i] = "ISSUE" <=> i \in I
    BY <1>17
  <2> QED BY <2>1, <2>2, <2>3, <1>e DEF Begun, Outstanding, Fetched
<1>20. pipe # "NORMAL" =>
         decodePort = << >> /\ fetchPort = << >> /\ Waiting = {} /\ N = {} /\ I = {}
  <2> SUFFICES ASSUME pipe # "NORMAL"
               PROVE  decodePort = << >> /\ fetchPort = << >> /\ Waiting = {} /\ N = {} /\ I = {}
    OBVIOUS
  <2>1. pipe \in {"DRAIN", "SQUASH_ROB"}
    BY <1>3 DEF TypeOK
  <2>2. decodePort = << >> /\ fetchPort = << >> /\ Waiting = {}
    BY <2>1 DEF IInv, WindowOrder, Flushing, FlushedIn
  <2>3. N = {}
    BY <2>2, <1>7, EmptyQueue
  <2> QED BY <2>2, <2>3, <1>14 DEF Waiting
<1> USE <1>u, <1>t, <1>e
<1>21. TypeOK'
  <2>1. \A q \in {codeCache', iQUE', fetchPort', decodePort', iWindow', issuePort',
                  memPort', memBuff', iROB', retired'} : q \in Seq(Ids')
    BY <1>3, <1>8, <1>9, <1>13, <1>15, QueueTypes
  <2>2. \A q \in {fetchPort', decodePort', issuePort'} : Len(q) <= PortLen
    BY <1>8, <1>15, <1>3, Sizes
  <2>3. busy' \subseteq Regs'
    <3>1. writtenBy(I) \subseteq Regs
      BY <1>16, <1>3, Numbers DEF writtenBy
    <3> QED BY <3>1, <1>2, <1>3 DEF TypeOK, I
  <2> QED BY <1>1a, <1>3, <1>9, <1>13, <1>17, <2>1, <2>2, <2>3 DEF TypeOK
<1>22. InOrder'
  BY <1>8, <1>9, <1>13, <1>15 DEF IInv, InOrder
<1>23. TraceOrder'
  BY DEF IInv, TraceOrder
<1>24. WindowOrder'
  <2>1. Before(InROB', Elements(decodePort') \cup Elements(fetchPort'))
    BY <1>6, <1>7, <1>8, <1>9 DEF Before
  <2>2. Before(Elements(decodePort'), Elements(fetchPort'))
    BY <1>6, <1>8 DEF Before
  <2>3. DownClosed(InROB', Fetched')
    <3>1. CASE pipe # "NORMAL"
      BY <3>1, <1>9, <1>20 DEF IInv, WindowOrder
    <3>2. CASE pipe = "NORMAL"
      <4>1. Fetched \subseteq InROB \cup N \cup Elements(decodePort') \cup Elements(fetchPort)
        BY <3>2, <1>7, <1>8 DEF IInv, WindowOrder, Window
      <4>2. ASSUME NEW i \in N, NEW j \in Elements(decodePort') \cup Elements(fetchPort), j < i
            PROVE FALSE
        <5>1. i < j
          BY <1>6, <1>7, <1>8 DEF Before
        <5>2. i \in Nat /\ j \in Nat
          BY <1>3, <1>6, <1>16, <1>8
        <5> QED BY <4>2, <5>1, <5>2
      <4>3. DownClosed(InROB, Fetched)
        BY DEF IInv, WindowOrder
      <4> QED BY <4>1, <4>2, <4>3, <1>9 DEF DownClosed
    <3> QED BY <3>1, <3>2
  <2>4. pipe # "NORMAL" => decodePort' = << >> /\ fetchPort' = << >>
    <3> SUFFICES ASSUME pipe # "NORMAL" PROVE decodePort' = << >>
      BY <1>20
    <3>1. Elements(decodePort') = {}
      BY <1>8, <1>20, EmptyQueue
    <3> QED BY <3>1, <1>8, ElementsIn
  <2> QED BY <2>1, <2>2, <2>3, <2>4, <1>18 DEF IInv, WindowOrder, FlushedIn
<1>25. IssueOrder'
  <2>1. Waiting' \subseteq InROB'
    BY <1>6, <1>9, <1>18
  <2>2. Before(Elements(issuePort'), Elements(iWindow'))
    <3>1. Before(Elements(issuePort), Elements(iWindow)) /\ Elements(issuePort) \subseteq InROB
      BY <1>6 DEF IInv, IssueOrder, Waiting
    <3>2. Before(Elements(issuePort), N)
      BY <3>1, <1>6, <1>7 DEF Before
    <3> QED BY <3>1, <3>2, <1>13, <1>15 DEF Before
  <2>3. Before(Begun, N)
    <3>1. Begun \subseteq InROB
      BY DEF IInv, StagesTrue, Begun
    <3> QED BY <3>1, <1>6, <1>7 DEF Before
  <2> QED BY <2>1, <2>2, <2>3, <1>18, <1>19 DEF IInv, IssueOrder, Before
<1>26. StagesTrue'
  <2>1. \A i \in InROB : i \in I \/ stage'[i] = stage[i]
    BY <1>6, <1>16, <1>17
  <2>2. /\ \A i \in Elements(fetchPort') : stage'[i] = "FETCH"
        /\ \A i \in Elements(decodePort') : stage'[i] = "DECODE"
    <3>1. I \cap Elements(fetchPort) = {} /\ I \cap Elements(decodePort') = {}
      <4>1. \A i \in I : i \in InROB \cup N
        BY <1>14, <1>16
      <4>2. Before(InROB \cup N, Elements(fetchPort) \cup Elements(decodePort'))
        BY <1>6, <1>7, <1>8 DEF Before
      <4>3. /\ InROB \cup N \in SUBSET Nat
            /\ Elements(fetchPort) \cup Elements(decodePort') \in SUBSET Nat
        BY <1>3, <1>6, <1>8, <1>16
      <4> QED BY <4>1, <4>2, <4>3, BeforeDisjoint
    <3>2. N \cap Elements(fetchPort) = {}
      <4>1. Before(N, Elements(fetchPort))
        BY <1>6, <1>7 DEF Before
      <4>2. N \in SUBSET Nat /\ Elements(fetchPort) \in SUBSET Nat
        BY <1>3, <1>6, <1>16
      <4> QED BY <4>1, <4>2, BeforeDisjoint
    <3>3. \A i \in Elements(fetchPort) \cup Elements(decodePort') : stage'[i] = stage[i]
      BY <3>1, <3>2, <1>6, <1>8, <1>17
    <3> QED BY <3>3, <1>8 DEF IInv, StagesTrue
  <2>3. \A i \in Fetched' \ InROB' : stage'[i] \in {"FETCH", "DECODE"}
    <3>1. \A i \in Fetched \ InROB' : i \in Ids \ (I \cup N) /\ i \in Fetched \ InROB
      BY <1>6, <1>9, <1>14, <1>16
    <3> QED BY <3>1, <1>17 DEF IInv, StagesTrue
  <2>4. /\ \A i \in Elements(iWindow') : stage'[i] = "DISPATCH"
        /\ \A i \in Elements(issuePort') : stage'[i] = "ISSUE"
    <3>1. \A i \in Elements(iWindow) : i \in I \/ stage'[i] = "DISPATCH"
      BY <2>1, <1>16 DEF IInv, StagesTrue
    <3>2. \A i \in Elements(issuePort) : stage'[i] = "ISSUE"
      BY <2>1, <1>6, <1>17 DEF IInv, StagesTrue, Waiting
    <3> QED BY <3>1, <3>2, <1>13, <1>15, <1>17
  <2>5. /\ \A i \in Units' : i \in InROB' /\ stage'[i] = "EXECUTE"
        /\ \A i \in Accesses' : i \in InROB' /\ stage'[i] = "MEM_ACCESS"
    <3>1. \A i \in Units \cup Accesses : i \notin I
      BY <1>16 DEF IInv, StagesTrue
    <3> QED BY <3>1, <2>1, <1>9 DEF IInv, StagesTrue
  <2> QED BY <2>2, <2>3, <2>4, <2>5 DEF StagesTrue
<1>27. ScoreboardExact'
  <2>1. CASE pipe # "NORMAL" /\ pipe = "SQUASH_ROB"
    <3>1. Outstanding' = Outstanding
      BY <2>1, <1>19, <1>20
    <3>2. writtenBy({}) = {}
      BY DEF writtenBy
    <3>3. busy' = busy
      BY <2>1, <3>2, <1>2, <1>20
    <3> QED BY <3>1, <3>3, ScoreboardStays DEF IInv
  <2>2. CASE pipe # "SQUASH_ROB"
    <3>1. busy = writtenBy(Outstanding)
      BY <2>2 DEF IInv, ScoreboardExact
    <3>2. ASSUME NEW n \in 1 .. m
          PROVE  wr(win[n]) \cap (busy \cup writtenBy(Elements(Take(win, n - 1)))) = {}
      BY <1>2 DEF canIssue
    <3>3. \A i \in I : wr(i) \cap writtenBy(Outstanding) = {}
      BY <3>1, <3>2, <1>12
    <3>4. ASSUME NEW a \in 1 .. m, NEW b \in 1 .. m, a < b
          PROVE  wr(win[a]) \cap wr(win[b]) = {}
      <4>1. a \in 1 .. b - 1 /\ b - 1 \in 0 .. Len(win)
        BY <3>4, <1>11, <1>10, <1>5
      <4>2. win[a] \in Elements(Take(win, b - 1))
        BY <4>1, <1>10, TakeDropElements
      <4>3. wr(win[a]) \subseteq writtenBy(Elements(Take(win, b - 1)))
        BY <4>2 DEF writtenBy
      <4> QED BY <4>3, <3>2
    <3>5. ASSUME NEW i \in I, NEW j \in I, i # j PROVE wr(i) \cap wr(j) = {}
      <4>1. PICK a \in 1 .. m : i = win[a]
        BY <1>12
      <4>2. PICK b \in 1 .. m : j = win[b]
        BY <1>12
      <4>3. CASE a < b
        BY <4>1, <4>2, <4>3, <3>4
      <4>4. CASE b < a
        BY <4>1, <4>2, <4>4, <3>4
      <4>5. a # b /\ a \in Nat /\ b \in Nat
        BY <4>1, <4>2, <3>5, <1>5
      <4> QED BY <4>3, <4>4, <4>5
    <3>6. busy' = (busy \ writtenBy({})) \cup writtenBy(I)
      BY <1>2 DEF writtenBy
    <3>7. Outstanding' = (Outstanding \ {}) \cup I
      BY <1>19
    <3> QED BY <2>2, <3>3, <3>5, <3>6, <3>7, ScoreboardStep DEF IInv
  <2> QED BY <2>1, <2>2
<1>28. Squashing'
  <2>1. \A i \in Fetched : stage'[i] \in {"MEM_ACCESS", "COMPLETE"} =>
           stage[i] \in {"MEM_ACCESS", "COMPLETE"}
    BY <1>6, <1>17
  <2>2. pipe # "NORMAL" => \A i \in Fetched : stage'[i] = stage[i]
    BY <1>6, <1>17, <1>20
  <2>3. pipe # "NORMAL" => InROB' = InROB /\ iROB' = iROB
    <3> SUFFICES ASSUME pipe # "NORMAL" PROVE InROB' = InROB /\ iROB' = iROB
      OBVIOUS
    <3>1. InROB' = InROB
      BY <1>9, <1>20
    <3> QED BY <3>1, <1>3, <1>4, <1>9, SameElements DEF InROB
  <2>4. pipe = "NORMAL" => \A i \in Fetched :
          stage'[i] \in {"MEM_ACCESS", "COMPLETE"} => ~WrongPath(i)
    BY <2>1 DEF IInv, Squashing
  <2>5. pipe \in {"WAIT_FLUSH", "FLUSH", "DRAIN"} => Culprit'
    BY <2>2, <2>3, <1>6 DEF IInv, Squashing, Culprit, WrongPath
  <2> QED BY <2>3, <2>4, <2>5, <1>1a DEF IInv, Squashing, WrongPath
<1>29. Flushing'
  BY <1>18, <1>20 DEF IInv, Flushing, FlushedIn, EndsBefore
<1>30. Accounted'
  BY DEF IInv, Accounted, WrongPath
<1> QED BY <1>21, <1>22, <1>23, <1>24, <1>25, <1>26, <1>27, <1>28, <1>29, <1>30 DEF IInv

LEMMA SchedulerStep ==
  ASSUME IInv, doSCHEDULER
  PROVE  IInv'
<1> USE DEF frontVars, squashVars, history, memVars, backQueues, queues
<1>1. CASE pipe = "WAIT_FLUSH"
  <2>1. UNCHANGED work /\ turn = "SCHEDULE" /\ turn' = "DECODE"
    BY <1>1 DEF doSCHEDULER, work
  <2> QED BY <1>1, <2>1, Stalled
<1>2. CASE pipe = "FLUSH"
  <2>1. /\ turn = "SCHEDULE" /\ turn' = "DECODE"
        /\ issuePort' = FlushBack(issuePort, squashSN)
        /\ iWindow' = Filter(iWindow, {i \in Ids : i < squashSN})
        /\ UNCHANGED <<program, supplied, codeCache, pipe, squashSN, stage, busy, wires,
                       retired, deleted, iQUE, EU, memPort, memBuff, iROB, fetchPort,
                       decodePort>>
    BY <1>2 DEF doSCHEDULER
  <2> QED BY <1>2, <2>1, FlushEmpties, FlushStep
<1>3. CASE pipe \notin {"WAIT_FLUSH", "FLUSH"}
  BY <1>3, SchedulerNormal
<1> QED BY <1>1, <1>2, <1>3

-----------------------------------------------------------------------------
(* Commit.  iROB is the front of iQUE, so that the same instructions leave *)
(* both; they are complete and on the right path.                          *)

LEMMA Committed ==
  ASSUME IInv, NEW k \in Nat, k <= Len(iROB)
  PROVE  /\ Take(iROB, k) = Take(iQUE, k)
         /\ k \in 0 .. Len(iROB) /\ k \in 0 .. Len(iQUE)
         /\ iROB \in Seq(Ids) /\ Increasing(iROB) /\ iQUE \in Seq(Ids) /\ Increasing(iQUE)
<1>1. TypeOK /\ Ids \in SUBSET Nat
  BY Numbers DEF IInv
<1>2. iROB \in Seq(Ids) /\ Increasing(iROB) /\ iQUE \in Seq(Ids) /\ Increasing(iQUE)
  BY <1>1, QueueTypes DEF IInv, InOrder
<1>3. IsPrefixOf(iROB, iQUE)
  <2>1. /\ Elements(iROB) \subseteq Elements(iQUE)
        /\ DownClosed(Elements(iROB), Elements(iQUE))
    BY DEF IInv, WindowOrder, Window, InROB, Fetched
  <2> QED BY <2>1, <1>1, <1>2, LeastElementsPrefix
<1>4. Len(iROB) \in 0 .. Len(iQUE) /\ \A n \in 0 .. Len(iROB) : Take(iROB, n) = Take(iQUE, n)
  BY <1>2, <1>3, PrefixTake
<1>5. Len(iROB) \in Nat /\ Len(iQUE) \in Nat
  BY <1>2, ElementsIn
<1> QED BY <1>2, <1>4, <1>5

LEMMA CommitNormal ==
  ASSUME IInv, doCOMMIT, pipe \notin {"WAIT_FLUSH", "FLUSH"}
  PROVE  IInv'
<1> USE DEF frontVars, squashVars, memVars
<1>u. UNCHANGED <<program, supplied, codeCache, pipe, squashSN, wires, deleted, fetchPort,
                  decodePort, iWindow, issuePort, EU, stage, busy, memPort, memBuff>>
  BY DEF doCOMMIT
<1>t. Ids' = Ids /\ RightPathIds' = RightPathIds /\ Regs' = Regs
  BY <1>u, ProgramStays
<1>3. TypeOK /\ Ids \in SUBSET Nat
  BY Numbers DEF IInv
<1>e. Units' = Units /\ Waiting' = Waiting /\ Accesses' = Accesses
  BY <1>u DEF Units, Waiting, Accesses
<1>1. PICK k \in 0 .. Width : commitImpl(k)
  BY DEF doCOMMIT
<1>1a. turn = "COMMIT" /\ turn' = "MEMORY"
  BY DEF doCOMMIT
<1>1b. k \in Nat
  BY <1>3, Sizes
<1> DEFINE t == Take(iROB, k)
           C == Elements(t)
<1>2. /\ k <= Len(iROB)
      /\ \A i \in C : stage[i] = "COMPLETE" /\ ~WrongPath(i)
      /\ iROB' = Drop(iROB, k) /\ iQUE' = Drop(iQUE, k)
      /\ retired' = retired \o t
  BY <1>1 DEF commitImpl, isCommittable
<1>4. /\ t = Take(iQUE, k) /\ k \in 0 .. Len(iROB) /\ k \in 0 .. Len(iQUE)
      /\ iROB \in Seq(Ids) /\ Increasing(iROB) /\ iQUE \in Seq(Ids) /\ Increasing(iQUE)
      /\ Len(iROB) \in Nat
  BY <1>1b, <1>2, Committed, ElementsIn
<1>5. /\ t \in Seq(Ids) /\ Increasing(t)
      /\ iROB' \in Seq(Ids) /\ Increasing(iROB') /\ Len(iROB') = Len(iROB) - k
      /\ InROB' = InROB \ C /\ C \subseteq InROB
  <2>1. t \in Seq(Ids) /\ Drop(iROB, k) \in Seq(Ids) /\ Len(Drop(iROB, k)) = Len(iROB) - k
    BY <1>4, TakeDrop
  <2>2. /\ Increasing(t) /\ Increasing(Drop(iROB, k))
        /\ Elements(Drop(iROB, k)) = Elements(iROB) \ C
    BY <1>3, <1>4, IncreasingTakeDrop
  <2>3. C \subseteq Elements(iROB)
    BY <1>4, TakeDropElements
  <2> QED BY <2>1, <2>2, <2>3, <1>2 DEF InROB
<1>6. /\ iQUE' \in Seq(Ids) /\ Increasing(iQUE')
      /\ Fetched' = Fetched \ C /\ Before(C, Fetched')
  <2>1. Drop(iQUE, k) \in Seq(Ids)
    BY <1>4, TakeDrop
  <2>2. /\ Increasing(Drop(iQUE, k))
        /\ Elements(Drop(iQUE, k)) = Elements(iQUE) \ Elements(Take(iQUE, k))
        /\ Before(Elements(Take(iQUE, k)), Elements(Drop(iQUE, k)))
    BY <1>3, <1>4, IncreasingTakeDrop
  <2> QED BY <2>1, <2>2, <1>2, <1>4 DEF Fetched
<1> HIDE DEF t
<1>7. /\ InROB \subseteq Fetched /\ C \subseteq Fetched /\ Fetched \subseteq Ids
      /\ Before(C, Elements(codeCache)) /\ C \subseteq Traced /\ Elements(retired) \subseteq Ids
      /\ Elements(codeCache) \subseteq Ids
  BY <1>3, <1>5, ElementTypes DEF IInv, WindowOrder, Window, TraceOrder, Before, Traced
<1>8. /\ retired' \in Seq(Ids) /\ Increasing(retired')
      /\ Elements(retired') = Elements(retired) \cup C
  <2>1. Before(Elements(retired), C)
    BY <1>7 DEF IInv, TraceOrder, Before
  <2>2. retired \in Seq(Ids) /\ Increasing(retired)
    BY <1>3, QueueTypes DEF IInv, InOrder
  <2>3. retired \o t \in Seq(Ids) /\ Elements(retired \o t) = Elements(retired) \cup C
    BY <2>2, <1>5, Concat
  <2>4. Increasing(retired \o t)
    BY <2>1, <2>2, <1>5, Concat
  <2> QED BY <2>3, <2>4, <1>2
<1> HIDE DEF C
<1>9. /\ C \cap Units = {} /\ C \cap Accesses = {} /\ C \cap Waiting = {}
      /\ C \cap Elements(decodePort) = {} /\ C \cap Elements(fetchPort) = {}
      /\ C \cap Elements(codeCache) = {}
  <2>1. /\ C \cap Units = {} /\ C \cap Accesses = {} /\ C \cap Waiting = {}
        /\ C \cap Elements(decodePort) = {} /\ C \cap Elements(fetchPort) = {}
    BY <1>2 DEF IInv, StagesTrue, Waiting
  <2>2. C \cap Elements(codeCache) = {}
    <3>1. C \in SUBSET Nat /\ Elements(codeCache) \in SUBSET Nat
      BY <1>3, <1>7
    <3> QED BY <3>1, <1>7, BeforeDisjoint
  <2> QED BY <2>1, <2>2
<1>10. /\ Traced' = Traced \ C /\ Window' = Window \ C
       /\ Begun' = Begun \ C /\ Outstanding' = Outstanding
  <2>1. Traced' = Traced \ C /\ Window' = Window \ C
    BY <1>5, <1>6, <1>9, <1>u DEF Traced, Window
  <2>2. Begun' = Begun \ C
    BY <1>6, <1>u DEF Begun
  <2>3. Outstanding' = Outstanding
    BY <1>6, <1>2, <1>u DEF Outstanding, Fetched
  <2> QED BY <2>1, <2>2, <2>3
<1>11. Before(C, Traced')
  BY <1>6, <1>7, <1>u DEF Before, Traced
<1> USE <1>u, <1>t, <1>e
<1>12. TypeOK'
  <2>1. \A q \in {codeCache', iQUE', fetchPort', decodePort', iWindow', issuePort',
                  memPort', memBuff', iROB', retired'} : q \in Seq(Ids')
    BY <1>3, <1>5, <1>6, <1>8, QueueTypes
  <2>2. Len(iROB') <= RobSize
    <3>1. Len(iROB) <= RobSize /\ RobSize \in Nat
      BY <1>3, Sizes
    <3> QED BY <3>1, <1>1b, <1>4, <1>5
  <2> QED BY <1>1a, <1>3, <2>1, <2>2 DEF TypeOK
<1>13. InOrder'
  BY <1>5, <1>6, <1>8 DEF IInv, InOrder
<1>14. TraceOrder'
  <2>1. Before(Elements(retired'), Traced')
    BY <1>8, <1>10, <1>11 DEF IInv, TraceOrder, Before
  <2>2. Before(Fetched', Elements(codeCache'))
    BY <1>6 DEF IInv, TraceOrder, Before
  <2>3. Elements(retired') \cup Traced' \subseteq 1 .. supplied'
    BY <1>7, <1>8, <1>10 DEF IInv, TraceOrder
  <2>4. Elements(retired') \subseteq RightPathIds'
    BY <1>2, <1>7, <1>8 DEF IInv, TraceOrder, RightPathIds, C
  <2>5. \A i \in Traced' : i .. supplied' \subseteq Traced'
    <3> SUFFICES ASSUME NEW i \in Traced', NEW j \in i .. supplied PROVE j \in Traced'
      OBVIOUS
    <3>1. j \in Traced
      BY <1>10 DEF IInv, TraceOrder
    <3>2. ASSUME j \in C PROVE FALSE
      <4>1. j < i
        BY <3>2, <1>11 DEF Before
      <4>2. i \in Nat /\ i <= j
        BY <2>3
      <4>3. j \in Nat
        BY <3>2, <1>3, <1>7
      <4> QED BY <4>1, <4>2, <4>3
    <3> QED BY <3>1, <3>2, <1>10
  <2> QED BY <2>1, <2>2, <2>3, <2>4, <2>5 DEF TraceOrder
<1>15. WindowOrder'
  <2>1. /\ Before(InROB', Elements(decodePort') \cup Elements(fetchPort'))
        /\ Before(Elements(decodePort'), Elements(fetchPort'))
        /\ DownClosed(InROB', Fetched')
    BY <1>5, <1>6 DEF IInv, WindowOrder, Before, DownClosed
  <2>2. /\ Window' \subseteq Fetched'
        /\ pipe' = "NORMAL" => Fetched' \subseteq Window'
    BY <1>6, <1>10 DEF IInv, WindowOrder
  <2> QED BY <2>1, <2>2 DEF IInv, WindowOrder, FlushedIn
<1>16. IssueOrder'
  BY <1>5, <1>9, <1>10 DEF IInv, IssueOrder, Before
<1>17. StagesTrue'
  <2>1. Fetched' \ InROB' \subseteq Fetched \ InROB
    BY <1>5, <1>6
  <2>2. \A i \in Units \cup Accesses : i \in InROB'
    BY <1>5, <1>9 DEF IInv, StagesTrue
  <2> QED BY <2>1, <2>2 DEF IInv, StagesTrue
<1>18. ScoreboardExact'
  BY <1>10, ScoreboardStays DEF IInv
<1>19. Squashing'
  <2>1. Culprit => Culprit'
    BY <1>2, <1>5 DEF Culprit, WrongPath, C
  <2>2. pipe = "SQUASH_ROB" => iROB' = << >> /\ iQUE' = << >>
    <3> SUFFICES ASSUME pipe = "SQUASH_ROB" PROVE iROB' = << >> /\ iQUE' = << >>
      OBVIOUS
    <3>1. iROB = << >> /\ iQUE = << >>
      BY <1>1a DEF IInv, Squashing
    <3>2. Elements(iROB') = {} /\ Elements(iQUE') = {}
      BY <3>1, <1>5, <1>6, EmptyQueue DEF InROB, Fetched
    <3> QED BY <3>2, <1>5, <1>6, ElementsIn
  <2>3. pipe = "NORMAL" => \A i \in Fetched' :
           stage[i] \in {"MEM_ACCESS", "COMPLETE"} => ~WrongPath(i)
    BY <1>6 DEF IInv, Squashing
  <2> QED BY <2>1, <2>2, <2>3, <1>1a DEF IInv, Squashing, WrongPath
<1>20. Flushing'
  BY <1>1a DEF IInv, Flushing, FlushedIn, EndsBefore
<1>21. Accounted'
  BY <1>8, <1>10 DEF IInv, Accounted, WrongPath
<1> QED BY <1>12, <1>13, <1>14, <1>15, <1>16, <1>17, <1>18, <1>19, <1>20, <1>21 DEF IInv

LEMMA CommitStep ==
  ASSUME IInv, doCOMMIT
  PROVE  IInv'
<1> USE DEF frontVars, squashVars, history, memVars, backQueues, queues
<1>1. CASE pipe \in {"WAIT_FLUSH", "FLUSH"}
  <2>1. UNCHANGED work /\ turn = "COMMIT" /\ turn' = "MEMORY"
    BY <1>1 DEF doCOMMIT, work
  <2> QED BY <1>1, <2>1, Stalled
<1>2. CASE pipe \notin {"WAIT_FLUSH", "FLUSH"}
  BY <1>2, CommitNormal
<1> QED BY <1>1, <1>2

-----------------------------------------------------------------------------
(* Memory. *)

LEMMA NumWrARType ==
  ASSUME TypeOK, NEW q \in Seq(Ids)
  PROVE  NumWrAR(q) \in Nat
<1> DEFINE N == Len(q)
           Step == [p \in (1 .. N) \X Nat |-> p[2] + Cardinality(wr(q[p[1]]))]
           Loop(f) == [n \in 0 .. N |-> IF n = 0 THEN 0 ELSE f[n - 1] + Cardinality(wr(q[n]))]
           upTo == CHOOSE f : f = Loop(f)
<1>0. N \in Nat /\ \A n \in 1 .. N : q[n] \in Ids /\ n - 1 \in 0 .. N /\ n # 0 /\ n \in 0 .. N
  OBVIOUS
<1>1. NumWrAR(q) = upTo[N]
  BY Zenon DEF NumWrAR
<1>2. \A n \in 1 .. N : Cardinality(wr(q[n])) \in Nat
  BY <1>0, Numbers, FS_CardinalityType
<1> HIDE DEF N
<1>3. Step \in [(1 .. N) \X Nat -> Nat]
  BY <1>2
<1>r. PICK f : Recursive(f, N, Nat, 0, Step)
  <2> HIDE DEF Step
  <2> QED BY <1>0, <1>3, Recursion
<1>4. f \in [0 .. N -> Nat] /\ f[0] = 0 /\ \A n \in 1 .. N : f[n] = Step[<<n, f[n - 1]>>]
  BY <1>r DEF Recursive
<1>5. ASSUME NEW n \in 1 .. N PROVE f[n] = f[n - 1] + Cardinality(wr(q[n]))
  <2>1. f[n - 1] \in Nat
    BY <1>0, <1>4
  <2>2. Step[<<n, f[n - 1]>>] = f[n - 1] + Cardinality(wr(q[n]))
    BY <2>1
  <2> QED BY <2>2, <1>4
<1> HIDE DEF Step
<1>6. f = Loop(f)
  <2>1. \A n \in 0 .. N : f[n] = Loop(f)[n]
    <3> TAKE n \in 0 .. N
    <3>1. CASE n = 0
      BY <3>1, <1>4
    <3>2. CASE n # 0
      <4>1. n \in 1 .. N
        BY <3>2, <1>0
      <4> QED BY <4>1, <3>2, <1>5
    <3> QED BY <3>1, <3>2
  <2>2. f = [n \in 0 .. N |-> f[n]]
    BY <1>4
  <2>3. Loop(f) = [n \in 0 .. N |-> Loop(f)[n]]
    OBVIOUS
  <2> HIDE DEF Loop
  <2> QED BY <2>1, <2>2, <2>3
<1>7. upTo = Loop(upTo)
  <2> HIDE DEF Loop
  <2> QED BY <1>6
<1> HIDE DEF upTo
<1>8. \A n \in 0 .. N : upTo[n] \in Nat
  <2>1. upTo[0] = 0
    BY <1>0, <1>7
  <2>2. \A n \in 1 .. N : upTo[n] = upTo[n - 1] + Cardinality(wr(q[n]))
    BY <1>0, <1>7
  <2> DEFINE G == {n \in 0 .. N : upTo[n] \in Nat}
  <2>3. 0 \in G
    BY <1>0, <2>1
  <2>4. \A n \in 1 .. N : n - 1 \in G => n \in G
    BY <1>0, <1>2, <2>2
  <2>5. \A n \in 0 .. N : n \in G
    <3> HIDE DEF G
    <3> QED BY <1>0, <2>3, <2>4, UpTo
  <2> QED BY <2>5
<1> QED BY <1>0, <1>1, <1>8

(* What stays of a queue when its front leaves, and when others follow it. *)
LEMMA EndsBeforeDrop ==
  ASSUME NEW D, NEW q \in Seq(D), NEW k \in 0 .. Len(q), NEW sn, EndsBefore(q, sn)
  PROVE  EndsBefore(Drop(q, k), sn)
<1> DEFINE r == Drop(q, k)
<1>1. r \in Seq(D) /\ Len(r) = Len(q) - k /\ \A n \in 1 .. Len(q) - k : r[n] = q[k + n]
  BY TakeDrop
<1>2. Len(q) \in Nat /\ k \in Nat
  BY ElementsIn
<1> HIDE DEF r
<1>3. CASE Len(r) = 0
  BY <1>1, <1>3, ElementsIn DEF EndsBefore, r
<1>4. CASE Len(r) # 0
  <2>0. Len(r) \in 1 .. Len(q) - k /\ k + Len(r) = Len(q) /\ Len(q) # 0
    BY <1>1, <1>2, <1>4
  <2>1. r[Len(r)] = q[k + Len(r)]
    BY <1>1, <2>0
  <2>2. q # << >>
    BY <2>0, ElementsIn
  <2> QED BY <2>0, <2>1, <2>2 DEF EndsBefore, r
<1> QED BY <1>3, <1>4

LEMMA EndsBeforeConcat ==
  ASSUME NEW D, NEW q \in Seq(D), NEW r \in Seq(D), NEW sn,
         EndsBefore(r, sn), r = << >> => EndsBefore(q, sn)
  PROVE  EndsBefore(q \o r, sn)
<1>1. CASE r = << >>
  <2>1. q \o r = q
    BY <1>1
  <2> QED BY <1>1, <2>1
<1>2. CASE r # << >>
  <2>1. Len(r) \in Nat \ {0} /\ Len(q) \in Nat
    BY <1>2, ElementsIn
  <2>2. (q \o r)[Len(q \o r)] = r[Len(r)]
    BY <2>1
  <2> QED BY <1>2, <2>2 DEF EndsBefore
<1> QED BY <1>1, <1>2

LEMMA MemoryStep ==
  ASSUME IInv, doMEMORY
  PROVE  IInv'
<1> USE DEF frontVars, squashVars, history, backQueues
<1>u. UNCHANGED <<program, supplied, codeCache, pipe, squashSN, retired, deleted, iQUE,
                  fetchPort, decodePort, iWindow, issuePort, EU, iROB>>
  BY DEF doMEMORY
<1>t. Ids' = Ids /\ RightPathIds' = RightPathIds /\ Regs' = Regs
  BY <1>u, ProgramStays
<1>3. TypeOK /\ Ids \in SUBSET Nat
  BY Numbers DEF IInv
<1>e. /\ Fetched' = Fetched /\ Units' = Units /\ Traced' = Traced /\ Waiting' = Waiting
      /\ InROB' = InROB /\ Window' = Window
  BY <1>u DEF Fetched, Units, Traced, Waiting, InROB, Window
<1> DEFINE rest(k) == Drop(memBuff, k)
           kept(k) == IF pipe = "FLUSH" THEN FlushBack(rest(k), squashSN) ELSE rest(k)
<1>1. PICK k, m \in 0 .. MemWidth : completeMemIns(k) /\ memoryImpl(kept(k), m)
  BY DEF doMEMORY
<1>1a. turn = "MEMORY" /\ turn' = "EXECUTE"
  BY DEF doMEMORY
<1> DEFINE out == Take(memBuff, k)
           O == Elements(out)
           buff == kept(k)
           started == Take(memPort, m)
           S == Elements(started)
<1>2. /\ k <= Len(memBuff) /\ NumWrAR(out) <= WrWires
      /\ stage' = AtStage(O, "COMPLETE", stage)
      /\ busy' = busy \ writtenBy(O)
      /\ wires' = WrWires - NumWrAR(out)
  BY <1>1 DEF completeMemIns
<1>4. /\ m <= Len(memPort) /\ Len(buff) + m <= MemBuffLen
      /\ memPort' = Drop(memPort, m) /\ memBuff' = buff \o started
  BY <1>1 DEF memoryImpl
<1>5. /\ memPort \in Seq(Ids) /\ Distinct(memPort) /\ Len(memPort) \in Nat
      /\ memBuff \in Seq(Ids) /\ Distinct(memBuff) /\ Len(memBuff) \in Nat
      /\ Elements(memPort) \cap Elements(memBuff) = {}
      /\ squashSN \in Nat
  <2>1. squashSN \in Ids \cup {0}
    BY <1>3 DEF TypeOK
  <2> QED BY <1>3, <2>1, QueueTypes, ElementsIn DEF IInv, InOrder
<1>6. k \in 0 .. Len(memBuff) /\ m \in 0 .. Len(memPort) /\ k \in Nat /\ m \in Nat
  <2>1. MemWidth \in Nat
    BY <1>3, Sizes
  <2> QED BY <2>1, <1>2, <1>4, <1>5
<1>7. /\ out \in Seq(Ids) /\ O \subseteq Elements(memBuff)
      /\ rest(k) \in Seq(Ids) /\ Distinct(rest(k)) /\ Elements(rest(k)) = Elements(memBuff) \ O
  <2>1. out \in Seq(Ids) /\ rest(k) \in Seq(Ids)
    BY <1>5, <1>6, TakeDrop
  <2>2. Distinct(rest(k)) /\ Elements(rest(k)) = Elements(memBuff) \ O
    BY <1>5, <1>6, DistinctTakeDrop
  <2>3. O \subseteq Elements(memBuff)
    BY <1>5, <1>6, TakeDropElements
  <2> QED BY <2>1, <2>2, <2>3
<1>8. /\ started \in Seq(Ids) /\ Distinct(started) /\ S \subseteq Elements(memPort)
      /\ Len(started) = m
      /\ memPort' \in Seq(Ids) /\ Distinct(memPort') /\ Len(memPort') = Len(memPort) - m
      /\ Elements(memPort') = Elements(memPort) \ S
  <2>1. /\ started \in Seq(Ids) /\ Len(started) = m
        /\ Drop(memPort, m) \in Seq(Ids) /\ Len(Drop(memPort, m)) = Len(memPort) - m
    BY <1>5, <1>6, TakeDrop
  <2>2. /\ Distinct(started) /\ Distinct(Drop(memPort, m))
        /\ Elements(Drop(memPort, m)) = Elements(memPort) \ S
    BY <1>5, <1>6, DistinctTakeDrop
  <2>3. S \subseteq Elements(memPort)
    BY <1>5, <1>6, TakeDropElements
  <2> QED BY <2>1, <2>2, <2>3, <1>4
<1>9. /\ buff \in Seq(Ids) /\ Distinct(buff)
      /\ Elements(buff) \subseteq Elements(memBuff) \ O
      /\ pipe = "FLUSH" => EndsBefore(buff, squashSN)
      /\ pipe # "FLUSH" => buff = rest(k)
  <2> DEFINE r == rest(k)
             b == FlushBack(r, squashSN)
  <2>1. r \in Seq(Ids) /\ Distinct(r) /\ Elements(r) = Elements(memBuff) \ O
    BY <1>7
  <2>2. buff = IF pipe = "FLUSH" THEN b ELSE r
    OBVIOUS
  <2> HIDE DEF r, O, buff
  <2>3. /\ b \in Seq(Ids) /\ Distinct(b) /\ Elements(b) \subseteq Elements(r)
        /\ EndsBefore(b, squashSN)
    BY <2>1, <1>3, <1>5, FlushBackElements
  <2> HIDE DEF b
  <2> QED BY <2>1, <2>2, <2>3 DEF r
<1> HIDE DEF buff, out, started
<1>10. /\ memBuff' \in Seq(Ids) /\ Distinct(memBuff') /\ Len(memBuff') <= MemBuffLen
       /\ Elements(memBuff') = Elements(buff) \cup S
  <2>1. Elements(buff) \cap S = {}
    BY <1>5, <1>8, <1>9
  <2>2. /\ buff \o started \in Seq(Ids) /\ Len(buff \o started) = Len(buff) + Len(started)
        /\ Elements(buff \o started) = Elements(buff) \cup S
    BY <1>8, <1>9, Concat
  <2>3. Distinct(buff \o started)
    BY <1>8, <1>9, <2>1, Concat
  <2>4. memBuff' = buff \o started /\ Len(buff) + m <= MemBuffLen /\ Len(started) = m
    BY <1>4, <1>8
  <2> HIDE DEF S
  <2> QED BY <2>2, <2>3, <2>4
<1> HIDE DEF O, S
<1>11. /\ Accesses' \subseteq Accesses \ O /\ O \subseteq Accesses
       /\ Elements(memPort') \cap Elements(memBuff') = {}
  BY <1>5, <1>7, <1>8, <1>9, <1>10 DEF Accesses
<1>12. /\ O \subseteq InROB /\ InROB \subseteq Fetched /\ Fetched \subseteq Ids
       /\ \A i \in O : stage[i] = "MEM_ACCESS"
  BY <1>3, <1>11, ElementTypes DEF IInv, StagesTrue, WindowOrder, Window
<1>13. /\ stage' \in [Ids -> Stages]
       /\ \A i \in O : stage'[i] = "COMPLETE"
       /\ \A i \in Ids \ O : stage'[i] = stage[i]
  <2>1. stage \in [Ids -> Stages] /\ "COMPLETE" \in Stages /\ O \in SUBSET Ids
    BY <1>3, <1>12 DEF TypeOK, Stages
  <2> DEFINE s == AtStage(O, "COMPLETE", stage)
  <2>2. /\ s \in [Ids -> Stages]
        /\ \A i \in O : s[i] = "COMPLETE"
        /\ \A i \in Ids \ O : s[i] = stage[i]
    BY <2>1, AtStageTable
  <2>3. stage' = s
    BY <1>2 DEF O
  <2> HIDE DEF s
  <2> QED BY <2>2, <2>3
<1>14. \A i \in Fetched : i \in O \/ stage'[i] = stage[i]
  BY <1>12, <1>13
<1>15. Begun' = Begun /\ Outstanding' = Outstanding \ O /\ O \subseteq Outstanding
  BY <1>12, <1>13, <1>14, <1>e DEF Begun, Outstanding, Fetched
<1> USE <1>u, <1>t, <1>e
<1>16. TypeOK'
  <2>1. \A q \in {codeCache', iQUE', fetchPort', decodePort', iWindow', issuePort',
                  memPort', memBuff', iROB', retired'} : q \in Seq(Ids')
    BY <1>3, <1>8, <1>10, QueueTypes
  <2>2. Len(memPort') <= MemPortLen
    <3>1. Len(memPort) <= MemPortLen /\ MemPortLen \in Nat
      BY <1>3, Sizes
    <3> QED BY <3>1, <1>5, <1>6, <1>8
  <2>3. wires' \in 0 .. WrWires
    <3>1. NumWrAR(out) \in Nat /\ WrWires \in Nat
      BY <1>3, <1>7, NumWrARType, Sizes
    <3> QED BY <3>1, <1>2
  <2>4. busy' \subseteq Regs'
    BY <1>2, <1>3 DEF TypeOK
  <2> QED BY <1>1a, <1>3, <1>10, <1>13, <2>1, <2>2, <2>3, <2>4 DEF TypeOK
<1>17. InOrder'
  BY <1>8, <1>10, <1>11 DEF IInv, InOrder
<1>18. TraceOrder'
  BY DEF IInv, TraceOrder
<1>19. WindowOrder'
  BY <1>1a DEF IInv, WindowOrder, FlushedIn
<1>20. IssueOrder'
  BY <1>15 DEF IInv, IssueOrder
<1>21. StagesTrue'
  <2>1. /\ \A i \in Elements(fetchPort) \cup Elements(decodePort) : i \notin O /\ i \in Fetched
        /\ \A i \in Waiting \cup Units : i \notin O /\ i \in Fetched
        /\ \A i \in Fetched \ InROB : i \notin O
    <3>1. /\ Elements(fetchPort) \cup Elements(decodePort) \subseteq Fetched
          /\ Waiting \cup Units \subseteq Fetched
      BY <1>12 DEF IInv, WindowOrder, Window, IssueOrder, StagesTrue
    <3> QED BY <3>1, <1>12 DEF IInv, StagesTrue, Waiting
  <2>2. \A i \in Accesses' : i \in InROB /\ stage'[i] = "MEM_ACCESS"
    BY <1>11, <1>12, <1>14 DEF IInv, StagesTrue
  <2>3. \A i \in Fetched \ InROB : stage'[i] \in {"FETCH", "DECODE"}
    BY <2>1, <1>14 DEF IInv, StagesTrue
  <2>4. /\ \A i \in Elements(fetchPort) : stage'[i] = "FETCH"
        /\ \A i \in Elements(decodePort) : stage'[i] = "DECODE"
        /\ \A i \in Units : i \in InROB /\ stage'[i] = "EXECUTE"
    BY <2>1, <1>14 DEF IInv, StagesTrue
  <2>5. /\ \A i \in Elements(iWindow) : stage'[i] = "DISPATCH"
        /\ \A i \in Elements(issuePort) : stage'[i] = "ISSUE"
    BY <2>1, <1>14 DEF IInv, StagesTrue, Waiting
  <2> QED BY <2>2, <2>3, <2>4, <2>5 DEF StagesTrue
<1>22. ScoreboardExact'
  <2>1. CASE pipe = "SQUASH_ROB"
    <3>1. ScoreboardExact
      BY DEF IInv
    <3>2. /\ Outstanding' = (Outstanding \ O) \cup {} /\ O \in SUBSET Outstanding
          /\ pipe' = "SQUASH_ROB"
      BY <2>1, <1>15
    <3> QED BY <3>1, <3>2, ScoreboardStep
  <2>2. CASE pipe # "SQUASH_ROB"
    <3>1. ScoreboardExact
      BY DEF IInv
    <3>2. /\ Outstanding' = (Outstanding \ O) \cup {} /\ O \in SUBSET Outstanding
      BY <1>15
    <3>3. busy' = (busy \ writtenBy(O)) \cup writtenBy({})
      BY <1>2 DEF writtenBy, O
    <3> QED BY <2>2, <3>1, <3>2, <3>3, ScoreboardStep
  <2> QED BY <2>1, <2>2
<1>23. Squashing'
  <2>1. pipe = "NORMAL" => \A i \in Fetched :
          stage'[i] \in {"MEM_ACCESS", "COMPLETE"} => ~WrongPath(i)
    BY <1>12, <1>14 DEF IInv, Squashing
  <2>2. Culprit => Culprit'
    BY <1>12, <1>13, <1>14 DEF Culprit, WrongPath
  <2> QED BY <2>1, <2>2, <1>1a DEF IInv, Squashing, WrongPath
<1>24. Flushing'
  <2>1. FlushedIn({"DECODE", "FETCH", "COMMIT", "MEMORY", "EXECUTE"})' => Waiting' = {}
    BY <1>1a DEF IInv, Flushing, FlushedIn
  <2>2. ASSUME pipe \in {"FLUSH", "DRAIN", "SQUASH_ROB"}
        PROVE  /\ Units = {} /\ EndsBefore(memPort', squashSN)
               /\ memPort' # << >> \/ EndsBefore(memBuff', squashSN)
    <3>1. Units = {} /\ EndsBefore(memPort, squashSN)
      BY <2>2 DEF IInv, Flushing
    <3>2. EndsBefore(memPort', squashSN)
      BY <3>1, <1>4, <1>5, <1>6, EndsBeforeDrop
    <3>3. ASSUME memPort' = << >> PROVE EndsBefore(memBuff', squashSN)
      <4>1. m = Len(memPort)
        <5>1. Len(memPort') = 0
          BY <3>3, EmptyQueue
        <5> QED BY <5>1, <1>5, <1>6, <1>8
      <4>2. started = memPort
        BY <4>1, <1>5 DEF started, Take
      <4>3. memPort = << >> => EndsBefore(buff, squashSN)
        <5> SUFFICES ASSUME memPort = << >> PROVE EndsBefore(buff, squashSN)
          OBVIOUS
        <5>1. CASE pipe = "FLUSH"
          BY <5>1, <1>9
        <5>2. CASE pipe # "FLUSH"
          <6>1. EndsBefore(memBuff, squashSN)
            BY <5>2, <2>2 DEF IInv, Flushing, FlushedIn
          <6>2. buff = Drop(memBuff, k)
            BY <5>2, <1>9
          <6> QED BY <6>1, <6>2, <1>5, <1>6, EndsBeforeDrop
        <5> QED BY <5>1, <5>2
      <4>4. memBuff' = buff \o memPort
        BY <4>2, <1>4
      <4> QED BY <4>3, <4>4, <3>1, <1>5, <1>9, EndsBeforeConcat
    <3> QED BY <3>1, <3>2, <3>3
  <2>3. ASSUME pipe = "SQUASH_ROB" PROVE memPort' = << >> /\ memBuff' = << >>
    <3>1. memPort = << >> /\ memBuff = << >>
      BY <2>3 DEF IInv, Flushing
    <3>2. Accesses = {}
      BY <3>1, EmptyQueue DEF Accesses
    <3>3. Elements(memPort') = {} /\ Elements(memBuff') = {}
      BY <3>2, <1>11 DEF Accesses
    <3> QED BY <3>3, <1>8, <1>10, ElementsIn
  <2>4. FlushedIn({"EXECUTE"})' => pipe \in {"FLUSH", "DRAIN", "SQUASH_ROB"}
    BY DEF FlushedIn
  <2> QED BY <2>1, <2>2, <2>3, <2>4 DEF Flushing, EndsBefore
<1>25. Accounted'
  BY DEF IInv, Accounted, WrongPath
<1> QED BY <1>16, <1>17, <1>18, <1>19, <1>20, <1>21, <1>22, <1>23, <1>24, <1>25 DEF IInv

-----------------------------------------------------------------------------
(* The write-back loop. *)

(* What the loop carries from unit to unit. *)
AccState == [ended : BOOLEAN, done : SUBSET Ids, port : Seq(Ids), wires : Int,
             bad : Ids \cup {NoIns}]

(* The units in W have had their turn. *)
WrittenBack(acc, W) ==
  /\ acc.done \subseteq W
  /\ Elements(acc.port) = Elements(memPort) \cup {i \in acc.done : Op(i) # "ALU"}
  /\ Distinct(acc.port) /\ Len(acc.port) <= MemPortLen
  /\ acc.done = {} => acc.port = memPort
  /\ IF acc.bad = NoIns THEN pipe = "NORMAL" => \A i \in acc.done : ~WrongPath(i)
     ELSE pipe = "NORMAL" /\ acc.bad \in acc.done /\ WrongPath(acc.bad)
  /\ pipe = "FLUSH" => acc.ended /\ acc.done = {}

LEMMA CompleteUnitType ==
  ASSUME TypeOK, NEW acc \in AccState, NEW i \in Ids \cup {NoIns}
  PROVE  completeUnit(acc, i) \in AccState
<1>1. CASE acc.ended \/ i = NoIns
  BY <1>1 DEF completeUnit
<1>2. CASE ~(acc.ended \/ i = NoIns)
  <2>1. i \in Ids /\ Cardinality(wr(i)) \in Nat /\ WrongPath(i) \in BOOLEAN
    BY <1>2, Numbers, FS_CardinalityType
  <2>2. /\ acc.done \cup {i} \in SUBSET Ids
        /\ Append(acc.port, i) \in Seq(Ids)
        /\ acc.wires - Cardinality(wr(i)) \in Int
    BY <2>1 DEF AccState
  <2> QED BY <1>2, <2>1, <2>2 DEF completeUnit, AccState
<1> QED BY <1>1, <1>2

LEMMA CompleteUnit ==
  ASSUME IInv, NEW acc \in AccState, NEW W \in SUBSET Units, WrittenBack(acc, W),
         NEW i \in Units, i \notin W
  PROVE  WrittenBack(completeUnit(acc, i), W \cup {i})
<1>0. /\ i \in Ids /\ i # NoIns /\ WrongPath(i) \in BOOLEAN /\ NoIns \notin Ids
      /\ MemPortLen \in Nat
  BY Numbers, ElementTypes, Sizes DEF IInv
<1> DEFINE c == completeUnit(acc, i)
           port == IF Op(i) = "ALU" THEN acc.port ELSE Append(acc.port, i)
           bad == IF WrongPath(i) /\ pipe = "NORMAL" /\ (acc.bad = NoIns \/ i < acc.bad)
                  THEN i ELSE acc.bad
           PortFull == Op(i) # "ALU" /\ Len(acc.port) = MemPortLen
           left == [acc EXCEPT
                      !.done = @ \cup {i},
                      !.port = IF Op(i) = "ALU" THEN @ ELSE Append(@, i),
                      !.wires = IF Op(i) = "LOAD" THEN @ ELSE @ - Cardinality(wr(i)),
                      !.bad = IF WrongPath(i) /\ pipe = "NORMAL" /\ (@ = NoIns \/ i < @)
                              THEN i ELSE @]
           over == [acc EXCEPT !.ended = TRUE]
<1>a. /\ acc = [ended |-> acc.ended, done |-> acc.done, port |-> acc.port,
                wires |-> acc.wires, bad |-> acc.bad]
      /\ acc.ended \in BOOLEAN
  BY DEF AccState
<1>c. c = IF acc.ended \/ i = NoIns THEN acc
          ELSE IF PortFull THEN over
          ELSE IF Op(i) = "ALU" /\ acc.wires < Cardinality(wr(i)) THEN acc ELSE left
  BY Zenon DEF completeUnit
<1> SUFFICES WrittenBack(c, W \cup {i})
  OBVIOUS
<1> HIDE DEF c
<1>1. CASE c = acc
  BY <1>1 DEF WrittenBack
<1>b. CASE c = over
  <2>1. /\ c.ended = TRUE /\ c.done = acc.done /\ c.port = acc.port /\ c.bad = acc.bad
    BY <1>a, <1>b
  <2> HIDE DEF over
  <2> QED BY <2>1 DEF WrittenBack
<1>2. CASE c = left /\ ~acc.ended /\ ~PortFull
  <2>1. /\ ~acc.ended /\ (Op(i) # "ALU" => Len(acc.port) # MemPortLen)
        /\ c.done = acc.done \cup {i} /\ c.port = port /\ c.bad = bad
    <3>1. /\ left.done = acc.done \cup {i} /\ left.port = port /\ left.bad = bad
      BY <1>a
    <3> QED BY <1>2, <3>1
  <2>2. i \notin Elements(acc.port)
    <3>1. i \notin Elements(memPort)
      BY DEF IInv, StagesTrue, Accesses
    <3> QED BY <3>1 DEF WrittenBack
  <2>3. acc.port \in Seq(Ids) /\ Len(acc.port) \in Nat /\ Len(acc.port) <= MemPortLen
        /\ Distinct(acc.port)
    BY ElementsIn DEF AccState, WrittenBack
  <2>4. /\ Elements(port) = Elements(acc.port) \cup {j \in {i} : Op(j) # "ALU"}
        /\ Distinct(port) /\ Len(port) <= MemPortLen
    <3>1. CASE Op(i) = "ALU"
      BY <3>1, <2>3
    <3>2. CASE Op(i) # "ALU"
      <4>1. port = Append(acc.port, i)
        BY <3>2
      <4>2. /\ Len(Append(acc.port, i)) = Len(acc.port) + 1
            /\ Elements(Append(acc.port, i)) = Elements(acc.port) \cup {i}
            /\ Distinct(Append(acc.port, i))
        BY <1>0, <2>2, <2>3, AppendElements
      <4>3. Len(acc.port) + 1 <= MemPortLen
        BY <3>2, <2>1, <2>3, <1>0
      <4> HIDE DEF port
      <4> QED BY <4>1, <4>2, <4>3, <3>2
    <3> QED BY <3>1, <3>2
  <2> HIDE DEF port
  <2>5. Elements(port) = Elements(memPort) \cup {j \in c.done : Op(j) # "ALU"}
    BY <2>1, <2>4 DEF WrittenBack
  <2>6. IF bad = NoIns THEN pipe = "NORMAL" => \A j \in c.done : ~WrongPath(j)
        ELSE pipe = "NORMAL" /\ bad \in c.done /\ WrongPath(bad)
    <3>1. CASE WrongPath(i) /\ pipe = "NORMAL" /\ (acc.bad = NoIns \/ i < acc.bad)
      BY <3>1, <1>0, <2>1
    <3>2. CASE ~(WrongPath(i) /\ pipe = "NORMAL" /\ (acc.bad = NoIns \/ i < acc.bad))
      <4>1. bad = acc.bad
        BY <3>2
      <4>2. CASE acc.bad = NoIns
        BY <4>1, <4>2, <3>2, <2>1 DEF WrittenBack
      <4>3. CASE acc.bad # NoIns
        BY <4>1, <4>3, <2>1 DEF WrittenBack
      <4> QED BY <4>2, <4>3
    <3> QED BY <3>1, <3>2
  <2> HIDE DEF bad
  <2>7. c.done \subseteq W \cup {i} /\ c.done # {} /\ pipe # "FLUSH"
    BY <2>1 DEF WrittenBack
  <2> QED BY <2>1, <2>4, <2>5, <2>6, <2>7 DEF WrittenBack
<1>3. c = acc \/ c = over \/ (c = left /\ ~acc.ended /\ ~PortFull)
  <2> HIDE DEF left, over, PortFull
  <2> QED BY <1>0, <1>a, <1>c
<1> QED BY <1>1, <1>b, <1>2, <1>3

LEMMA CompleteSteps ==
  ASSUME TypeOK, NEW a \in AccState,
         a = [ended |-> pipe = "FLUSH", done |-> {}, port |-> memPort, wires |-> wires,
              bad |-> NoIns]
  PROVE  \E f \in [0 .. Width -> AccState] :
           /\ f[0] = a
           /\ \A e \in 1 .. Width : f[e] = completeUnit(f[e - 1], EU[e])
           /\ completeIns = f[Width]
<1> DEFINE N == Width
           Step == [p \in (1 .. N) \X AccState |-> completeUnit(p[2], EU[p[1]])]
           Loop(f) == [e \in 0 .. N |-> IF e = 0 THEN a ELSE completeUnit(f[e - 1], EU[e])]
           after == CHOOSE f : f = Loop(f)
<1>0. /\ N \in Nat /\ \A e \in 1 .. N : e - 1 \in 0 .. N /\ e # 0 /\ e \in 0 .. N
      /\ \A e \in 1 .. N : EU[e] \in Ids \cup {NoIns}
  <2>1. N \in Nat
    BY Sizes
  <2>2. \A e \in 1 .. N : EU[e] \in Ids \cup {NoIns}
    BY DEF TypeOK
  <2> HIDE DEF N
  <2>3. \A e \in 1 .. N : e - 1 \in 0 .. N /\ e # 0 /\ e \in 0 .. N
    BY <2>1
  <2> QED BY <2>1, <2>2, <2>3
<1>1. completeIns = after[N]
  BY Zenon DEF completeIns
<1> HIDE DEF N
<1>2. Step \in [(1 .. N) \X AccState -> AccState]
  BY <1>0, CompleteUnitType
<1>r. PICK f : Recursive(f, N, AccState, a, Step)
  <2> HIDE DEF Step
  <2> QED BY <1>0, <1>2, Recursion
<1>3. /\ f \in [0 .. N -> AccState]
      /\ f[0] = a /\ \A n \in 1 .. N : f[n] = Step[<<n, f[n - 1]>>]
  BY <1>r DEF Recursive
<1>4. ASSUME NEW e \in 1 .. N PROVE f[e] = completeUnit(f[e - 1], EU[e])
  <2>1. f[e - 1] \in AccState
    BY <1>0, <1>3
  <2>2. Step[<<e, f[e - 1]>>] = completeUnit(f[e - 1], EU[e])
    BY <2>1
  <2> QED BY <2>2, <1>3
<1> HIDE DEF Step
<1>5. f = Loop(f)
  <2>1. \A n \in 0 .. N : f[n] = Loop(f)[n]
    <3> TAKE n \in 0 .. N
    <3>1. CASE n = 0
      BY <3>1, <1>3
    <3>2. CASE n # 0
      <4>1. n \in 1 .. N
        BY <3>2, <1>0
      <4> QED BY <4>1, <3>2, <1>4
    <3> QED BY <3>1, <3>2
  <2>2. f = [n \in 0 .. N |-> f[n]]
    BY <1>3
  <2>3. Loop(f) = [n \in 0 .. N |-> Loop(f)[n]]
    OBVIOUS
  <2> HIDE DEF Loop
  <2> QED BY <2>1, <2>2, <2>3
<1>6. after = Loop(after)
  <2> HIDE DEF Loop
  <2> QED BY <1>5
<1> HIDE DEF after
<1>7. \A n \in 0 .. N : after[n] = f[n]
  <2>1. after[0] = a
    BY <1>0, <1>6
  <2>2. \A e \in 1 .. N : after[e] = completeUnit(after[e - 1], EU[e])
    BY <1>0, <1>6
  <2> DEFINE G == {n \in 0 .. N : after[n] = f[n]}
  <2>3. 0 \in G
    <3>1. after[0] = f[0]
      BY <1>3, <2>1
    <3>2. 0 \in 0 .. N
      BY <1>0
    <3> QED BY <3>1, <3>2
  <2>4. ASSUME NEW n \in 1 .. N, n - 1 \in G PROVE n \in G
    <3>1. after[n] = completeUnit(after[n - 1], EU[n]) /\ after[n - 1] = f[n - 1]
      BY <2>2, <2>4
    <3>2. after[n] = f[n]
      BY <3>1, <1>4
    <3> QED BY <3>2, <1>0
  <2>5. \A n \in 0 .. N : n \in G
    <3> HIDE DEF G
    <3> QED BY <1>0, <2>3, <2>4, UpTo
  <2> QED BY <2>5
<1>8. completeIns = f[N]
  BY <1>0, <1>1, <1>7
<1> QED BY <1>3, <1>4, <1>8 DEF N

LEMMA WriteBack ==
  ASSUME IInv
  PROVE  completeIns \in AccState /\ WrittenBack(completeIns, Units)
<1>1. /\ TypeOK /\ Width \in Nat /\ NoIns \notin Ids
      /\ EU \in [1 .. Width -> Ids \cup {NoIns}]
      /\ Units = {EU[e] : e \in 1 .. Width} \ {NoIns}
  BY Numbers, Sizes, ElementTypes DEF IInv, TypeOK
<1> DEFINE a == [ended |-> pipe = "FLUSH", done |-> {}, port |-> memPort,
                 wires |-> wires, bad |-> NoIns]
<1>2. memPort \in Seq(Ids) /\ Distinct(memPort) /\ Len(memPort) <= MemPortLen /\ wires \in Int
  BY <1>1, QueueTypes, Sizes DEF IInv, InOrder, TypeOK
<1>3. a \in AccState
  <2>1. (pipe = "FLUSH") \in BOOLEAN
    OBVIOUS
  <2> QED BY <1>2, <2>1 DEF AccState
<1>4. WrittenBack(a, {})
  BY <1>2 DEF WrittenBack
<1>5. PICK f \in [0 .. Width -> AccState] :
           /\ f[0] = a
           /\ \A e \in 1 .. Width : f[e] = completeUnit(f[e - 1], EU[e])
           /\ completeIns = f[Width]
  BY <1>1, <1>3, CompleteSteps
<1> HIDE DEF a
<1> DEFINE W(e) == {EU[d] : d \in 1 .. e} \ {NoIns}
           G == {e \in 0 .. Width : WrittenBack(f[e], W(e))}
<1>7. 0 \in G
  <2>1. W(0) = {}
    OBVIOUS
  <2> HIDE DEF W
  <2>2. WrittenBack(f[0], W(0))
    BY <2>1, <1>4, <1>5
  <2> QED BY <2>2, <1>1
<1>8. ASSUME NEW e \in 1 .. Width, e - 1 \in G PROVE e \in G
  <2>1. e \in 0 .. Width /\ e - 1 \in 0 .. Width /\ 1 .. e = (1 .. e - 1) \cup {e}
        /\ 1 .. e - 1 \subseteq 1 .. Width /\ \A d \in 1 .. e - 1 : d # e
    BY <1>1
  <2>2. f[e - 1] \in AccState /\ WrittenBack(f[e - 1], W(e - 1))
    BY <1>5, <1>8, <2>1
  <2>3. {EU[d] : d \in 1 .. e} = {EU[d] : d \in 1 .. e - 1} \cup {EU[e]}
    BY <2>1
  <2>4. f[e] = completeUnit(f[e - 1], EU[e])
    BY <1>5
  <2>5. CASE EU[e] = NoIns
    <3>1. W(e) = W(e - 1)
      BY <2>3, <2>5
    <3> HIDE DEF W
    <3>2. f[e] = f[e - 1]
      BY <2>4, <2>5 DEF completeUnit
    <3> QED BY <2>1, <2>2, <3>1, <3>2
  <2>6. CASE EU[e] # NoIns
    <3>1. W(e) = W(e - 1) \cup {EU[e]}
      BY <2>3, <2>6
    <3>2. W(e - 1) \in SUBSET Units /\ EU[e] \in Units
      BY <1>1, <2>1, <2>6
    <3>3. EU[e] \notin W(e - 1)
      <4>1. \A d \in 1 .. e - 1 : EU[d] # EU[e]
        BY <2>1, <2>6 DEF IInv, InOrder
      <4> QED BY <4>1
    <3> HIDE DEF W
    <3>4. WrittenBack(f[e], W(e - 1) \cup {EU[e]})
      BY <2>2, <2>4, <3>2, <3>3, CompleteUnit
    <3> QED BY <2>1, <3>1, <3>4
  <2> QED BY <2>5, <2>6
<1>9. Width \in G
  <2>1. \A e \in 0 .. Width : e \in G
    <3> HIDE DEF G
    <3> QED BY <1>1, <1>7, <1>8, UpTo
  <2> HIDE DEF G
  <2> QED BY <2>1, <1>1
<1>10. W(Width) = Units
  BY <1>1
<1>11. f[Width] \in AccState
  BY <1>1, <1>5
<1> QED BY <1>5, <1>9, <1>10, <1>11

-----------------------------------------------------------------------------
(* Issue: the free units take the instructions in turn. *)

LEMMA RanksDiffer ==
  ASSUME NEW N \in Nat, NEW S \in SUBSET (1 .. N)
  PROVE  \A d, e \in S : d # e => Cardinality({f \in S : f <= d}) # Cardinality({f \in S : f <= e})
<1>1. ASSUME NEW d \in S, NEW e \in S, d < e
      PROVE  Cardinality({f \in S : f <= d}) # Cardinality({f \in S : f <= e})
  <2> DEFINE A == {f \in S : f <= d}
             B == {f \in S : f <= e}
  <2>1. IsFiniteSet(B)
    <3>1. IsFiniteSet(1 .. N)
      BY FS_Interval
    <3>2. B \subseteq 1 .. N
      OBVIOUS
    <3> HIDE DEF B
    <3> QED BY <3>1, <3>2, FS_Subset
  <2>2. A \subseteq B /\ e \in B /\ e \notin A
    <3>1. \A f \in S : f \in Nat
      OBVIOUS
    <3>2. d \in Nat /\ e \in Nat
      OBVIOUS
    <3>3. \A f \in S : f <= d => f <= e
      BY <3>1, <3>2, <1>1
    <3>4. ~(e <= d) /\ e <= e
      BY <3>2, <1>1
    <3> QED BY <3>3, <3>4
  <2> HIDE DEF A, B
  <2>3. Cardinality(A) = Cardinality(B) => A = B
    BY <2>1, <2>2, FS_Subset
  <2> QED BY <2>2, <2>3 DEF A, B
<1>2. \A d, e \in S : d # e => d < e \/ e < d
  <2>1. \A d \in S : d \in Nat
    OBVIOUS
  <2> QED BY <2>1
<1> QED BY <1>1, <1>2

LEMMA Issue ==
  ASSUME IInv, NEW done \in SUBSET Units, NEW k \in 0 .. Len(issuePort),
         LET units == [e \in 1 .. Width |-> IF EU[e] \in done THEN NoIns ELSE EU[e]]
             free == {e \in 1 .. Width : units[e] = NoIns}
             nth(e) == Cardinality({f \in free : f <= e})
         IN /\ k <= Cardinality(free)
            /\ EU' = [e \in 1 .. Width |-> IF e \in free /\ nth(e) <= k
                                           THEN issuePort[nth(e)] ELSE units[e]]
  PROVE  /\ EU' \in [1 .. Width -> Ids \cup {NoIns}]
         /\ Units' = (Units \ done) \cup Elements(Take(issuePort, k))
         /\ \A d, e \in 1 .. Width : EU'[d] = EU'[e] => d = e \/ EU'[d] = NoIns
<1> DEFINE units == [e \in 1 .. Width |-> IF EU[e] \in done THEN NoIns ELSE EU[e]]
           free == {e \in 1 .. Width : units[e] = NoIns}
           nth(e) == Cardinality({f \in free : f <= e})
<1>1. /\ Width \in Nat /\ EU \in [1 .. Width -> Ids \cup {NoIns}] /\ NoIns \notin Ids
      /\ issuePort \in Seq(Ids)
  BY Numbers, Sizes, QueueTypes DEF IInv, TypeOK
<1>2. /\ k <= Cardinality(free)
      /\ EU' = [e \in 1 .. Width |-> IF e \in free /\ nth(e) <= k
                                     THEN issuePort[nth(e)] ELSE units[e]]
  OBVIOUS
<1>3. /\ Cardinality(free) \in Nat
      /\ \A e \in free : nth(e) \in Nat \ {0}
      /\ \A n \in 1 .. Cardinality(free) : \E e \in free : nth(e) = n
  <2>1. free \in SUBSET (1 .. Width)
    OBVIOUS
  <2> HIDE DEF free
  <2> QED BY <2>1, <1>1, Ranks, ZenonT(60)
<1>3a. \A d, e \in free : d # e => nth(d) # nth(e)
  <2>1. free \in SUBSET (1 .. Width)
    OBVIOUS
  <2> HIDE DEF free
  <2> QED BY <2>1, <1>1, RanksDiffer
<1>4. \A e \in 1 .. Width : units[e] \in Ids \cup {NoIns}
  BY <1>1
<1>5. free \subseteq 1 .. Width /\ \A e \in 1 .. Width : e \notin free <=> units[e] # NoIns
  OBVIOUS
<1>6. \A e \in 1 .. Width : units[e] = IF EU[e] \in done THEN NoIns ELSE EU[e]
  OBVIOUS
<1> HIDE DEF units, free, nth
<1>7. Elements(Take(issuePort, k)) = {issuePort[n] : n \in 1 .. k}
  BY <1>1, TakeDropElements
<1>8. \A n \in 1 .. k : issuePort[n] \in Ids
  BY <1>1
<1>9. \A e \in 1 .. Width :
        /\ e \in free /\ nth(e) <= k => nth(e) \in 1 .. k /\ EU'[e] = issuePort[nth(e)]
        /\ ~(e \in free /\ nth(e) <= k) => EU'[e] = units[e]
  <2> TAKE e \in 1 .. Width
  <2>1. EU'[e] = IF e \in free /\ nth(e) <= k THEN issuePort[nth(e)] ELSE units[e]
    BY <1>2
  <2>2. e \in free /\ nth(e) <= k => nth(e) \in 1 .. k
    <3>1. k \in Nat
      BY <1>1
    <3> QED BY <3>1, <1>3
  <2> QED BY <2>1, <2>2
<1>10. EU' \in [1 .. Width -> Ids \cup {NoIns}]
  <2>1. \A e \in 1 .. Width : EU'[e] \in Ids \cup {NoIns}
    BY <1>4, <1>8, <1>9
  <2>2. EU' = [e \in 1 .. Width |-> EU'[e]]
    BY <1>2
  <2> QED BY <2>1, <2>2
<1>11. Units = {EU[e] : e \in 1 .. Width} \ {NoIns}
  <2>1. Len(EU) = Width
    BY <1>1
  <2> QED BY <2>1 DEF Units, Elements
<1>12. Units' = {EU'[e] : e \in 1 .. Width} \ {NoIns}
  <2>1. Len(EU') = Width
    BY <1>1, <1>10
  <2> QED BY <2>1 DEF Units, Elements
<1>13. ASSUME NEW i \in Units' PROVE i \in (Units \ done) \cup Elements(Take(issuePort, k))
  <2>1. PICK e \in 1 .. Width : i = EU'[e] /\ i # NoIns
    BY <1>12
  <2>2. CASE e \in free /\ nth(e) <= k
    BY <2>1, <2>2, <1>7, <1>9
  <2>3. CASE ~(e \in free /\ nth(e) <= k)
    BY <2>1, <2>3, <1>6, <1>9, <1>11
  <2> QED BY <2>2, <2>3
<1>14. ASSUME NEW i \in Units \ done PROVE i \in Units'
  <2>1. PICK e \in 1 .. Width : i = EU[e] /\ i # NoIns
    BY <1>11
  <2>2. units[e] = i /\ e \notin free
    BY <2>1, <1>5, <1>6
  <2> QED BY <2>1, <2>2, <1>9, <1>12
<1>15. ASSUME NEW i \in Elements(Take(issuePort, k)) PROVE i \in Units'
  <2>1. PICK n \in 1 .. k : i = issuePort[n]
    BY <1>7
  <2>2. n \in 1 .. Cardinality(free)
    BY <1>1, <1>2, <1>3
  <2>3. PICK e \in free : nth(e) = n
    BY <2>2, <1>3
  <2>4. EU'[e] = i /\ i # NoIns /\ e \in 1 .. Width
    <3>1. e \in 1 .. Width /\ nth(e) <= k /\ n \in Nat
      BY <2>3, <1>1, <1>5
    <3>2. EU'[e] = issuePort[n]
      BY <3>1, <2>3, <1>9
    <3>3. i \in Ids
      BY <2>1, <1>8
    <3> QED BY <3>1, <3>2, <3>3, <2>1, <1>1
  <2> QED BY <2>4, <1>12
<1>16. ASSUME NEW d \in 1 .. Width, NEW e \in 1 .. Width, EU'[d] = EU'[e], EU'[d] # NoIns
      PROVE  d = e
  <2> DEFINE New(f) == f \in free /\ nth(f) <= k
  <2>1. ASSUME NEW f \in 1 .. Width, New(f)
        PROVE  EU'[f] = issuePort[nth(f)] /\ nth(f) \in 1 .. k /\ nth(f) \in 1 .. Len(issuePort)
               /\ EU'[f] \in Elements(issuePort)
    <3>1. EU'[f] = issuePort[nth(f)] /\ nth(f) \in 1 .. k
      BY <1>9, <2>1
    <3>2. nth(f) \in 1 .. Len(issuePort)
      BY <3>1, <1>1
    <3> QED BY <3>1, <3>2, <1>1, ElementsIn
  <2>2. ASSUME NEW f \in 1 .. Width, ~New(f), EU'[f] # NoIns
        PROVE  EU'[f] = EU[f] /\ EU'[f] \in Units
    <3>1. EU'[f] = units[f]
      BY <1>9, <2>2
    <3>2. EU'[f] = EU[f]
      BY <3>1, <2>2, <1>6
    <3> QED BY <3>2, <2>2, <1>11
  <2>3. Units \cap Elements(issuePort) = {}
    BY DEF IInv, StagesTrue
  <2> HIDE DEF New
  <2>4. CASE New(d) /\ New(e)
    <3>1. Distinct(issuePort)
      BY <1>1, Numbers, IncreasingDistinct DEF IInv, InOrder
    <3>2. /\ nth(d) \in 1 .. Len(issuePort) /\ nth(e) \in 1 .. Len(issuePort)
          /\ issuePort[nth(d)] = issuePort[nth(e)]
      BY <1>16, <2>1, <2>4
    <3>4. nth(d) = nth(e)
      BY <3>1, <3>2 DEF Distinct
    <3>3. d \in free /\ e \in free
      BY <2>4 DEF New
    <3> QED BY <3>3, <3>4, <1>3a
  <2>5. CASE ~New(d) /\ ~New(e)
    BY <1>16, <2>2, <2>5 DEF IInv, InOrder
  <2>6. CASE New(d) /\ ~New(e)
    BY <1>16, <2>1, <2>2, <2>3, <2>6
  <2>7. CASE ~New(d) /\ New(e)
    BY <1>16, <2>1, <2>2, <2>3, <2>7
  <2> QED BY <2>4, <2>5, <2>6, <2>7
<1> QED BY <1>10, <1>13, <1>14, <1>15, <1>16

-----------------------------------------------------------------------------
(* Execution. *)

(* The moves of the squash state machine, after write-back c has left the  *)
(* registers regs busy.                                                    *)
Moves(c, regs) ==
  /\ pipe = "SQUASH_ROB" \/ busy' = regs
  /\ memPort' = IF pipe' = "FLUSH" THEN FlushBack(c.port, squashSN) ELSE c.port
  /\ \/ pipe = "NORMAL" /\ pipe' = "NORMAL" /\ squashSN' = 0 /\ c.bad = NoIns
     \/ /\ pipe = "NORMAL" /\ pipe' = "WAIT_FLUSH"
        /\ squashSN' = c.bad /\ c.bad # NoIns
     \/ /\ pipe = "WAIT_FLUSH" /\ squashSN' = squashSN
        /\ \/ pipe' = "WAIT_FLUSH"
           \/ pipe' = "FLUSH" /\ \A e \in 1 .. Width : EU'[e] = NoIns
     \/ pipe = "FLUSH" /\ pipe' = "DRAIN" /\ squashSN' = squashSN
     \/ pipe = "DRAIN" /\ pipe' = "DRAIN" /\ squashSN' = squashSN
     \/ /\ pipe = "DRAIN" /\ pipe' = "SQUASH_ROB" /\ squashSN' = squashSN
        /\ iROB # << >> /\ iROB[1] >= squashSN
     \/ /\ pipe = "SQUASH_ROB" /\ pipe' = "NORMAL" /\ squashSN' = 0
        /\ busy' = {}

LEMMA SquashCtrl ==
  ASSUME IInv, turn = "EXECUTE", NEW c \in AccState, WrittenBack(c, Units), NEW regs,
         squashCtrl(setSquashSN(c.bad), EU', c.port, regs)
  PROVE  Moves(c, regs)
<1> DEFINE sn == setSquashSN(c.bad)
<1>1. TypeOK /\ NoIns = 0 /\ pipe \in {"NORMAL", "WAIT_FLUSH", "FLUSH", "DRAIN", "SQUASH_ROB"}
  BY DEF IInv, TypeOK, NoIns
<1>2. pipe # "NORMAL" => sn = squashSN
  BY DEF WrittenBack, setSquashSN
<1>3. pipe = "NORMAL" => squashSN = 0 /\ sn = c.bad
  BY <1>1 DEF IInv, Squashing, setSquashSN
<1>4. pipe = "SQUASH_ROB" => iROB = << >>
  BY DEF IInv, Squashing
<1> HIDE DEF sn
<1>5. squashCtrl(sn, EU', c.port, regs)
  BY DEF sn
<1>6. CASE pipe = "NORMAL" /\ sn # squashSN
  BY <1>1, <1>3, <1>5, <1>6 DEF squashCtrl, Moves
<1>7. CASE pipe = "NORMAL" /\ sn = squashSN
  BY <1>1, <1>3, <1>5, <1>7 DEF squashCtrl, Moves
<1>8. CASE pipe = "WAIT_FLUSH"
  BY <1>2, <1>5, <1>8 DEF squashCtrl, Moves
<1>9. CASE pipe \in {"FLUSH", "DRAIN"}
  BY <1>2, <1>5, <1>9 DEF squashCtrl, Moves
<1>10. CASE pipe = "SQUASH_ROB"
  BY <1>2, <1>4, <1>5, <1>10 DEF squashCtrl, Moves
<1> QED BY <1>1, <1>6, <1>7, <1>8, <1>9, <1>10

(* The oldest instruction in flight is at the head of iROB.                *)
LEMMA HeadIsOldest ==
  ASSUME IInv, iROB # << >>
  PROVE  iROB[1] \in InROB /\ \A i \in Fetched : iROB[1] <= i
<1>1. TypeOK /\ Ids \in SUBSET Nat
  BY Numbers DEF IInv
<1>2. iROB \in Seq(Ids) /\ Increasing(iROB) /\ Len(iROB) \in Nat /\ Len(iROB) # 0
  BY <1>1, QueueTypes, ElementsIn DEF IInv, InOrder
<1>3. iROB[1] \in InROB
  BY <1>2, ElementsIn DEF InROB
<1>4. InROB \subseteq Ids /\ Fetched \subseteq Ids
  BY <1>1, ElementTypes
<1>5. ASSUME NEW i \in InROB PROVE iROB[1] <= i
  <2>1. PICK n \in 1 .. Len(iROB) : i = iROB[n]
    BY DEF InROB, Elements
  <2>2. i \in Nat /\ iROB[1] \in Nat
    BY <1>1, <1>3, <1>4
  <2>3. n = 1 \/ iROB[1] < iROB[n]
    BY <1>2 DEF Increasing
  <2> QED BY <2>1, <2>2, <2>3
<1>6. ASSUME NEW i \in Fetched PROVE iROB[1] <= i
  <2>1. i \in Nat /\ iROB[1] \in Nat
    BY <1>1, <1>3, <1>4
  <2>2. i < iROB[1] => i \in InROB
    BY <1>3 DEF IInv, WindowOrder, DownClosed
  <2> QED BY <2>1, <2>2, <1>5
<1> QED BY <1>3, <1>6

(* Once nothing older than the squash number is in flight, the memory      *)
(* stage is empty.                                                         *)
LEMMA MemoryDrained ==
  ASSUME IInv, turn = "EXECUTE", pipe = "DRAIN", iROB # << >>, iROB[1] >= squashSN
  PROVE  memPort = << >> /\ memBuff = << >> /\ \A i \in Fetched : squashSN <= i
<1>1. TypeOK /\ Ids \in SUBSET Nat
  BY Numbers DEF IInv
<1>2. \A i \in Fetched : i \in Nat /\ squashSN <= i
  <2>1. InROB \subseteq Ids /\ Fetched \subseteq Ids
    BY <1>1, ElementTypes
  <2>2. iROB[1] \in Nat /\ squashSN \in Nat
    <3>1. iROB[1] \in Nat
      BY <1>1, <2>1, HeadIsOldest
    <3>2. squashSN \in Nat
      BY <1>1 DEF TypeOK
    <3> QED BY <3>1, <3>2
  <2>3. \A i \in Fetched : i \in Nat /\ iROB[1] <= i
    BY <1>1, <2>1, HeadIsOldest
  <2> QED BY <2>2, <2>3
<1>3. squashSN \in Nat
  BY <1>1 DEF TypeOK
<1>4. ASSUME NEW q \in Seq(Ids), Elements(q) \subseteq Fetched, EndsBefore(q, squashSN)
      PROVE  q = << >>
  <2> SUFFICES ASSUME q # << >> PROVE FALSE
    OBVIOUS
  <2>1. Len(q) \in 1 .. Len(q)
    BY ElementsIn
  <2>2. q[Len(q)] \in Fetched
    BY <2>1, <1>4, ElementsIn
  <2>3. q[Len(q)] < squashSN
    BY <1>4 DEF EndsBefore
  <2> QED BY <2>2, <2>3, <1>2, <1>3
<1>5. Accesses \subseteq Fetched
  BY DEF IInv, StagesTrue, WindowOrder, Window
<1>6. memPort \in Seq(Ids) /\ memBuff \in Seq(Ids)
  BY <1>1, QueueTypes
<1>7. memPort = << >>
  <2>1. EndsBefore(memPort, squashSN)
    BY DEF IInv, Flushing
  <2> QED BY <2>1, <1>4, <1>5, <1>6 DEF Accesses
<1>8. memBuff = << >>
  <2>1. EndsBefore(memBuff, squashSN)
    BY <1>7 DEF IInv, Flushing, FlushedIn
  <2> QED BY <2>1, <1>4, <1>5, <1>6 DEF Accesses
<1> QED BY <1>2, <1>7, <1>8

LEMMA ExecuteStep ==
  ASSUME IInv, doEXECUTION
  PROVE  IInv'
<1> USE DEF frontVars, history
<1>u. UNCHANGED <<program, supplied, codeCache, retired, deleted, iQUE, fetchPort, decodePort,
                  iWindow, iROB, memBuff>>
  BY DEF doEXECUTION
<1>t. Ids' = Ids /\ RightPathIds' = RightPathIds /\ Regs' = Regs
  BY <1>u, ProgramStays
<1>3. TypeOK /\ Ids \in SUBSET Nat /\ WrWires \in Nat /\ MemPortLen \in Nat
  BY Numbers, Sizes DEF IInv
<1>e. /\ Fetched' = Fetched /\ Traced' = Traced /\ InROB' = InROB /\ Window' = Window
  BY <1>u DEF Fetched, Traced, InROB, Window
<1> DEFINE c == completeIns
           D == c.done
           alu == {i \in D : Op(i) = "ALU"}
           units == [e \in 1 .. Width |-> IF EU[e] \in D THEN NoIns ELSE EU[e]]
           free == {e \in 1 .. Width : units[e] = NoIns}
           nth(e) == Cardinality({f \in free : f <= e})
           regs == busy \ writtenBy(alu)
<1>1. /\ turn = "EXECUTE" /\ wires' = WrWires
      /\ turn' = IF pipe' = "SQUASH_ROB" THEN "SQUASH" ELSE "SCHEDULE"
  BY DEF doEXECUTION
<1>2. PICK k \in 0 .. Width :
         LET sn == setSquashSN(c.bad)
             started == Take(issuePort, k)
         IN
         /\ sn # squashSN \/ pipe \in {"WAIT_FLUSH", "FLUSH"} => k = 0
         /\ k <= Len(issuePort) /\ k <= Cardinality(free)
         /\ EU' = [e \in 1 .. Width |-> IF e \in free /\ nth(e) <= k
                                        THEN issuePort[nth(e)] ELSE units[e]]
         /\ issuePort' = Drop(issuePort, k)
         /\ stage' = AtStage(Elements(started), "EXECUTE",
                       AtStage(alu, "COMPLETE", AtStage(D, "MEM_ACCESS", stage)))
         /\ squashCtrl(sn, EU', c.port, regs)
  BY DEF doEXECUTION
<1> DEFINE I == Elements(Take(issuePort, k))
<1>4. c \in AccState /\ WrittenBack(c, Units)
  BY WriteBack
<1>5. /\ issuePort \in Seq(Ids) /\ Increasing(issuePort) /\ Len(issuePort) \in Nat
      /\ k \in 0 .. Len(issuePort) /\ k \in Nat
  <2>1. Width \in Nat
    BY <1>3, Sizes
  <2>2. issuePort \in Seq(Ids) /\ Increasing(issuePort) /\ Len(issuePort) \in Nat
    BY <1>3, QueueTypes, ElementsIn DEF IInv, InOrder
  <2>3. k <= Len(issuePort)
    BY <1>2
  <2> QED BY <2>1, <2>2, <2>3
<1>6. /\ EU' \in [1 .. Width -> Ids \cup {NoIns}]
      /\ Units' = (Units \ D) \cup I
      /\ \A d, e \in 1 .. Width : EU'[d] = EU'[e] => d = e \/ EU'[d] = NoIns
  <2>1. D \in SUBSET Units
    BY <1>4 DEF WrittenBack
  <2>2. /\ k <= Cardinality(free)
        /\ EU' = [e \in 1 .. Width |-> IF e \in free /\ nth(e) <= k
                                       THEN issuePort[nth(e)] ELSE units[e]]
    BY <1>2
  <2> HIDE DEF D
  <2> QED BY <2>1, <2>2, <1>5, Issue
<1>7. Moves(c, regs)
  <2>1. squashCtrl(setSquashSN(c.bad), EU', c.port, regs)
    BY <1>2
  <2> HIDE DEF regs, c
  <2> QED BY <2>1, <1>1, <1>4, SquashCtrl
<1>8. /\ stage' = AtStage(I, "EXECUTE", AtStage(alu, "COMPLETE", AtStage(D, "MEM_ACCESS", stage)))
      /\ issuePort' = Drop(issuePort, k)
  BY <1>2
<1>9. /\ D \subseteq Units /\ alu \subseteq D /\ c.port \in Seq(Ids)
      /\ Elements(c.port) = Elements(memPort) \cup (D \ alu)
      /\ Distinct(c.port) /\ Len(c.port) <= MemPortLen
      /\ D = {} => c.port = memPort
      /\ c.bad = NoIns /\ pipe = "NORMAL" => \A i \in D : ~WrongPath(i)
      /\ c.bad # NoIns => c.bad \in D /\ WrongPath(c.bad)
      /\ pipe = "FLUSH" => D = {}
  BY <1>4 DEF WrittenBack, AccState
<1>10. /\ I \subseteq Elements(issuePort)
       /\ issuePort' \in Seq(Ids) /\ Increasing(issuePort') /\ Len(issuePort') <= PortLen
       /\ Elements(issuePort') = Elements(issuePort) \ I
       /\ Before(I, Elements(issuePort'))
  <2>1. Drop(issuePort, k) \in Seq(Ids) /\ Len(Drop(issuePort, k)) = Len(issuePort) - k
    BY <1>5, TakeDrop
  <2>2. /\ Increasing(Drop(issuePort, k))
        /\ Elements(Drop(issuePort, k)) = Elements(issuePort) \ I
        /\ Before(I, Elements(Drop(issuePort, k)))
    BY <1>3, <1>5, IncreasingTakeDrop
  <2>3. I \subseteq Elements(issuePort)
    BY <1>5, TakeDropElements
  <2>4. Len(issuePort) <= PortLen /\ PortLen \in Nat
    BY <1>3, Sizes
  <2>5. Len(issuePort) - k <= PortLen
    BY <2>4, <1>5
  <2> HIDE DEF I
  <2> QED BY <2>1, <2>2, <2>3, <2>5, <1>8
<1> HIDE DEF I, D, alu, c, regs
<1>11. /\ I \subseteq Waiting /\ Waiting \subseteq InROB /\ InROB \subseteq Fetched
       /\ Fetched \subseteq Ids /\ Units \subseteq InROB /\ I \cap D = {}
       /\ \A i \in I : stage[i] = "ISSUE"
       /\ \A i \in Units : stage[i] = "EXECUTE"
       /\ D \subseteq InROB
  <2>1. /\ Waiting \subseteq InROB /\ InROB \subseteq Fetched /\ Units \subseteq InROB
        /\ \A i \in I : stage[i] = "ISSUE"
        /\ \A i \in Units : stage[i] = "EXECUTE"
    BY <1>10 DEF IInv, IssueOrder, WindowOrder, Window, StagesTrue
  <2>2. I \subseteq Waiting
    BY <1>10 DEF Waiting
  <2> QED BY <2>1, <2>2, <1>3, <1>9, ElementTypes
<1>12. /\ stage' \in [Ids -> Stages]
       /\ \A i \in I : stage'[i] = "EXECUTE"
       /\ \A i \in alu : stage'[i] = "COMPLETE"
       /\ \A i \in D \ alu : stage'[i] = "MEM_ACCESS"
       /\ \A i \in Ids \ (I \cup D) : stage'[i] = stage[i]
  <2> DEFINE r == AtStage(D, "MEM_ACCESS", stage)
             s == AtStage(alu, "COMPLETE", r)
             t == AtStage(I, "EXECUTE", s)
  <2>1. /\ stage \in [Ids -> Stages] /\ {"EXECUTE", "COMPLETE", "MEM_ACCESS"} \subseteq Stages
        /\ I \in SUBSET Ids /\ D \in SUBSET Ids /\ alu \in SUBSET Ids
    BY <1>3, <1>9, <1>11 DEF TypeOK, Stages
  <2>2. /\ r \in [Ids -> Stages]
        /\ \A i \in D : r[i] = "MEM_ACCESS"
        /\ \A i \in Ids \ D : r[i] = stage[i]
    BY <2>1, AtStageTable
  <2> HIDE DEF r
  <2>3. /\ s \in [Ids -> Stages]
        /\ \A i \in alu : s[i] = "COMPLETE"
        /\ \A i \in Ids \ alu : s[i] = r[i]
    BY <2>1, <2>2, AtStageTable, SMTT(30)
  <2> HIDE DEF s
  <2>4. /\ t \in [Ids -> Stages]
        /\ \A i \in I : t[i] = "EXECUTE"
        /\ \A i \in Ids \ I : t[i] = s[i]
    BY <2>1, <2>3, AtStageTable, SMTT(30)
  <2>5. stage' = t
    BY <1>8 DEF r, s
  <2> HIDE DEF t
  <2> QED BY <1>9, <1>11, <2>1, <2>2, <2>3, <2>4, <2>5
<1>13. \A i \in Fetched : i \in I \/ i \in D \/ stage'[i] = stage[i]
  BY <1>11, <1>12
<1>14. /\ Begun' = Begun \cup I
       /\ Outstanding' = Outstanding \ alu /\ alu \subseteq Outstanding
  <2>1. /\ \A i \in D : /\ i \in Fetched /\ stage[i] = "EXECUTE"
                        /\ stage'[i] \in {"COMPLETE", "MEM_ACCESS"}
                        /\ (stage'[i] = "COMPLETE" <=> i \in alu)
        /\ \A i \in I : i \in Fetched /\ stage[i] = "ISSUE" /\ stage'[i] = "EXECUTE" /\ i \notin D
    BY <1>9, <1>11, <1>12
  <2>2. Begun' = Begun \cup I
    BY <2>1, <1>13, <1>e DEF Begun
  <2>3. Outstanding' = Outstanding \ alu /\ alu \subseteq Outstanding
    BY <2>1, <1>9, <1>13, <1>u DEF Outstanding, Fetched
  <2> QED BY <2>2, <2>3
<1>15. /\ memPort' \in Seq(Ids) /\ Distinct(memPort') /\ Len(memPort') <= MemPortLen
       /\ Elements(memPort') \subseteq Elements(memPort) \cup (D \ alu)
       /\ pipe' = "FLUSH" => EndsBefore(memPort', squashSN)
       /\ pipe # "WAIT_FLUSH" => memPort' = c.port
  <2> DEFINE f == FlushBack(c.port, squashSN)
  <2>1. /\ f \in Seq(Ids) /\ Distinct(f) /\ Len(f) <= Len(c.port)
        /\ Elements(f) \subseteq Elements(c.port) /\ EndsBefore(f, squashSN)
    <3>1. squashSN \in Nat
      BY <1>3 DEF TypeOK
    <3> QED BY <3>1, <1>3, <1>9, FlushBackElements
  <2>2. Len(f) \in Nat /\ Len(c.port) \in Nat
    BY <2>1, <1>9, ElementsIn
  <2>3. memPort' = IF pipe' = "FLUSH" THEN f ELSE c.port
    BY <1>7 DEF Moves
  <2>4. pipe' = "FLUSH" => pipe = "WAIT_FLUSH"
    BY <1>7 DEF Moves
  <2> HIDE DEF f
  <2>5. CASE pipe' = "FLUSH"
    <3>1. Len(f) <= MemPortLen
      BY <2>1, <2>2, <1>3, <1>9
    <3> QED BY <3>1, <2>1, <2>3, <2>4, <2>5, <1>9
  <2>6. CASE pipe' # "FLUSH"
    BY <2>3, <2>6, <1>9
  <2> QED BY <2>5, <2>6
<1>16. Waiting' = Waiting \ I
  <2>1. I \cap Elements(iWindow) = {}
    <3>1. Before(I, Elements(iWindow))
      BY <1>10 DEF IInv, IssueOrder, Before
    <3>2. I \in SUBSET Nat /\ Elements(iWindow) \in SUBSET Nat
      BY <1>3, <1>11 DEF Waiting
    <3> QED BY <3>1, <3>2, BeforeDisjoint
  <2> QED BY <2>1, <1>10, <1>u DEF Waiting
<1>17. /\ pipe' \in {"NORMAL", "WAIT_FLUSH", "FLUSH", "DRAIN", "SQUASH_ROB"}
       /\ turn' \in {"SQUASH", "SCHEDULE"} /\ (turn' = "SQUASH" <=> pipe' = "SQUASH_ROB")
       /\ pipe' \in {"DRAIN", "SQUASH_ROB"} => pipe \in {"FLUSH", "DRAIN"}
       /\ pipe' = "NORMAL" => pipe \in {"NORMAL", "SQUASH_ROB"}
       /\ pipe \in {"WAIT_FLUSH", "FLUSH", "DRAIN"} => squashSN' = squashSN
       /\ pipe # "SQUASH_ROB" => busy' = regs
  BY <1>1, <1>7 DEF Moves
<1>18. pipe = "SQUASH_ROB" => iQUE = << >> /\ Fetched = {} /\ pipe' = "NORMAL" /\ busy' = {}
  <2> SUFFICES ASSUME pipe = "SQUASH_ROB"
               PROVE  iQUE = << >> /\ Fetched = {} /\ pipe' = "NORMAL" /\ busy' = {}
    OBVIOUS
  <2>1. iQUE = << >>
    BY <1>1 DEF IInv, Squashing
  <2> QED BY <2>1, <1>7, EmptyQueue DEF Moves, Fetched
<1>19. pipe \in {"FLUSH", "DRAIN"} =>
         /\ Units = {} /\ Waiting = {} /\ D = {} /\ I = {} /\ memPort' = memPort
         /\ EndsBefore(memPort, squashSN)
         /\ memPort # << >> \/ EndsBefore(memBuff, squashSN)
         /\ decodePort = << >> /\ fetchPort = << >>
  BY <1>1, <1>9, <1>11, <1>15 DEF IInv, Flushing, WindowOrder, FlushedIn
<1> USE <1>u, <1>t, <1>e
<1>20. TypeOK'
  <2>1. \A q \in {codeCache', iQUE', fetchPort', decodePort', iWindow', issuePort',
                  memPort', memBuff', iROB', retired'} : q \in Seq(Ids')
    BY <1>3, <1>10, <1>15, QueueTypes
  <2>2. squashSN' \in Ids' \cup {0}
    <3>1. squashSN' \in {squashSN, 0} \cup D
      BY <1>7, <1>9 DEF Moves
    <3> QED BY <3>1, <1>3, <1>11 DEF TypeOK
  <2>3. busy' \subseteq Regs'
    <3>1. busy' \subseteq busy
      BY <1>17, <1>18 DEF regs
    <3> QED BY <3>1, <1>3 DEF TypeOK
  <2>4. wires' \in 0 .. WrWires
    BY <1>1, <1>3
  <2> QED BY <1>3, <1>6, <1>10, <1>12, <1>15, <1>17, <2>1, <2>2, <2>3, <2>4 DEF TypeOK
<1>21. InOrder'
  <2>1. Elements(memPort') \cap Elements(memBuff') = {}
    <3>1. D \cap Elements(memBuff) = {}
      BY <1>9 DEF IInv, StagesTrue, Accesses
    <3> QED BY <3>1, <1>15 DEF IInv, InOrder
  <2> QED BY <2>1, <1>6, <1>10, <1>15 DEF IInv, InOrder
<1>22. TraceOrder'
  BY DEF IInv, TraceOrder
<1>23. WindowOrder'
  <2>1. pipe' = "NORMAL" => Fetched \subseteq Window
    BY <1>17, <1>18 DEF IInv, WindowOrder
  <2>2. FlushedIn({"FETCH", "COMMIT", "MEMORY", "EXECUTE"})' => decodePort = << >>
    BY <1>17, <1>19 DEF FlushedIn
  <2>3. FlushedIn({"COMMIT", "MEMORY", "EXECUTE"})' => fetchPort = << >>
    BY <1>17, <1>19 DEF FlushedIn
  <2> QED BY <2>1, <2>2, <2>3 DEF IInv, WindowOrder
<1>24. IssueOrder'
  <2>1. Before(Elements(issuePort'), Elements(iWindow'))
    BY <1>10 DEF IInv, IssueOrder, Before
  <2>2. Before(I, Waiting')
    <3>1. Before(I, Elements(iWindow))
      BY <1>10 DEF IInv, IssueOrder, Before
    <3> QED BY <3>1, <1>10 DEF Before, Waiting, I
  <2>3. Before(Begun, Waiting')
    BY <1>16 DEF IInv, IssueOrder, Before
  <2> QED BY <2>1, <2>2, <2>3, <1>11, <1>14, <1>16 DEF IssueOrder, Before
<1>25. StagesTrue'
  <2>1. \A i \in Fetched : stage[i] \notin {"ISSUE", "EXECUTE"} => stage'[i] = stage[i]
    BY <1>9, <1>11, <1>13
  <2>2. /\ Elements(fetchPort) \subseteq Fetched /\ Elements(decodePort) \subseteq Fetched
        /\ Elements(iWindow) \subseteq Fetched /\ Elements(issuePort) \subseteq Fetched
    BY <1>11 DEF IInv, WindowOrder, Window, Waiting
  <2>3. /\ \A i \in Elements(fetchPort) : stage'[i] = "FETCH"
        /\ \A i \in Elements(decodePort) : stage'[i] = "DECODE"
        /\ \A i \in Fetched \ InROB : stage'[i] \in {"FETCH", "DECODE"}
        /\ \A i \in Elements(iWindow) : stage'[i] = "DISPATCH"
    BY <2>1, <2>2 DEF IInv, StagesTrue
  <2>4. \A i \in Elements(issuePort') : stage'[i] = "ISSUE"
    <3>1. \A i \in Elements(issuePort') : i \notin I /\ i \notin D /\ stage[i] = "ISSUE" /\ i \in Fetched
      BY <2>2, <1>9, <1>10, <1>11 DEF IInv, StagesTrue
    <3> QED BY <3>1, <1>13
  <2>5. \A i \in Units' : i \in InROB /\ stage'[i] = "EXECUTE"
    BY <1>6, <1>11, <1>12, <1>13
  <2>6. \A i \in Accesses' : i \in InROB /\ stage'[i] = "MEM_ACCESS"
    <3>1. Accesses' \subseteq Accesses \cup (D \ alu)
      BY <1>15 DEF Accesses
    <3>2. \A i \in Accesses : i \in InROB /\ i \in Fetched /\ stage[i] = "MEM_ACCESS"
      BY <1>11 DEF IInv, StagesTrue
    <3> QED BY <3>1, <3>2, <2>1, <1>11, <1>12
  <2> QED BY <2>3, <2>4, <2>5, <2>6 DEF StagesTrue
<1>26. ScoreboardExact'
  <2>1. ScoreboardExact
    BY DEF IInv
  <2>2. CASE pipe = "SQUASH_ROB"
    <3>1. Outstanding' = {} /\ writtenBy(Outstanding)' = {} /\ busy' = {}
      BY <2>2, <1>18 DEF Outstanding, writtenBy, Fetched
    <3> QED BY <3>1 DEF ScoreboardExact
  <2>3. CASE pipe # "SQUASH_ROB"
    <3>1. /\ Outstanding' = (Outstanding \ alu) \cup {} /\ alu \in SUBSET Outstanding
          /\ program' = program
      BY <1>14
    <3>2. busy' = (busy \ writtenBy(alu)) \cup writtenBy({})
      <4>1. writtenBy({}) = {}
        BY DEF writtenBy
      <4> QED BY <2>3, <4>1, <1>17 DEF regs
    <3> QED BY <2>1, <2>3, <3>1, <3>2, ScoreboardStep
  <2> QED BY <2>2, <2>3
<1>27. Squashing'
  <2>1. Culprit /\ squashSN' = squashSN => Culprit'
    BY <1>9, <1>11, <1>13 DEF Culprit, WrongPath
  <2>2. ASSUME pipe = "NORMAL", pipe' = "WAIT_FLUSH" PROVE Culprit'
    <3>1. squashSN' = c.bad /\ c.bad # NoIns
      BY <2>2, <1>7 DEF Moves
    <3>2. squashSN' \in D /\ WrongPath(squashSN')
      BY <3>1, <1>9
    <3>3. squashSN' \in InROB /\ stage'[squashSN'] \in {"MEM_ACCESS", "COMPLETE"}
      BY <3>2, <1>9, <1>11, <1>12
    <3> QED BY <3>2, <3>3 DEF Culprit, WrongPath
  <2>3. ASSUME pipe' = "NORMAL"
        PROVE  /\ squashSN' = 0
               /\ \A i \in Fetched : stage'[i] \in {"MEM_ACCESS", "COMPLETE"} => ~WrongPath(i)
    <3>1. squashSN' = 0
      BY <2>3, <1>7 DEF Moves
    <3>2. CASE pipe = "NORMAL"
      <4>1. c.bad = NoIns
        BY <2>3, <3>2, <1>7 DEF Moves
      <4> QED BY <4>1, <3>1, <3>2, <1>9, <1>12, <1>13 DEF IInv, Squashing
    <3>3. CASE pipe = "SQUASH_ROB"
      BY <3>1, <3>3, <1>18
    <3> QED BY <2>3, <3>2, <3>3, <1>17
  <2>4. pipe' \in {"WAIT_FLUSH", "FLUSH", "DRAIN", "SQUASH_ROB"} => Culprit'
    BY <2>1, <2>2, <1>7, <1>17 DEF Moves, IInv, Squashing
  <2>5. pipe' = "SQUASH_ROB" => \A i \in Fetched : squashSN' <= i
    BY <1>1, <1>7, MemoryDrained DEF Moves
  <2> QED BY <2>3, <2>4, <2>5, <1>17 DEF Squashing, WrongPath
<1>28. Flushing'
  <2>1. FlushedIn({"DECODE", "FETCH", "COMMIT", "MEMORY", "EXECUTE"})' => Waiting' = {}
    BY <1>16, <1>17, <1>19 DEF FlushedIn
  <2>2. pipe' \in {"DRAIN", "SQUASH_ROB"} =>
          /\ Units' = {} /\ EndsBefore(memPort', squashSN')
          /\ memPort' # << >> \/ EndsBefore(memBuff', squashSN')
    BY <1>6, <1>17, <1>19
  <2>3. pipe' = "FLUSH" => Units' = {} /\ EndsBefore(memPort', squashSN')
    <3> SUFFICES ASSUME pipe' = "FLUSH" PROVE Units' = {} /\ EndsBefore(memPort', squashSN')
      OBVIOUS
    <3>1. squashSN' = squashSN /\ \A e \in 1 .. Width : EU'[e] = NoIns
      BY <1>7 DEF Moves
    <3>3. Units' = {EU'[e] : e \in 1 .. Width} \ {NoIns}
      <4>1. Len(EU') = Width
        BY <1>3, <1>6, Sizes
      <4> QED BY <4>1 DEF Units, Elements
    <3> QED BY <3>1, <3>3, <1>15
  <2>4. pipe' = "SQUASH_ROB" => memPort' = << >> /\ memBuff' = << >>
    <3> SUFFICES ASSUME pipe' = "SQUASH_ROB" PROVE memPort = << >> /\ memBuff = << >>
      BY <1>17, <1>19
    <3>1. pipe = "DRAIN" /\ iROB # << >> /\ iROB[1] >= squashSN
      BY <1>7 DEF Moves
    <3> QED BY <3>1, <1>1, MemoryDrained
  <2> QED BY <2>1, <2>2, <2>3, <2>4, <1>17 DEF Flushing, FlushedIn, EndsBefore
<1>29. Accounted'
  BY DEF IInv, Accounted, WrongPath
<1> QED BY <1>20, <1>21, <1>22, <1>23, <1>24, <1>25, <1>26, <1>27, <1>28, <1>29 DEF IInv

-----------------------------------------------------------------------------
(* The squash.  The squash number is the oldest in flight, so that iROB    *)
(* and iQUE are emptied; the run of wrong-path instructions it begins is   *)
(* deleted and the rest of iQUE goes back to the code cache.               *)

LEMMA SquashShape ==
  ASSUME IInv, squash
  PROVE  \E stop \in 0 .. Len(iQUE) :
           /\ \A i \in Elements(Take(iQUE, stop)) : WrongPath(i)
           /\ iROB' = << >> /\ iQUE' = << >>
           /\ codeCache' = Drop(iQUE, stop) \o codeCache
           /\ stage' = AtStage(Elements(Drop(iQUE, stop)), "NO_STAGE", stage)
           /\ deleted' = deleted \cup Elements(Take(iQUE, stop))
<1> DEFINE at == {n \in 1 .. Len(iQUE) : iQUE[n] = squashSN}
           start == IF at = {} THEN 1 ELSE Max(at)
           right == {n \in 1 .. Len(iQUE) : iQUE[n] > squashSN /\ ~WrongPath(iQUE[n])}
           stop == IF right = {} THEN Len(iQUE) ELSE Min(right) - 1
<1>1. TypeOK /\ Ids \in SUBSET Nat
  BY Numbers DEF IInv
<1>2. pipe = "SQUASH_ROB" /\ Culprit /\ \A i \in Fetched : squashSN <= i
  BY DEF squash, IInv, Squashing
<1>3. /\ iROB \in Seq(Ids) /\ iQUE \in Seq(Ids) /\ Increasing(iQUE) /\ Len(iQUE) \in Nat
      /\ InROB \subseteq Fetched /\ Fetched \subseteq Ids /\ squashSN \in Nat
      /\ squashSN \in Fetched /\ WrongPath(squashSN)
  <2>1. InROB \subseteq Fetched /\ squashSN \in InROB /\ WrongPath(squashSN)
    BY <1>2 DEF Culprit, IInv, WindowOrder, Window
  <2>2. Fetched \subseteq Ids
    BY <1>1, ElementTypes
  <2> QED BY <1>1, <2>1, <2>2, QueueTypes, ElementsIn DEF IInv, InOrder
<1>4. iROB # << >>
  <2>1. squashSN \in Elements(iROB)
    BY <1>2 DEF Culprit, InROB
  <2> QED BY <2>1, <1>3, ElementsIn
<1>5. FlushBack(iROB, squashSN) = << >>
  BY <1>1, <1>2, <1>3, FlushBackAll DEF InROB
<1>6. \A n \in 1 .. Len(iQUE) : iQUE[n] \in Nat /\ iQUE[n] \in Fetched /\ squashSN <= iQUE[n]
  BY <1>1, <1>2, <1>3, ElementsIn DEF Fetched
<1>7. Len(iQUE) >= 1 /\ iQUE[1] = squashSN /\ \A n \in 1 .. Len(iQUE) : n # 1 => iQUE[n] > squashSN
  <2>1. PICK n \in 1 .. Len(iQUE) : squashSN = iQUE[n]
    BY <1>3 DEF Fetched, Elements
  <2>2. Len(iQUE) >= 1 /\ 1 \in 1 .. Len(iQUE) /\ n \in Nat
    BY <1>3
  <2>3. n # 1 => iQUE[1] < iQUE[n]
    BY <1>3, <2>2 DEF Increasing
  <2>4. n = 1
    BY <1>3, <1>6, <2>1, <2>2, <2>3
  <2>5. \A m \in 1 .. Len(iQUE) : m # 1 => iQUE[1] < iQUE[m]
    BY <1>3, <2>2 DEF Increasing
  <2> QED BY <1>3, <1>6, <2>1, <2>2, <2>4, <2>5
<1>8. start = 1
  <2>1. at = {1}
    BY <1>3, <1>6, <1>7
  <2>2. Max({1}) = 1
    BY DEF Max
  <2> HIDE DEF at
  <2> QED BY <2>1, <2>2
<1>9. /\ stop \in 0 .. Len(iQUE)
      /\ \A n \in 1 .. stop : WrongPath(iQUE[n])
  <2>1. right \in SUBSET Nat /\ \A n \in right : n >= 2 /\ n <= Len(iQUE)
    <3>1. \A n \in right : n \in 1 .. Len(iQUE) /\ n # 1
      BY <1>3, <1>7
    <3> HIDE DEF right
    <3> QED BY <3>1, <1>3
  <2>2. \A n \in 1 .. Len(iQUE) : n \notin right => WrongPath(iQUE[n])
    <3> TAKE n \in 1 .. Len(iQUE)
    <3>1. CASE n = 1
      BY <3>1, <1>3, <1>7
    <3>2. CASE n # 1
      BY <3>2, <1>7
    <3> QED BY <3>1, <3>2
  <2> HIDE DEF right
  <2>3. CASE right = {}
    BY <2>2, <2>3, <1>3
  <2>4. CASE right # {}
    <3>1. \E n \in right : \A m \in right : n <= m
      BY <2>1, <2>4, LeastNat
    <3>2. Min(right) \in right /\ \A m \in right : Min(right) <= m
      BY <3>1 DEF Min
    <3> DEFINE x == Min(right)
    <3>3. stop = x - 1
      BY <2>4
    <3> HIDE DEF x, stop
    <3>4. x \in right /\ \A m \in right : x <= m
      BY <3>2 DEF x
    <3>5. x \in Nat /\ x >= 2 /\ x <= Len(iQUE)
      BY <3>4, <2>1
    <3>6. \A n \in 1 .. stop : n \in 1 .. Len(iQUE) /\ n \notin right
      BY <3>3, <3>4, <3>5, <1>3
    <3>7. stop \in 0 .. Len(iQUE)
      BY <3>3, <3>5, <1>3
    <3> QED BY <3>6, <3>7, <2>2
  <2> QED BY <2>3, <2>4
<1>10. /\ iROB' = FlushBack(iROB, squashSN)
       /\ codeCache' = Drop(iQUE, stop) \o codeCache
       /\ stage' = AtStage(Elements(Drop(iQUE, stop)), "NO_STAGE", stage)
       /\ deleted' = deleted \cup {iQUE[n] : n \in start .. stop}
       /\ iQUE' = Take(iQUE, start - 1)
  BY <1>4 DEF squash
<1> HIDE DEF start, stop
<1>11. Elements(Take(iQUE, stop)) = {iQUE[n] : n \in 1 .. stop}
  BY <1>3, <1>9, TakeDropElements
<1>12. iQUE' = << >>
  <2>1. start - 1 = 0 /\ 0 \in 0 .. Len(iQUE)
    BY <1>3, <1>8
  <2>2. Take(iQUE, 0) \in Seq(Ids) /\ Len(Take(iQUE, 0)) = 0
    BY <1>3, <2>1, TakeDrop
  <2> QED BY <1>10, <2>1, <2>2, ElementsIn
<1>13. deleted' = deleted \cup Elements(Take(iQUE, stop))
  BY <1>8, <1>10, <1>11
<1> QED BY <1>5, <1>9, <1>10, <1>11, <1>12, <1>13

LEMMA SquashStep ==
  ASSUME IInv, squash
  PROVE  IInv'
<1> USE DEF memVars, squashVars
<1>u. UNCHANGED <<program, supplied, retired, fetchPort, decodePort, iWindow, issuePort, EU,
                  memPort, memBuff, busy, wires, pipe, squashSN>>
  BY DEF squash
<1>t. Ids' = Ids /\ RightPathIds' = RightPathIds /\ Regs' = Regs
  BY <1>u, ProgramStays
<1>3. TypeOK /\ Ids \in SUBSET Nat
  BY Numbers DEF IInv
<1>1. PICK stop \in 0 .. Len(iQUE) :
        /\ \A i \in Elements(Take(iQUE, stop)) : WrongPath(i)
        /\ iROB' = << >> /\ iQUE' = << >>
        /\ codeCache' = Drop(iQUE, stop) \o codeCache
        /\ stage' = AtStage(Elements(Drop(iQUE, stop)), "NO_STAGE", stage)
        /\ deleted' = deleted \cup Elements(Take(iQUE, stop))
  BY SquashShape
<1>1a. turn = "SQUASH" /\ turn' = "SCHEDULE" /\ pipe = "SQUASH_ROB"
  BY DEF squash, IInv, Squashing
<1> DEFINE back == Drop(iQUE, stop)
           gone == Elements(Take(iQUE, stop))
<1>2. /\ iQUE \in Seq(Ids) /\ Increasing(iQUE) /\ codeCache \in Seq(Ids) /\ Increasing(codeCache)
      /\ Fetched \subseteq Ids /\ Elements(codeCache) \subseteq Ids
      /\ Before(Fetched, Elements(codeCache))
  BY <1>3, QueueTypes, ElementTypes DEF IInv, InOrder, TraceOrder
<1>4. /\ back \in Seq(Ids) /\ Increasing(back)
      /\ Elements(back) = Fetched \ gone /\ gone \subseteq Fetched
      /\ Before(gone, Elements(back))
  <2>1. back \in Seq(Ids)
    BY <1>2, TakeDrop
  <2>2. /\ Increasing(back) /\ Elements(back) = Elements(iQUE) \ gone
        /\ Before(gone, Elements(back))
    BY <1>2, <1>3, IncreasingTakeDrop
  <2>3. gone \subseteq Elements(iQUE)
    BY <1>2, TakeDropElements
  <2> QED BY <2>1, <2>2, <2>3 DEF Fetched
<1>5. /\ codeCache' = back \o codeCache
      /\ stage' = AtStage(Elements(back), "NO_STAGE", stage)
      /\ deleted' = deleted \cup gone /\ \A i \in gone : WrongPath(i)
  BY <1>1
<1> HIDE DEF back, gone
<1>6. /\ codeCache' \in Seq(Ids) /\ Increasing(codeCache')
      /\ Elements(codeCache') = (Fetched \ gone) \cup Elements(codeCache)
  <2>1. Before(Elements(back), Elements(codeCache))
    BY <1>2, <1>4 DEF Before
  <2>2. /\ back \o codeCache \in Seq(Ids)
        /\ Elements(back \o codeCache) = Elements(back) \cup Elements(codeCache)
    BY <1>2, <1>4, Concat
  <2>3. Increasing(back \o codeCache)
    BY <1>2, <1>4, <2>1, Concat
  <2> QED BY <2>2, <2>3, <1>4, <1>5
<1>7. gone \cap Elements(codeCache) = {} /\ Before(gone, Elements(codeCache'))
  <2>1. Before(gone, Elements(codeCache))
    BY <1>2, <1>4 DEF Before
  <2>2. gone \in SUBSET Nat /\ Elements(codeCache) \in SUBSET Nat
    BY <1>2, <1>3, <1>4
  <2> QED BY <2>1, <2>2, <1>4, <1>6, BeforeDisjoint DEF Before
<1>8. stage' \in [Ids -> Stages]
  <2>1. stage \in [Ids -> Stages] /\ "NO_STAGE" \in Stages /\ Elements(back) \in SUBSET Ids
    BY <1>2, <1>3, <1>4 DEF TypeOK, Stages
  <2> QED BY <2>1, <1>5, AtStageTable
<1>9. /\ Fetched' = {} /\ InROB' = {} /\ Units = {} /\ Waiting = {} /\ Accesses = {}
      /\ decodePort = << >> /\ fetchPort = << >> /\ memPort = << >> /\ memBuff = << >>
  <2>1. Units = {} /\ Waiting = {} /\ memPort = << >> /\ memBuff = << >>
    BY <1>1a DEF IInv, Flushing, FlushedIn
  <2>2. decodePort = << >> /\ fetchPort = << >>
    BY <1>1a DEF IInv, WindowOrder, FlushedIn
  <2> QED BY <1>1, <2>1, <2>2, EmptyQueue DEF Fetched, InROB, Accesses
<1>10. /\ Units' = Units /\ Waiting' = Waiting /\ Accesses' = Accesses
       /\ Traced' = Traced \ gone /\ Traced' = Elements(codeCache')
       /\ Window' = {} /\ Begun' = {} /\ Outstanding' = {}
  <2>1. Units' = Units /\ Waiting' = Waiting /\ Accesses' = Accesses
    BY <1>u DEF Units, Waiting, Accesses
  <2>2. Traced' = Elements(codeCache') /\ Traced' = Traced \ gone
    BY <1>6, <1>7, <1>9 DEF Traced
  <2>3. Window' = {}
    BY <1>9, <1>u, EmptyQueue DEF Window
  <2>4. Begun' = {} /\ Outstanding' = {}
    BY <1>9 DEF Begun, Outstanding, Fetched
  <2> QED BY <2>1, <2>2, <2>3, <2>4
<1> USE <1>u, <1>t
<1>11. TypeOK'
  <2>1. /\ iROB' \in Seq(Ids) /\ iQUE' \in Seq(Ids) /\ Len(iROB') <= RobSize
    <3>1. RobSize \in Nat
      BY <1>3, Sizes
    <3> QED BY <3>1, <1>1, EmptyQueue
  <2>2. \A q \in {codeCache', iQUE', fetchPort', decodePort', iWindow', issuePort',
                  memPort', memBuff', iROB', retired'} : q \in Seq(Ids')
    BY <1>3, <1>6, <2>1, QueueTypes
  <2>3. deleted' \subseteq Ids
    BY <1>2, <1>3, <1>4, <1>5 DEF TypeOK
  <2> QED BY <1>1a, <1>3, <1>8, <2>1, <2>2, <2>3 DEF TypeOK
<1>12. InOrder'
  BY <1>1, <1>6, EmptyQueue DEF IInv, InOrder
<1>13. TraceOrder'
  <2>1. Before(Elements(retired'), Traced') /\ Before(Fetched', Elements(codeCache'))
    BY <1>9, <1>10 DEF IInv, TraceOrder, Before
  <2>2. \A i \in Traced' : i .. supplied' \subseteq Traced'
    <3> SUFFICES ASSUME NEW i \in Traced', NEW j \in i .. supplied PROVE j \in Traced'
      OBVIOUS
    <3>1. j \in Traced
      BY <1>10 DEF IInv, TraceOrder
    <3>2. ASSUME j \in gone PROVE FALSE
      <4>1. j < i
        BY <3>2, <1>7, <1>10 DEF Before
      <4>2. i \in Nat /\ j \in Nat /\ i <= j
        <5>1. i \in Nat
          BY <1>2, <1>3, <1>6, <1>4, <1>10
        <5> QED BY <5>1
      <4> QED BY <4>1, <4>2
    <3> QED BY <3>1, <3>2, <1>10
  <2> QED BY <2>1, <2>2, <1>10 DEF IInv, TraceOrder
<1>14. WindowOrder'
  BY <1>1a, <1>9, <1>10, EmptyQueue DEF WindowOrder, Before, DownClosed
<1>15. IssueOrder'
  BY <1>9, <1>10 DEF IInv, IssueOrder, Before
<1>16. StagesTrue'
  BY <1>9, <1>10, EmptyQueue DEF StagesTrue, Waiting
<1>17. ScoreboardExact'
  BY <1>1a, <1>10 DEF ScoreboardExact
<1>18. Squashing'
  BY <1>1, <1>1a DEF Squashing
<1>19. Flushing'
  BY <1>1a, <1>9, <1>10 DEF Flushing, EndsBefore
<1>20. Accounted'
  BY <1>5, <1>10 DEF IInv, Accounted, WrongPath
<1> QED BY <1>11, <1>12, <1>13, <1>14, <1>15, <1>16, <1>17, <1>18, <1>19, <1>20 DEF IInv

-----------------------------------------------------------------------------
(* The invariant. *)

LEMMA InitHolds ==
  ASSUME Init
  PROVE  IInv
<1>1. /\ \A D : << >> \in Seq(D)
      /\ Len(<< >>) = 0 /\ Elements(<< >>) = {} /\ Increasing(<< >>) /\ Distinct(<< >>)
  <2>1. \A D : << >> \in Seq(D)
    OBVIOUS
  <2> QED BY <2>1, EmptyQueue
<1>2. Len(program) \in Nat /\ supplied \in Ids /\ NoIns \notin Ids /\ Ids \in SUBSET Nat
      /\ Ids = 1 .. Len(program)
  <2> DEFINE R == [op : {"ALU", "LOAD", "STORE"}, rd : SUBSET Nat,
                   wr : SUBSET Nat, wrongPath : BOOLEAN]
  <2>1. program \in Seq(R)
    BY ProgramsAssumption DEF Init
  <2>2. Len(program) \in Nat
    <3> HIDE DEF R
    <3> QED BY <2>1
  <2>3. supplied \in Ids
    BY DEF Init, supplyPoints
  <2> QED BY <2>2, <2>3 DEF Ids, NoIns
<1>3. supplied \in Nat /\ 1 .. supplied \subseteq Ids /\ supplied \in 0 .. Len(program)
  BY <1>2
<1>4. /\ codeCache \in Seq(Ids) /\ Len(codeCache) = supplied
      /\ \A i \in 1 .. supplied : codeCache[i] = i
  BY <1>3 DEF Init
<1>5. Elements(codeCache) = 1 .. supplied /\ Increasing(codeCache)
  BY <1>3, <1>4 DEF Elements, Increasing
<1>6. /\ iQUE = << >> /\ fetchPort = << >> /\ decodePort = << >> /\ iWindow = << >>
      /\ issuePort = << >> /\ memPort = << >> /\ memBuff = << >> /\ iROB = << >>
      /\ retired = << >> /\ deleted = {} /\ pipe = "NORMAL" /\ squashSN = 0
      /\ turn = "COMMIT" /\ busy = {} /\ wires = WrWires
      /\ stage = [i \in Ids |-> "NO_STAGE"] /\ EU = [e \in 1 .. Width |-> NoIns]
      /\ program \in Programs
  BY DEF Init
<1>7. {Width, PortLen, MemPortLen, WinSize, RobSize, MemBuffLen, WrWires} \subseteq Nat \ {0}
  BY SizesAssumption
<1>8. TypeOK
  <2>1. \A q \in {codeCache, iQUE, fetchPort, decodePort, iWindow, issuePort,
                  memPort, memBuff, iROB, retired} : q \in Seq(Ids)
    BY <1>1, <1>4, <1>6
  <2>2. /\ \A q \in {fetchPort, decodePort, issuePort} : Len(q) <= PortLen
        /\ Len(memPort) <= MemPortLen /\ Len(memBuff) <= MemBuffLen
        /\ Len(iWindow) <= WinSize /\ Len(iROB) <= RobSize
    BY <1>1, <1>6, <1>7
  <2>3. EU \in [1 .. Width -> Ids \cup {NoIns}] /\ stage \in [Ids -> Stages]
    BY <1>6 DEF Stages
  <2>4. wires \in 0 .. WrWires
    BY <1>6, <1>7
  <2> QED BY <1>3, <1>6, <2>1, <2>2, <2>3, <2>4 DEF TypeOK
<1>9. /\ Fetched = {} /\ InROB = {} /\ Window = {} /\ Waiting = {} /\ Accesses = {}
      /\ Begun = {} /\ Outstanding = {} /\ Traced = 1 .. supplied /\ Units = {}
  <2>1. Units = {}
    BY <1>6, <1>8, ElementTypes
  <2> QED BY <1>1, <1>5, <1>6, <2>1 DEF Fetched, InROB, Window, Waiting, Accesses, Begun,
       Outstanding, Traced
<1>10. InOrder
  BY <1>1, <1>5, <1>6 DEF InOrder
<1>11. TraceOrder
  <2>1. \A i \in 1 .. supplied : i .. supplied \subseteq 1 .. supplied
    BY <1>3
  <2> QED BY <1>1, <1>6, <1>9, <2>1 DEF TraceOrder, Before
<1>12. WindowOrder /\ IssueOrder
  BY <1>1, <1>6, <1>9 DEF WindowOrder, IssueOrder, Before, DownClosed, FlushedIn
<1>13. StagesTrue
  BY <1>1, <1>6, <1>9 DEF StagesTrue
<1>14. ScoreboardExact
  BY <1>6, <1>9 DEF ScoreboardExact, writtenBy
<1>15. Squashing /\ Flushing
  BY <1>6, <1>9 DEF Squashing, Flushing, FlushedIn
<1>16. Accounted
  BY <1>6, <1>9 DEF Accounted
<1> QED BY <1>8, <1>10, <1>11, <1>12, <1>13, <1>14, <1>15, <1>16 DEF IInv

LEMMA NextHolds ==
  ASSUME IInv, [Next]_vars
  PROVE  IInv'
<1>1. CASE doCOMMIT
  BY <1>1, CommitStep
<1>2. CASE doMEMORY
  BY <1>2, MemoryStep
<1>3. CASE doEXECUTION
  BY <1>3, ExecuteStep
<1>4. CASE squash
  BY <1>4, SquashStep
<1>5. CASE doSCHEDULER
  BY <1>5, SchedulerStep
<1>6. CASE doDECODE
  BY <1>6, DecodeStep
<1>7. CASE doFETCH
  BY <1>7, FetchStep
<1>8. CASE frontend
  BY <1>8, FrontendStep
<1>9. CASE halted \/ UNCHANGED vars
  BY <1>9, Stalled DEF halted, vars
<1> QED BY <1>1, <1>2, <1>3, <1>4, <1>5, <1>6, <1>7, <1>8, <1>9 DEF Next

(* The stages of runCore keep every queue in order, and what an            *)
(* instruction says of itself true of where it is.                         *)
THEOREM Inductive == Spec => []IInv
<1>1. Init => IInv
  BY InitHolds
<1>2. IInv /\ [Next]_vars => IInv'
  BY NextHolds
<1> QED BY <1>1, <1>2, PTL DEF Spec

-----------------------------------------------------------------------------
(* A wrong-path access in the memory port while nothing is being flushed   *)
(* is older than the squash number or in front of an access that is.       *)
LEMMA StoresHeld ==
  ASSUME IInv
  PROVE  WrongPathStoresHeld
<1> SUFFICES ASSUME turn = "MEMORY", pipe \notin {"WAIT_FLUSH", "FLUSH"},
                    NEW i \in Elements(memPort), WrongPath(i)
             PROVE  /\ pipe = "DRAIN"
                    /\ i < squashSN \/ \E j \in Elements(memPort) : j < i
  BY DEF WrongPathStoresHeld
<1>1. TypeOK /\ Ids \in SUBSET Nat
  BY Numbers DEF IInv
<1>2. memPort \in Seq(Ids) /\ Len(memPort) \in Nat
  BY <1>1, QueueTypes, ElementsIn
<1>3. pipe # "NORMAL"
  <2>1. stage[i] = "MEM_ACCESS" /\ i \in Fetched
    BY DEF IInv, StagesTrue, Accesses, WindowOrder, Window
  <2> QED BY <2>1 DEF IInv, Squashing
<1>4. pipe # "SQUASH_ROB"
  BY EmptyQueue DEF IInv, Flushing
<1>5. pipe = "DRAIN"
  BY <1>1, <1>3, <1>4 DEF TypeOK
<1> DEFINE j == memPort[Len(memPort)]
<1>6. j \in Elements(memPort) /\ j < squashSN
  <2>1. memPort # << >>
    BY EmptyQueue
  <2>2. Len(memPort) \in 1 .. Len(memPort)
    BY <1>2, <2>1, ElementsIn
  <2>3. EndsBefore(memPort, squashSN)
    BY <1>5 DEF IInv, Flushing
  <2> QED BY <1>2, <2>1, <2>2, <2>3, ElementsIn DEF EndsBefore
<1> HIDE DEF j
<1>7. i \in Nat /\ j \in Nat /\ squashSN \in Nat
  <2>1. squashSN \in Nat
    BY <1>1 DEF TypeOK
  <2> QED BY <1>1, <1>2, <1>6, <2>1, ElementsIn
<1>8. i < squashSN \/ j < i
  BY <1>6, <1>7
<1> QED BY <1>5, <1>6, <1>8

(* The pipeline is consistent: every table is within its size, the         *)
(* scoreboard of registerFile::reserveReg and updateReg is busy exactly    *)
(* for the instructions in flight, each register for one of them, and no   *)
(* wrong-path store is started that the flush would have to take back      *)
(* (memory::memoryImpl), for every program, width and queue size.          *)
THEOREM PipelineIsConsistent == Spec => []PipelineConsistent
<1>1. IInv => PipelineConsistent
  BY StoresHeld DEF PipelineConsistent, IInv
<1> QED BY <1>1, Inductive, PTL

(* Nothing is lost and nothing is destroyed but the wrong path: a          *)
(* right-path instruction that was supplied is retired, in flight or still *)
(* in the code cache, whatever commit::squash throws away.                 *)
THEOREM NothingLost == Spec => []Accounted
<1>1. IInv => Accounted
  BY DEF IInv
<1> QED BY <1>1, Inductive, PTL

-----------------------------------------------------------------------------
(* Commit. *)

toCommit == RightPath(TraceUpTo(Len(program)))
RetiredInOrder == retired = Take(toCommit, Len(retired)) /\ Len(retired) \in 0 .. Len(toCommit)

LEMMA ToCommit ==
  ASSUME TypeOK
  PROVE  toCommit \in Seq(Ids) /\ Increasing(toCommit) /\ Elements(toCommit) = RightPathIds
<1> DEFINE n == Len(program)
           t == TraceUpTo(n)
<1>1. n \in Nat /\ Ids \in SUBSET Nat /\ Ids = 1 .. n /\ RightPathIds \subseteq Ids
  BY Numbers DEF Ids
<1> HIDE DEF n
<1>2. Len(t) = n /\ (\A i \in 1 .. n : t[i] = i) /\ t \in Seq(Ids)
  BY <1>1 DEF TraceUpTo
<1>3. Elements(t) = 1 .. n /\ Increasing(t)
  BY <1>1, <1>2 DEF Elements, Increasing
<1> HIDE DEF t
<1>4. /\ Filter(t, RightPathIds) \in Seq(Ids) /\ Increasing(Filter(t, RightPathIds))
      /\ Elements(Filter(t, RightPathIds)) = Elements(t) \cap RightPathIds
  BY <1>1, <1>2, <1>3, FilterQueue
<1>5. Elements(t) \cap RightPathIds = RightPathIds
  BY <1>1, <1>3
<1> QED BY <1>4, <1>5 DEF RightPath, t, n, toCommit

LEMMA RetiredFront ==
  ASSUME IInv
  PROVE  RetiredInOrder
<1>1. /\ TypeOK /\ Ids \in SUBSET Nat /\ retired \in Seq(Ids) /\ Increasing(retired)
      /\ supplied \in Nat /\ Len(retired) \in Nat
  <2>1. TypeOK /\ Len(program) \in Nat /\ Ids \in SUBSET Nat
    BY Numbers DEF IInv
  <2>2. supplied \in Nat
    BY <2>1 DEF TypeOK
  <2> QED BY <2>1, <2>2, QueueTypes, ElementsIn DEF IInv, InOrder
<1>2. toCommit \in Seq(Ids) /\ Increasing(toCommit) /\ Elements(toCommit) = RightPathIds
  BY <1>1, ToCommit
<1>3. Elements(retired) \subseteq RightPathIds
  BY DEF IInv, TraceOrder
<1>4. DownClosed(Elements(retired), RightPathIds)
  <2> SUFFICES ASSUME NEW i \in Elements(retired), NEW j \in RightPathIds, j < i
               PROVE  j \in Elements(retired)
    BY DEF DownClosed
  <2>1. i \in 1 .. supplied
    BY DEF IInv, TraceOrder
  <2>2. j \in Ids /\ j \in Nat /\ ~WrongPath(j) /\ j > 0
    BY <1>1 DEF RightPathIds, Ids
  <2>3. j \in 1 .. supplied
    BY <1>1, <2>1, <2>2
  <2>4. j \in Elements(retired) \cup Traced
    BY <2>2, <2>3 DEF IInv, Accounted
  <2>5. j \in Traced => i < j
    BY DEF IInv, TraceOrder, Before
  <2> QED BY <2>1, <2>2, <2>4, <2>5
<1> HIDE DEF toCommit
<1>5. IsPrefixOf(retired, toCommit)
  BY <1>1, <1>2, <1>3, <1>4, LeastElementsPrefix
<1>6. Len(retired) \in 0 .. Len(toCommit) /\ retired = Take(toCommit, Len(retired))
  BY <1>1, <1>2, <1>5, PrefixTake
<1> QED BY <1>6 DEF RetiredInOrder

(* Commit retires some instructions, at most its width. *)
LEMMA CommitCounts ==
  ASSUME IInv, doCOMMIT
  PROVE  \E k \in 0 .. Width : Len(retired') = Len(retired) + k
<1>1. TypeOK /\ retired \in Seq(Ids) /\ Len(retired) \in Nat /\ Width \in Nat
  BY QueueTypes, ElementsIn, Sizes DEF IInv
<1>2. CASE UNCHANGED retired
  BY <1>1, <1>2
<1>3. ASSUME NEW k \in 0 .. Width, commitImpl(k)
      PROVE  Len(retired') = Len(retired) + k
  <2>1. k \in Nat /\ k <= Len(iROB) /\ retired' = retired \o Take(iROB, k)
    BY <1>1, <1>3 DEF commitImpl
  <2>2. k \in 0 .. Len(iROB) /\ iROB \in Seq(Ids)
    BY <2>1, Committed
  <2>3. Take(iROB, k) \in Seq(Ids) /\ Len(Take(iROB, k)) = k
    BY <2>2, TakeDrop
  <2> QED BY <1>1, <2>1, <2>3, Concat
<1> QED BY <1>2, <1>3 DEF doCOMMIT

(* The core implements in-order commit: whatever it speculates, squashes   *)
(* and fetches again, each step retires the next few right-path            *)
(* instructions or none (commit::commitImpl, commit::squash).              *)
THEOREM CommitsInOrder == Spec => CommitOrder!SafeSpec
<1>1. Init => CommitOrder!Init
  BY DEF Init, CommitOrder!Init
<1>2. IInv => RetiredInOrder
  BY RetiredFront
<1>3. ASSUME IInv, RetiredInOrder, RetiredInOrder', [Next]_vars
      PROVE  [CommitOrder!Commit]_(CommitOrder!vars)
  <2>1. program' = program
    BY <1>3 DEF Next, doCOMMIT, doMEMORY, doEXECUTION, squash, doSCHEDULER, doDECODE,
       doFETCH, frontend, halted, vars, work, frontVars
  <2>2. toCommit' = toCommit
    <3>1. RightPathIds' = RightPathIds
      BY <2>1, ProgramStays
    <3> QED BY <2>1, <3>1 DEF toCommit, RightPath, TraceUpTo
  <2>3. CASE retired' = retired
    BY <2>2, <2>3 DEF CommitOrder!vars, toCommit
  <2>4. CASE doCOMMIT
    <3>1. PICK k \in 0 .. Width : Len(retired') = Len(retired) + k
      BY <1>3, <2>4, CommitCounts
    <3>2. /\ retired = Take(toCommit, Len(retired)) /\ Len(retired) \in 0 .. Len(toCommit)
          /\ retired' = Take(toCommit, Len(retired) + k)
          /\ Len(retired) + k \in 0 .. Len(toCommit)
      BY <1>3, <2>2, <3>1 DEF RetiredInOrder
    <3>3. Width \in Nat
      BY SizesAssumption
    <3>4. Len(retired) \in Nat
      BY <3>2
    <3>5. CASE k = 0
      <4>1. Len(retired) + k = Len(retired)
        BY <3>4, <3>5
      <4>2. retired' = retired
        BY <3>2, <4>1
      <4> QED BY <2>3, <4>2
    <3>6. CASE k # 0
      <4>1. k \in 1 .. Width
        BY <3>3, <3>6
      <4>2. Len(retired) + k <= Len(toCommit)
        BY <3>2, <3>3, <3>4
      <4>3. retired' = SubSeq(toCommit, 1, Len(retired) + k)
        BY <3>2 DEF Take
      <4> QED BY <2>2, <4>1, <4>2, <4>3 DEF CommitOrder!Commit, toCommit
    <3> QED BY <3>5, <3>6
  <2>5. ASSUME ~doCOMMIT PROVE retired' = retired
    BY <1>3, <2>5 DEF Next, doMEMORY, doEXECUTION, squash, doSCHEDULER, doDECODE,
       doFETCH, frontend, halted, vars, work, history
  <2> QED BY <2>3, <2>4, <2>5
<1> QED BY <1>1, <1>2, <1>3, Inductive, PTL DEF Spec, CommitOrder!SafeSpec
=============================================================================
