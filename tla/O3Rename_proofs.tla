--------------------------- MODULE O3Rename_proofs ---------------------------
(***************************************************************************)
(* Proofs about register renaming, for every number of architectural and   *)
(* physical registers, every ROB size and every set of operand lists.      *)
(*                                                                         *)
(* The seven state properties of O3Rename are inductive together, once it  *)
(* is added that the operand lists of an entry match and that the ROB is   *)
(* empty while the tables wait to be restored.  Each leans on the others:  *)
(* a commit returns the right register only because the links are those    *)
(* of the undo chain, the chain holds only because the speculative map     *)
(* named the youngest definition when the instruction was renamed, and     *)
(* that only because a renamed register belongs to one instruction.        *)
(***************************************************************************)
EXTENDS O3Rename, Queues_proofs, SequenceTheorems

(* The renamed lists of an entry match the architectural ones. *)
WellFormed ==
    \A n \in 1 .. Len(rob) :
       /\ Len(rob[n].src) = Len(rob[n].rd)
       /\ Len(rob[n].dst) = Len(rob[n].wr)
       /\ Distinct(rob[n].wr)

(* The tables are restored over an empty ROB. *)
RecoveringIsEmpty == recovering => rob = << >>

(* The inductive invariant. *)
IInv ==
    /\ TypeOK
    /\ WellFormed
    /\ RecoveringIsEmpty
    /\ FreeListExact
    /\ CommittedMapExact
    /\ InFlightExact
    /\ SpeculativeMap
    /\ UndoChain
    /\ TrueProducers

-----------------------------------------------------------------------------
(* What the type of the ROB says of one of its entries. *)
LEMMA RobEntry ==
    ASSUME TypeOK, NEW n \in 1 .. Len(rob)
    PROVE  /\ Len(rob) \in Nat
           /\ rob[n] \in Entry
           /\ rob[n].rd \in Seq(AReg) /\ rob[n].src \in Seq(PReg)
           /\ rob[n].wr \in Seq(AReg) /\ rob[n].dst \in Seq(PReg)
           /\ \A i \in 1 .. Len(rob[n].rd) : rob[n].rd[i] \in AReg
           /\ \A i \in 1 .. Len(rob[n].src) : rob[n].src[i] \in PReg
           /\ \A i \in 1 .. Len(rob[n].wr) : rob[n].wr[i] \in AReg
           /\ \A i \in 1 .. Len(rob[n].dst) : rob[n].dst[i] \in PReg
<1>1. rob \in Seq(Entry) /\ Len(rob) \in Nat
  BY DEF TypeOK
<1>2. rob[n] \in Entry
  BY <1>1, ElementOfSeq
<1>3. /\ rob[n].rd \in Seq(AReg) /\ rob[n].src \in Seq(PReg)
      /\ rob[n].wr \in Seq(AReg) /\ rob[n].dst \in Seq(PReg)
  BY <1>2 DEF Entry
<1>4. /\ \A i \in 1 .. Len(rob[n].rd) : rob[n].rd[i] \in AReg
      /\ \A i \in 1 .. Len(rob[n].wr) : rob[n].wr[i] \in AReg
  BY <1>3, ElementOfSeq
<1>5. /\ \A i \in 1 .. Len(rob[n].src) : rob[n].src[i] \in PReg
      /\ \A i \in 1 .. Len(rob[n].dst) : rob[n].dst[i] \in PReg
  BY <1>3, ElementOfSeq
<1> QED
  BY <1>1, <1>2, <1>3, <1>4, <1>5

(* Nothing about a mapping depends on the stages. *)
LEMMA MapsToSame ==
    ASSUME NEW m \in Nat \ {0}, NEW a, NEW p,
           cRAT' = cRAT,
           \A n \in 1 .. m - 1 : rob'[n].wr = rob[n].wr /\ rob'[n].dst = rob[n].dst,
           MapsTo(m, a, p)
    PROVE  MapsTo(m, a, p)'
<1>1. \A n \in 1 .. m - 1 : Writes(n, a)' <=> Writes(n, a)
  BY DEF Writes
<1>2. \A n \in 1 .. m - 1 : WritesTo(n, a, p)' <=> WritesTo(n, a, p)
  BY DEF WritesTo
<1>3. CASE \E n \in 1 .. m - 1 :
             WritesTo(n, a, p) /\ \A o \in n + 1 .. m - 1 : ~Writes(o, a)
  BY <1>1, <1>2, <1>3 DEF MapsTo
<1>4. CASE (\A o \in 1 .. m - 1 : ~Writes(o, a)) /\ cRAT[a] = p
  BY <1>1, <1>4 DEF MapsTo
<1> QED
  BY <1>3, <1>4 DEF MapsTo

(* A mapping holds one instruction further if that one does not define it. *)
LEMMA MapsToExtendNext ==
    ASSUME NEW m \in Nat \ {0}, NEW a, NEW p, MapsTo(m, a, p)', ~Writes(m, a)'
    PROVE  MapsTo(m + 1, a, p)'
<1>1. CASE \E n \in 1 .. m - 1 :
             WritesTo(n, a, p)' /\ \A o \in n + 1 .. m - 1 : ~Writes(o, a)'
  <2>1. PICK n \in 1 .. m - 1 :
             WritesTo(n, a, p)' /\ \A o \in n + 1 .. m - 1 : ~Writes(o, a)'
    BY <1>1
  <2>2. \A o \in n + 1 .. (m + 1) - 1 : ~Writes(o, a)'
    BY <2>1
  <2>3. n \in 1 .. (m + 1) - 1
    OBVIOUS
  <2> QED
    BY <2>1, <2>2, <2>3 DEF MapsTo
<1>2. CASE (\A o \in 1 .. m - 1 : ~Writes(o, a)') /\ cRAT'[a] = p
  BY <1>2 DEF MapsTo
<1> QED
  BY <1>1, <1>2 DEF MapsTo

(* The mapping invariants of the next state, with their arguments named.   *)
LEMMA SpeculativeMapNext ==
    ASSUME \A a \in AReg : \A m, p :
             (m = Len(rob') + 1 /\ p = fRAT'[a]) => MapsTo(m, a, p)'
    PROVE  SpeculativeMap'
  BY DEF SpeculativeMap, MapsTo, Writes, WritesTo

(* The undo chain of the next state, likewise. *)
LEMMA UndoChainNext ==
    ASSUME \A n \in 1 .. Len(rob') : \A i \in 1 .. Len(rob'[n].dst) : \A a, p :
             (a = rob'[n].wr[i] /\ p = prev'[rob'[n].dst[i]]) => MapsTo(n, a, p)'
    PROVE  UndoChain'
<1>1. SUFFICES ASSUME NEW n \in 1 .. Len(rob'), NEW i \in 1 .. Len(rob'[n].dst)
                PROVE  MapsTo(n, rob[n].wr[i], prev[rob[n].dst[i]])'
  BY DEF UndoChain
<1>2. PICK a, p : a = rob'[n].wr[i] /\ p = (prev[rob[n].dst[i]])'
  OBVIOUS
<1>3. MapsTo(n, a, p)'
  BY <1>1, <1>2
<1> QED
  BY <1>2, <1>3 DEF MapsTo, Writes, WritesTo

(* The producers of the next state, likewise. *)
LEMMA TrueProducersNext ==
    ASSUME \A n \in 1 .. Len(rob') : \A i \in 1 .. Len(rob'[n].src) : \A a, p :
             (a = rob'[n].rd[i] /\ p = rob'[n].src[i]) => MapsTo(n, a, p)'
    PROVE  TrueProducers'
<1>1. SUFFICES ASSUME NEW n \in 1 .. Len(rob'), NEW i \in 1 .. Len(rob'[n].src)
                PROVE  MapsTo(n, rob[n].rd[i], rob[n].src[i])'
  BY DEF TrueProducers
<1>2. PICK a, p : a = rob'[n].rd[i] /\ p = (rob[n].src[i])'
  OBVIOUS
<1>3. MapsTo(n, a, p)'
  BY <1>1, <1>2
<1> QED
  BY <1>2, <1>3 DEF MapsTo, Writes, WritesTo

-----------------------------------------------------------------------------
(* What a commit does to the ROB and the committed map. *)
LEMMA CommitFacts ==
    ASSUME TypeOK, WellFormed, commitRegs
    PROVE  /\ Len(rob) \in Nat \ {0}
           /\ Len(rob[1].dst) = Len(rob[1].wr)
           /\ rob' \in Seq(Entry)
           /\ Len(rob') = Len(rob) - 1
           /\ \A n \in 1 .. Len(rob) - 1 : rob'[n] = rob[n + 1]
           /\ \A i \in 1 .. Len(rob[1].wr) : cRAT'[rob[1].wr[i]] = rob[1].dst[i]
           /\ \A a \in AReg : ~Writes(1, a) => cRAT'[a] = cRAT[a]
<1>1. rob \in Seq(Entry) /\ rob # << >>
  BY DEF TypeOK, commitRegs
<1>2. Len(rob) \in Nat \ {0}
  BY <1>1, EmptySeq
<1>3. 1 \in 1 .. Len(rob)
  BY <1>2
<1>4. /\ Len(rob[1].dst) = Len(rob[1].wr) /\ Distinct(rob[1].wr)
      /\ \A i \in 1 .. Len(rob[1].wr) : rob[1].wr[i] \in AReg
  BY <1>3, RobEntry DEF WellFormed
<1>5. rob' = Tail(rob)
  BY DEF commitRegs
<1>6. /\ rob' \in Seq(Entry)
      /\ Len(rob') = Len(rob) - 1
      /\ \A n \in 1 .. Len(rob) - 1 : rob'[n] = rob[n + 1]
  BY <1>1, <1>5, HeadTailProperties
<1>7. cRAT' = update_cRAT(rob[1].wr, rob[1].dst)
  BY DEF commitRegs
<1>8. ASSUME NEW i \in 1 .. Len(rob[1].wr)
      PROVE  cRAT'[rob[1].wr[i]] = rob[1].dst[i]
  <2> DEFINE a == rob[1].wr[i]
             j == CHOOSE k \in 1 .. Len(rob[1].wr) : rob[1].wr[k] = a
  <2>1. j \in 1 .. Len(rob[1].wr) /\ rob[1].wr[j] = a
    BY <1>8
  <2>2. j = i
    BY <2>1, <1>4 DEF Distinct
  <2>3. a \in AReg
    BY <1>4
  <2>4. cRAT'[a] = rob[1].dst[j]
    BY <1>7, <1>8, <2>3 DEF update_cRAT
  <2> QED
    BY <2>2, <2>4
<1>9. ASSUME NEW a \in AReg, ~Writes(1, a) PROVE cRAT'[a] = cRAT[a]
  BY <1>7, <1>9 DEF update_cRAT, Writes
<1> QED
  BY <1>2, <1>4, <1>6, <1>8, <1>9

(* A commit moves the window by one and takes its first definitions into   *)
(* the committed map: no mapping changes.                                  *)
LEMMA MapsToCommit ==
    ASSUME TypeOK, WellFormed, commitRegs, NEW m \in 1 .. Len(rob),
           NEW a \in AReg, NEW p, MapsTo(m + 1, a, p)
    PROVE  MapsTo(m, a, p)'
<1>1. /\ Len(rob) \in Nat \ {0}
      /\ Len(rob[1].dst) = Len(rob[1].wr)
      /\ \A n \in 1 .. Len(rob) - 1 : rob'[n] = rob[n + 1]
      /\ \A i \in 1 .. Len(rob[1].wr) : cRAT'[rob[1].wr[i]] = rob[1].dst[i]
      /\ \A b \in AReg : ~Writes(1, b) => cRAT'[b] = cRAT[b]
  BY CommitFacts
<1>0. \A n \in 1 .. m - 1 : rob'[n] = rob[n + 1]
  BY <1>1
<1>2. \A n \in 1 .. m - 1 : Writes(n, a)' <=> Writes(n + 1, a)
  BY <1>0 DEF Writes
<1>3. \A n \in 1 .. m - 1 : WritesTo(n, a, p)' <=> WritesTo(n + 1, a, p)
  BY <1>0 DEF WritesTo
<1>4. ASSUME NEW n \in 1 .. m, WritesTo(n, a, p),
             \A o \in n + 1 .. m : ~Writes(o, a)
      PROVE  MapsTo(m, a, p)'
  <2>1. CASE n = 1
    <3>1. \A o \in 1 .. m - 1 : ~Writes(o, a)'
      BY <1>2, <1>4, <2>1
    <3>2. cRAT'[a] = p
      BY <1>1, <1>4, <2>1 DEF WritesTo
    <3> QED
      BY <3>1, <3>2 DEF MapsTo
  <2>2. CASE n # 1
    <3>1. n - 1 \in 1 .. m - 1 /\ (n - 1) + 1 = n
      BY <2>2
    <3>2. WritesTo(n - 1, a, p)'
      BY <1>3, <1>4, <3>1
    <3>3. \A o \in (n - 1) + 1 .. m - 1 : ~Writes(o, a)'
      BY <1>2, <1>4, <3>1
    <3> QED
      BY <3>1, <3>2, <3>3 DEF MapsTo
  <2> QED
    BY <2>1, <2>2
<1>5. ASSUME \A o \in 1 .. m : ~Writes(o, a), cRAT[a] = p
      PROVE  MapsTo(m, a, p)'
  <2>1. \A o \in 1 .. m - 1 : ~Writes(o, a)'
    BY <1>2, <1>5
  <2>2. cRAT'[a] = p
    BY <1>1, <1>5
  <2> QED
    BY <2>1, <2>2 DEF MapsTo
<1>6. (m + 1) - 1 = m
  OBVIOUS
<1> QED
  BY <1>4, <1>5, <1>6 DEF MapsTo

-----------------------------------------------------------------------------
(* What renaming the instruction at the front does. *)
LEMMA RenameFacts ==
    ASSUME TypeOK, NEW rd \in ReadLists, renameRegs(rd)
    PROVE  /\ Len(avail) \in Nat /\ Len(front) \in 0 .. Len(avail)
           /\ front \in Seq(AReg) /\ Distinct(front)
           /\ rob' \in Seq(Entry) /\ Len(rob) \in Nat /\ Len(rob') = Len(rob) + 1
           /\ \A n \in 1 .. Len(rob) : rob'[n] = rob[n]
           /\ rob'[Len(rob) + 1] = [rd |-> rd, src |-> renameSources(rd, front),
                                    wr |-> front, dst |-> getAvailablePR(Len(front)),
                                    stage |-> "DISPATCH"]
           /\ rd \in Seq(AReg)
           /\ renameSources(rd, front) \in Seq(PReg)
           /\ Len(renameSources(rd, front)) = Len(rd)
           /\ getAvailablePR(Len(front)) \in Seq(PReg)
           /\ Len(getAvailablePR(Len(front))) = Len(front)
           /\ \A i \in 1 .. Len(front) :
                getAvailablePR(Len(front))[i] = avail[Len(avail) + 1 - i]
           /\ avail' \in Seq(PReg)
           /\ Len(avail') = Len(avail) - Len(front)
           /\ \A i \in 1 .. Len(avail') : avail'[i] = avail[i]
<1> DEFINE new == getAvailablePR(Len(front))
           src == renameSources(rd, front)
<1>1. front \in Seq(AReg) /\ Distinct(front) /\ rd \in Seq(AReg)
  BY ListsAssumption DEF TypeOK
<1>2. avail \in Seq(PReg) /\ Len(avail) \in Nat
  BY DEF TypeOK
<1>3. Len(front) \in 0 .. Len(avail)
  BY <1>1, <1>2 DEF renameRegs, canRename
<1>4. /\ new = [i \in 1 .. Len(front) |-> avail[Len(avail) + 1 - i]]
      /\ \A i \in 1 .. Len(front) : avail[Len(avail) + 1 - i] \in PReg
  <2>1. \A i \in 1 .. Len(front) : Len(avail) + 1 - i \in 1 .. Len(avail)
    BY <1>2, <1>3
  <2> QED
    BY <1>2, <2>1, ElementOfSeq DEF getAvailablePR
<1>5. new \in Seq(PReg) /\ Len(new) = Len(front)
  BY <1>1, <1>4
<1>6. \A i \in 1 .. Len(front) : new[i] = avail[Len(avail) + 1 - i]
  BY <1>4
<1>7. \A i \in 1 .. Len(rd) : fRAT[rd[i]] \in PReg
  BY <1>1, ElementOfSeq DEF TypeOK
<1>8. src \in Seq(PReg) /\ Len(src) = Len(rd)
  BY <1>1, <1>7 DEF renameSources
<1> DEFINE e == [rd |-> rd, src |-> src, wr |-> front, dst |-> new,
                 stage |-> "DISPATCH"]
<1>9. e \in Entry
  BY <1>1, <1>5, <1>8 DEF Entry, InsStage
<1>10. rob' = Append(rob, e)
  BY DEF renameRegs
<1>11. /\ rob' \in Seq(Entry) /\ Len(rob) \in Nat /\ Len(rob') = Len(rob) + 1
       /\ \A n \in 1 .. Len(rob) : rob'[n] = rob[n]
       /\ rob'[Len(rob) + 1] = e
  <2>1. rob \in Seq(Entry)
    BY DEF TypeOK
  <2> HIDE DEF e
  <2> QED
    BY <1>9, <1>10, <2>1, AppendProperties
<1>12. avail' = SubSeq(avail, 1, Len(avail) - Len(front))
  BY DEF renameRegs
<1>13. /\ avail' \in Seq(PReg)
       /\ Len(avail') = Len(avail) - Len(front)
       /\ \A i \in 1 .. Len(avail') : avail'[i] = avail[i]
  BY <1>2, <1>3, <1>12, SubSeqProperties
<1> QED
  BY <1>1, <1>2, <1>3, <1>5, <1>6, <1>8, <1>11, <1>13

(* The registers renaming takes are free ones, each taken once; it changes *)
(* the maps, the links and the states of these only.                       *)
LEMMA RenameFresh ==
    ASSUME TypeOK, FreeListExact, NEW rd \in ReadLists, renameRegs(rd)
    PROVE  LET new == getAvailablePR(Len(front)) IN
           /\ \A i \in 1 .. Len(front) :
                new[i] \in PReg /\ regState[new[i]] = "AVAILABLE"
           /\ \A i, j \in 1 .. Len(front) : new[i] = new[j] => i = j
           /\ \A i \in 1 .. Len(front) :
                /\ front[i] \in AReg
                /\ fRAT'[front[i]] = new[i]
                /\ prev'[new[i]] = fRAT[front[i]]
                /\ regState'[new[i]] = "RENAMED_INVALID"
           /\ \A a \in AReg : (\A i \in 1 .. Len(front) : front[i] # a) =>
                fRAT'[a] = fRAT[a]
           /\ \A p \in PReg : (\A i \in 1 .. Len(front) : new[i] # p) =>
                prev'[p] = prev[p] /\ regState'[p] = regState[p]
<1> DEFINE new == getAvailablePR(Len(front))
<1>1. /\ Len(avail) \in Nat /\ Len(front) \in 0 .. Len(avail)
      /\ front \in Seq(AReg) /\ Distinct(front)
      /\ new \in Seq(PReg) /\ Len(new) = Len(front)
      /\ \A i \in 1 .. Len(front) : new[i] = avail[Len(avail) + 1 - i]
  BY RenameFacts
<1>2. \A i \in 1 .. Len(front) : Len(avail) + 1 - i \in 1 .. Len(avail)
  BY <1>1
<1>3. \A i \in 1 .. Len(front) : front[i] \in AReg /\ new[i] \in PReg
  BY <1>1, ElementOfSeq
<1>4. \A i \in 1 .. Len(front) : regState[new[i]] = "AVAILABLE"
  BY <1>1, <1>2, <1>3 DEF FreeListExact
<1>5. \A i, j \in 1 .. Len(front) : new[i] = new[j] => i = j
  BY <1>1, <1>2 DEF FreeListExact
<1> HIDE DEF new
<1>6. /\ fRAT' = update_fRAT(front, new)
      /\ prev' = updatePR(front, new)
      /\ regState' = updatePRstate(new, "RENAMED_INVALID")
  BY DEF renameRegs, new
<1>7. ASSUME NEW i \in 1 .. Len(front)
      PROVE  /\ fRAT'[front[i]] = new[i]
             /\ prev'[new[i]] = fRAT[front[i]]
             /\ regState'[new[i]] = "RENAMED_INVALID"
  <2>1. (CHOOSE k \in 1 .. Len(front) : front[k] = front[i]) = i
    BY <1>1, <1>7 DEF Distinct
  <2>2. (CHOOSE k \in 1 .. Len(front) : new[k] = new[i]) = i
    BY <1>5, <1>7
  <2>3. fRAT'[front[i]] = new[i]
    BY <1>3, <1>6, <1>7, <2>1 DEF update_fRAT
  <2>4. prev'[new[i]] = fRAT[front[i]]
    BY <1>3, <1>6, <1>7, <2>2 DEF updatePR
  <2>5. regState'[new[i]] = "RENAMED_INVALID"
    BY <1>1, <1>3, <1>6, <1>7 DEF updatePRstate
  <2> QED
    BY <2>3, <2>4, <2>5
<1>8. \A a \in AReg : (\A i \in 1 .. Len(front) : front[i] # a) =>
        fRAT'[a] = fRAT[a]
  BY <1>6 DEF update_fRAT
<1>9. \A p \in PReg : (\A i \in 1 .. Len(front) : new[i] # p) =>
        prev'[p] = prev[p] /\ regState'[p] = regState[p]
  BY <1>1, <1>6 DEF updatePR, updatePRstate
<1> QED
  BY <1>3, <1>4, <1>5, <1>7, <1>8, <1>9 DEF new

(* The registers a commit frees are the committed ones its destinations    *)
(* supersede.                                                              *)
LEMMA CommitFrees ==
    ASSUME TypeOK, WellFormed, UndoChain, commitRegs
    PROVE  LET old == getPrevPR(rob[1].dst) IN
           /\ old \in Seq(PReg) /\ Len(old) = Len(rob[1].wr)
           /\ Len(rob[1].dst) = Len(rob[1].wr)
           /\ Distinct(rob[1].wr)
           /\ \A i \in 1 .. Len(rob[1].wr) :
                /\ rob[1].wr[i] \in AReg /\ rob[1].dst[i] \in PReg
                /\ old[i] = cRAT[rob[1].wr[i]]
                /\ prev[rob[1].dst[i]] = old[i]
<1> DEFINE old == getPrevPR(rob[1].dst)
<1>1. /\ Len(rob) \in Nat \ {0} /\ 1 \in 1 .. Len(rob)
      /\ Len(rob[1].dst) = Len(rob[1].wr)
  BY CommitFacts
<1>2. /\ Distinct(rob[1].wr)
      /\ rob[1].wr \in Seq(AReg)
      /\ \A i \in 1 .. Len(rob[1].wr) :
           rob[1].wr[i] \in AReg /\ rob[1].dst[i] \in PReg
  BY <1>1, RobEntry DEF WellFormed
<1>3. old = [i \in 1 .. Len(rob[1].wr) |-> prev[rob[1].dst[i]]]
  BY <1>1 DEF getPrevPR
<1>4. \A i \in 1 .. Len(rob[1].wr) : MapsTo(1, rob[1].wr[i], old[i])
  BY <1>1, <1>3 DEF UndoChain
<1>5. \A i \in 1 .. Len(rob[1].wr) : old[i] = cRAT[rob[1].wr[i]]
  BY <1>4 DEF MapsTo
<1>6. \A i \in 1 .. Len(rob[1].wr) : old[i] \in PReg
  BY <1>2, <1>5 DEF TypeOK
<1>7. Len(rob[1].wr) \in Nat
  BY <1>2
<1>8. old \in Seq(PReg) /\ Len(old) = Len(rob[1].wr)
  <2>1. DOMAIN old = 1 .. Len(rob[1].wr) /\ old \in [1 .. Len(rob[1].wr) -> PReg]
    <3>1. old = [i \in 1 .. Len(rob[1].wr) |-> old[i]]
      BY <1>3
    <3> HIDE DEF old
    <3> QED
      BY <1>6, <3>1
  <2> HIDE DEF old
  <2> QED
    BY <1>7, <2>1
<1> QED
  BY <1>1, <1>2, <1>3, <1>5, <1>8

-----------------------------------------------------------------------------
(* Renaming preserves the invariant. *)
LEMMA RenamePreserves ==
    ASSUME IInv, NEW rd \in ReadLists, renameRegs(rd)
    PROVE  IInv'
<1>z. PICK N : N = Len(rob) + 1
  OBVIOUS
<1> DEFINE new == getAvailablePR(Len(front))
<1>i. TypeOK /\ WellFormed /\ FreeListExact /\ CommittedMapExact /\ InFlightExact
      /\ SpeculativeMap /\ UndoChain /\ TrueProducers
  BY DEF IInv
<1>u. cRAT' = cRAT /\ recovering' = recovering /\ recovering = FALSE
      /\ front' \in WriteLists
  BY DEF renameRegs
<1>a. /\ Len(avail) \in Nat /\ Len(front) \in 0 .. Len(avail)
      /\ \A i \in 1 .. Len(front) : new[i] = avail[Len(avail) + 1 - i]
      /\ avail' \in Seq(PReg)
      /\ Len(avail') = Len(avail) - Len(front)
      /\ \A i \in 1 .. Len(avail') : avail'[i] = avail[i]
  BY <1>i, RenameFacts
<1>r. /\ rob' \in Seq(Entry) /\ Len(rob) \in Nat /\ Len(rob') = N /\ N = Len(rob) + 1
      /\ \A n \in 1 .. Len(rob) : rob'[n] = rob[n]
  BY <1>i, <1>z, RenameFacts
<1>q. rob'[N] = [rd |-> rd, src |-> renameSources(rd, front), wr |-> front,
                 dst |-> new, stage |-> "DISPATCH"]
  BY <1>i, <1>z, RenameFacts
<1>e. /\ rob'[N].rd = rd /\ rob'[N].src = renameSources(rd, front)
      /\ rob'[N].wr = front /\ rob'[N].dst = new /\ rob'[N].stage = "DISPATCH"
  BY <1>q
<1>d. /\ front \in Seq(AReg) /\ Distinct(front) /\ rd \in Seq(AReg)
      /\ new \in Seq(PReg) /\ Len(new) = Len(front)
      /\ Len(renameSources(rd, front)) = Len(rd)
  BY <1>i, RenameFacts
<1>b. /\ \A i \in 1 .. Len(front) :
           new[i] \in PReg /\ regState[new[i]] = "AVAILABLE"
      /\ \A i, j \in 1 .. Len(front) : new[i] = new[j] => i = j
      /\ \A i \in 1 .. Len(front) :
           /\ front[i] \in AReg
           /\ fRAT'[front[i]] = new[i]
           /\ prev'[new[i]] = fRAT[front[i]]
           /\ regState'[new[i]] = "RENAMED_INVALID"
      /\ \A a \in AReg : (\A i \in 1 .. Len(front) : front[i] # a) =>
           fRAT'[a] = fRAT[a]
      /\ \A p \in PReg : (\A i \in 1 .. Len(front) : new[i] # p) =>
           prev'[p] = prev[p] /\ regState'[p] = regState[p]
  BY <1>i, RenameFresh
<1>c. /\ fRAT' = update_fRAT(front, new)
      /\ prev' = updatePR(front, new)
      /\ regState' = updatePRstate(new, "RENAMED_INVALID")
  BY DEF renameRegs
<1> HIDE DEF new
<1>n. \A n \in 1 .. N : n \in 1 .. Len(rob) \/ n = N
  BY <1>r
<1>f. \A n \in 1 .. Len(rob) : \A i \in 1 .. Len(rob[n].dst) :
        /\ rob[n].dst[i] \in PReg
        /\ \A j \in 1 .. Len(front) : rob[n].dst[i] # new[j]
  <2>1. \A n \in 1 .. Len(rob) : \A i \in 1 .. Len(rob[n].dst) :
          rob[n].dst[i] \in PReg /\ regState[rob[n].dst[i]] # "AVAILABLE"
    BY <1>i, RobEntry DEF InFlightExact
  <2> QED
    BY <1>b, <2>1
<1>1. TypeOK'
  <2>1. fRAT' \in [AReg -> PReg]
    <3>1. ASSUME NEW a \in AReg PROVE fRAT'[a] \in PReg
      <4>1. CASE \E i \in 1 .. Len(front) : front[i] = a
        BY <1>b, <4>1
      <4>2. CASE \A i \in 1 .. Len(front) : front[i] # a
        BY <1>b, <1>i, <4>2 DEF TypeOK
      <4> QED
        BY <4>1, <4>2
    <3> QED
      BY <1>c, <3>1 DEF update_fRAT
  <2>2. prev' \in [PReg -> PReg \cup {NoPR}]
    <3>1. ASSUME NEW p \in PReg PROVE prev'[p] \in PReg \cup {NoPR}
      <4>1. CASE \E i \in 1 .. Len(front) : new[i] = p
        <5>1. PICK i \in 1 .. Len(front) : new[i] = p
          BY <4>1
        <5>2. prev'[p] = fRAT[front[i]] /\ front[i] \in AReg
          BY <1>b, <5>1
        <5> QED
          BY <1>i, <5>2 DEF TypeOK
      <4>2. CASE \A i \in 1 .. Len(front) : new[i] # p
        BY <1>b, <1>i, <4>2 DEF TypeOK
      <4> QED
        BY <4>1, <4>2
    <3> QED
      BY <1>c, <3>1 DEF updatePR
  <2>3. regState' \in [PReg -> RegState]
    BY <1>c, <1>i DEF TypeOK, updatePRstate, RegState
  <2> QED
    BY <1>a, <1>r, <1>i, <1>u, <2>1, <2>2, <2>3 DEF TypeOK
<1>2. WellFormed'
  <2>1. \A n \in 1 .. Len(rob) :
          /\ Len(rob'[n].src) = Len(rob'[n].rd)
          /\ Len(rob'[n].dst) = Len(rob'[n].wr)
          /\ Distinct(rob'[n].wr)
    BY <1>r, <1>i DEF WellFormed
  <2>2. /\ Len(rob'[N].src) = Len(rob'[N].rd)
        /\ Len(rob'[N].dst) = Len(rob'[N].wr)
        /\ Distinct(rob'[N].wr)
    BY <1>d, <1>e
  <2> QED
    BY <1>r, <1>n, <2>1, <2>2 DEF WellFormed
<1>3. RecoveringIsEmpty'
  BY <1>u DEF RecoveringIsEmpty
<1>4. FreeListExact'
  <2>1. ASSUME NEW i \in 1 .. Len(avail'), NEW j \in 1 .. Len(avail'),
               avail'[i] = avail'[j]
        PROVE  i = j
    <3>1. i \in 1 .. Len(avail) /\ j \in 1 .. Len(avail) /\ avail[i] = avail[j]
      BY <1>a, <2>1
    <3> QED
      BY <1>i, <3>1 DEF FreeListExact
  <2>2. ASSUME NEW p \in PReg, regState'[p] = "AVAILABLE"
        PROVE  \E i \in 1 .. Len(avail') : avail'[i] = p
    <3>1. \A j \in 1 .. Len(front) : new[j] # p
      BY <1>b, <2>2
    <3>2. PICK i \in 1 .. Len(avail) : avail[i] = p
      BY <1>b, <1>i, <2>2, <3>1 DEF FreeListExact
    <3>3. CASE i \in 1 .. Len(avail')
      BY <1>a, <3>2, <3>3
    <3>4. CASE i \notin 1 .. Len(avail')
      <4>1. PICK j \in 1 .. Len(front) : Len(avail) + 1 - j = i
        <5>1. /\ Len(avail) + 1 - i \in 1 .. Len(front)
              /\ Len(avail) + 1 - (Len(avail) + 1 - i) = i
          BY <1>a, <3>4
        <5> QED
          BY <5>1
      <4>2. new[j] = avail[i]
        BY <1>a, <4>1
      <4> QED
        BY <3>1, <3>2, <4>2
    <3> QED
      BY <3>3, <3>4
  <2>3. ASSUME NEW i \in 1 .. Len(avail')
        PROVE  regState'[avail'[i]] = "AVAILABLE"
    <3>0. i \in 1 .. Len(avail) /\ avail'[i] = avail[i]
      BY <1>a
    <3>1. i \in 1 .. Len(avail) /\ avail'[i] = avail[i] /\ avail[i] \in PReg
      BY <1>i, <3>0, ElementOfSeq DEF TypeOK
    <3>2. \A j \in 1 .. Len(front) : new[j] # avail[i]
      <4> SUFFICES ASSUME NEW j \in 1 .. Len(front) PROVE new[j] # avail[i]
        OBVIOUS
      <4>1. Len(avail) + 1 - j \in 1 .. Len(avail) /\ Len(avail) + 1 - j # i
        BY <1>a
      <4>2. avail[Len(avail) + 1 - j] # avail[i]
        BY <1>i, <3>1, <4>1 DEF FreeListExact
      <4> QED
        BY <1>a, <4>2
    <3>3. regState'[avail[i]] = regState[avail[i]]
      BY <1>b, <3>1, <3>2
    <3>4. regState[avail[i]] = "AVAILABLE"
      BY <1>i, <3>1 DEF FreeListExact
    <3> QED
      BY <3>1, <3>3, <3>4
  <2> QED
    BY <2>1, <2>2, <2>3 DEF FreeListExact
<1>5. CommittedMapExact'
  <2>1. \A p \in PReg : regState'[p] = "ARCH_REG" <=> regState[p] = "ARCH_REG"
    BY <1>b
  <2> QED
    BY <1>i, <1>u, <2>1 DEF CommittedMapExact
<1>6. InFlightExact'
  <2>1. ASSUME NEW n \in 1 .. N, NEW m \in 1 .. N,
               NEW i \in 1 .. Len(rob'[n].dst), NEW j \in 1 .. Len(rob'[m].dst),
               rob'[n].dst[i] = rob'[m].dst[j]
        PROVE  n = m /\ i = j
    <3>1. CASE n \in 1 .. Len(rob) /\ m \in 1 .. Len(rob)
      <4>1. rob'[n] = rob[n] /\ rob'[m] = rob[m]
        BY <1>r, <3>1
      <4> QED
        BY <1>i, <2>1, <3>1, <4>1 DEF InFlightExact
    <3>2. CASE n = N /\ m = N
      <4>1. i \in 1 .. Len(front) /\ j \in 1 .. Len(front) /\ new[i] = new[j]
        BY <1>d, <1>e, <2>1, <3>2
      <4> QED
        BY <1>b, <3>2, <4>1
    <3>3. CASE n \in 1 .. Len(rob) /\ m = N
      <4>1. rob'[n] = rob[n] /\ i \in 1 .. Len(rob[n].dst)
        BY <1>r, <3>3
      <4>2. j \in 1 .. Len(front) /\ new[j] = rob[n].dst[i]
        BY <1>d, <1>e, <2>1, <3>3, <4>1
      <4> QED
        BY <1>f, <3>3, <4>1, <4>2
    <3>4. CASE n = N /\ m \in 1 .. Len(rob)
      <4>1. rob'[m] = rob[m] /\ j \in 1 .. Len(rob[m].dst)
        BY <1>r, <3>4
      <4>2. i \in 1 .. Len(front) /\ new[i] = rob[m].dst[j]
        BY <1>d, <1>e, <2>1, <3>4, <4>1
      <4> QED
        BY <1>f, <3>4, <4>1, <4>2
    <3> QED
      BY <1>n, <3>1, <3>2, <3>3, <3>4
  <2>2. ASSUME NEW n \in 1 .. N, NEW i \in 1 .. Len(rob'[n].dst)
        PROVE  regState'[rob'[n].dst[i]] = IF rob'[n].stage = "COMPLETE"
                                           THEN "RENAMED_VALID"
                                           ELSE "RENAMED_INVALID"
    <3>1. CASE n \in 1 .. Len(rob)
      <4>1. rob'[n] = rob[n] /\ i \in 1 .. Len(rob[n].dst)
        BY <1>r, <2>2, <3>1
      <4>2. regState'[rob[n].dst[i]] = regState[rob[n].dst[i]]
        BY <1>b, <1>f, <3>1, <4>1
      <4> QED
        BY <1>i, <3>1, <4>1, <4>2 DEF InFlightExact
    <3>2. CASE n = N
      <4>1. i \in 1 .. Len(front)
        BY <1>d, <1>e, <2>2, <3>2
      <4> QED
        BY <1>b, <1>e, <3>2, <4>1
    <3> QED
      BY <1>n, <3>1, <3>2
  <2>3. ASSUME NEW p \in PReg, regState'[p] \in {"RENAMED_VALID", "RENAMED_INVALID"}
        PROVE  \E n \in 1 .. N : \E i \in 1 .. Len(rob'[n].dst) : rob'[n].dst[i] = p
    <3>1. CASE \E i \in 1 .. Len(front) : new[i] = p
      <4>1. N \in 1 .. N /\ Len(rob'[N].dst) = Len(front)
        BY <1>r, <1>d, <1>e
      <4> QED
        BY <1>e, <3>1, <4>1
    <3>2. CASE \A i \in 1 .. Len(front) : new[i] # p
      <4>1. regState[p] \in {"RENAMED_VALID", "RENAMED_INVALID"}
        BY <1>b, <2>3, <3>2
      <4>2. PICK n \in 1 .. Len(rob) : \E i \in 1 .. Len(rob[n].dst) : rob[n].dst[i] = p
        BY <1>i, <1>u, <4>1 DEF InFlightExact
      <4>3. n \in 1 .. N /\ rob'[n] = rob[n]
        BY <1>r
      <4> QED
        BY <4>2, <4>3
    <3> QED
      BY <3>1, <3>2
  <2>4. Len(rob') = N
    BY <1>r
  <2> QED
    BY <2>1, <2>2, <2>3, <2>4 DEF InFlightExact
<1>m. ASSUME NEW m \in 1 .. N, NEW a \in AReg, NEW p, MapsTo(m, a, p)
      PROVE  MapsTo(m, a, p)'
  <2>1. m \in Nat \ {0} /\ \A n \in 1 .. m - 1 : n \in 1 .. Len(rob)
    BY <1>r
  <2>2. \A n \in 1 .. m - 1 : rob'[n].wr = rob[n].wr /\ rob'[n].dst = rob[n].dst
    BY <1>r, <2>1
  <2> QED
    BY <1>m, <1>u, <2>1, <2>2, MapsToSame
<1>7. SpeculativeMap'
  <2>1. ASSUME NEW a \in AReg, NEW p, p = fRAT'[a]
        PROVE  MapsTo(N + 1, a, p)'
    <3>1. CASE \A i \in 1 .. Len(front) : front[i] # a
      <4>1. MapsTo(N, a, p)
        BY <1>b, <1>i, <1>r, <1>u, <2>1, <3>1 DEF SpeculativeMap
      <4>2. MapsTo(N, a, p)'
        BY <1>m, <1>r, <4>1
      <4>3. ~Writes(N, a)'
        BY <1>e, <3>1 DEF Writes
      <4> QED
        BY <1>r, <4>2, <4>3, MapsToExtendNext
    <3>2. CASE \E i \in 1 .. Len(front) : front[i] = a
      <4>1. WritesTo(N, a, p)'
        BY <1>b, <1>e, <2>1, <3>2 DEF WritesTo
      <4>2. N \in 1 .. (N + 1) - 1 /\ N + 1 .. (N + 1) - 1 = {}
        BY <1>r
      <4> QED
        BY <4>1, <4>2 DEF MapsTo
    <3> QED
      BY <3>1, <3>2
  <2> QED
    BY <1>r, <2>1, SpeculativeMapNext
<1>8. UndoChain'
  <2>1. ASSUME NEW n \in 1 .. N, NEW i \in 1 .. Len(rob'[n].dst), NEW a, NEW p,
               a = rob'[n].wr[i], p = prev'[rob'[n].dst[i]]
        PROVE  MapsTo(n, a, p)'
    <3>1. CASE n \in 1 .. Len(rob)
      <4>1. rob'[n] = rob[n] /\ i \in 1 .. Len(rob[n].dst) /\ i \in 1 .. Len(rob[n].wr)
        BY <1>i, <1>r, <2>1, <3>1 DEF WellFormed
      <4>p. p = prev[rob[n].dst[i]]
        BY <1>b, <1>f, <2>1, <3>1, <4>1
      <4>2. a \in AReg
        BY <1>i, <2>1, <3>1, <4>1, RobEntry
      <4>3. MapsTo(n, a, p)
        BY <1>i, <2>1, <3>1, <4>1, <4>p DEF UndoChain
      <4> QED
        BY <1>m, <4>2, <4>3
    <3>2. CASE n = N
      <4>1. i \in 1 .. Len(front) /\ a = front[i] /\ p = fRAT[a] /\ a \in AReg
        BY <1>b, <1>d, <1>e, <2>1, <3>2
      <4>2. MapsTo(N, a, p)
        BY <1>i, <1>r, <1>u, <4>1 DEF SpeculativeMap
      <4> QED
        BY <1>m, <3>2, <4>1, <4>2
    <3> QED
      BY <1>n, <3>1, <3>2
  <2> QED
    BY <1>r, <2>1, UndoChainNext
<1>9. TrueProducers'
  <2>1. ASSUME NEW n \in 1 .. N, NEW i \in 1 .. Len(rob'[n].src), NEW a, NEW p,
               a = rob'[n].rd[i], p = rob'[n].src[i]
        PROVE  MapsTo(n, a, p)'
    <3>1. CASE n \in 1 .. Len(rob)
      <4>1. rob'[n] = rob[n] /\ i \in 1 .. Len(rob[n].src) /\ i \in 1 .. Len(rob[n].rd)
        BY <1>i, <1>r, <2>1, <3>1 DEF WellFormed
      <4>2. a \in AReg
        BY <1>i, <2>1, <3>1, <4>1, RobEntry
      <4>3. MapsTo(n, a, p)
        BY <1>i, <2>1, <3>1, <4>1 DEF TrueProducers
      <4> QED
        BY <1>m, <4>2, <4>3
    <3>2. CASE n = N
      <4>1. i \in 1 .. Len(rd) /\ a = rd[i] /\ a \in AReg
        BY <1>d, <1>e, <2>1, <3>2, ElementOfSeq
      <4>2. p = fRAT[a]
        BY <1>e, <2>1, <3>2, <4>1 DEF renameSources
      <4>3. MapsTo(N, a, p)
        BY <1>i, <1>r, <1>u, <4>1, <4>2 DEF SpeculativeMap
      <4> QED
        BY <1>m, <3>2, <4>1, <4>3
    <3> QED
      BY <1>n, <3>1, <3>2
  <2> QED
    BY <1>r, <2>1, TrueProducersNext
<1> QED
  BY <1>1, <1>2, <1>3, <1>4, <1>5, <1>6, <1>7, <1>8, <1>9 DEF IInv

-----------------------------------------------------------------------------
(* Changing the stage of an entry changes nothing else in the ROB. *)
LEMMA StageFacts ==
    ASSUME TypeOK, NEW n \in 1 .. Len(rob), NEW s \in InsStage,
           rob' = [rob EXCEPT ![n].stage = s]
    PROVE  /\ rob' \in Seq(Entry) /\ Len(rob') = Len(rob) /\ Len(rob) \in Nat
           /\ \A m \in 1 .. Len(rob) :
                /\ rob'[m].rd = rob[m].rd /\ rob'[m].src = rob[m].src
                /\ rob'[m].wr = rob[m].wr /\ rob'[m].dst = rob[m].dst
                /\ rob'[m].stage = IF m = n THEN s ELSE rob[m].stage
<1>1. rob \in Seq(Entry) /\ Len(rob) \in Nat
  BY DEF TypeOK
<1>2. rob[n] \in Entry
  BY RobEntry
<1> DEFINE e == [rob[n] EXCEPT !.stage = s]
<1>3. /\ e \in Entry
      /\ e.rd = rob[n].rd /\ e.src = rob[n].src
      /\ e.wr = rob[n].wr /\ e.dst = rob[n].dst /\ e.stage = s
  BY <1>2 DEF Entry
<1>4. rob' = [rob EXCEPT ![n] = e]
  OBVIOUS
<1> HIDE DEF e
<1>5. /\ rob' \in Seq(Entry) /\ Len(rob') = Len(rob)
      /\ \A m \in 1 .. Len(rob) : rob'[m] = IF m = n THEN e ELSE rob[m]
  <2>1. e \in Entry
    BY <1>3
  <2> QED
    BY <1>1, <1>4, <2>1, ExceptSeq
<1>6. ASSUME NEW m \in 1 .. Len(rob)
      PROVE  /\ rob'[m].rd = rob[m].rd /\ rob'[m].src = rob[m].src
             /\ rob'[m].wr = rob[m].wr /\ rob'[m].dst = rob[m].dst
             /\ rob'[m].stage = IF m = n THEN s ELSE rob[m].stage
  <2>1. CASE m = n
    BY <1>3, <1>5, <2>1
  <2>2. CASE m # n
    BY <1>5, <2>2
  <2> QED
    BY <2>1, <2>2
<1> QED
  BY <1>1, <1>5, <1>6

(* A step that changes stages only keeps every mapping.                    *)
LEMMA StageKeepsMaps ==
    ASSUME IInv, NEW n \in 1 .. Len(rob), NEW s \in InsStage,
           rob' = [rob EXCEPT ![n].stage = s],
           UNCHANGED <<fRAT, cRAT, prev, recovering>>
    PROVE  WellFormed' /\ SpeculativeMap' /\ UndoChain' /\ TrueProducers'
<1>i. TypeOK /\ WellFormed /\ SpeculativeMap /\ UndoChain /\ TrueProducers
  BY DEF IInv
<1>r. /\ Len(rob') = Len(rob) /\ Len(rob) \in Nat
      /\ \A m \in 1 .. Len(rob) :
           /\ rob'[m].rd = rob[m].rd /\ rob'[m].src = rob[m].src
           /\ rob'[m].wr = rob[m].wr /\ rob'[m].dst = rob[m].dst
  BY <1>i, StageFacts
<1>m. ASSUME NEW m \in 1 .. Len(rob) + 1, NEW a, NEW p, MapsTo(m, a, p)
      PROVE  MapsTo(m, a, p)'
  <2>1. m \in Nat \ {0}
    BY <1>r
  <2>2. \A o \in 1 .. m - 1 : rob'[o].wr = rob[o].wr /\ rob'[o].dst = rob[o].dst
    BY <1>r
  <2> QED
    BY <1>m, <2>1, <2>2, MapsToSame
<1>1. WellFormed'
  BY <1>i, <1>r DEF WellFormed
<1>2. SpeculativeMap'
  <2>1. CASE recovering
    BY <2>1 DEF SpeculativeMap
  <2>2. CASE ~recovering
    <3>1. ASSUME NEW a \in AReg, NEW m, NEW p, m = Len(rob') + 1, p = fRAT'[a]
          PROVE  MapsTo(m, a, p)'
      <4>1. MapsTo(m, a, p)
        BY <1>i, <1>r, <2>2, <3>1 DEF SpeculativeMap
      <4> QED
        BY <1>m, <1>r, <3>1, <4>1
    <3> QED
      BY <3>1, SpeculativeMapNext
  <2> QED
    BY <2>1, <2>2
<1>3. UndoChain'
  <2>1. ASSUME NEW o \in 1 .. Len(rob'), NEW i \in 1 .. Len(rob'[o].dst), NEW a, NEW p,
               a = rob'[o].wr[i], p = prev'[rob'[o].dst[i]]
        PROVE  MapsTo(o, a, p)'
    <3>1. MapsTo(o, a, p)
      BY <1>i, <1>r, <2>1 DEF UndoChain
    <3> QED
      BY <1>m, <1>r, <3>1
  <2> QED
    BY <2>1, UndoChainNext
<1>4. TrueProducers'
  <2>1. ASSUME NEW o \in 1 .. Len(rob'), NEW i \in 1 .. Len(rob'[o].src), NEW a, NEW p,
               a = rob'[o].rd[i], p = rob'[o].src[i]
        PROVE  MapsTo(o, a, p)'
    <3>1. MapsTo(o, a, p)
      BY <1>i, <1>r, <2>1 DEF TrueProducers
    <3> QED
      BY <1>m, <1>r, <3>1
  <2> QED
    BY <2>1, TrueProducersNext
<1> QED
  BY <1>1, <1>2, <1>3, <1>4

(* Issue preserves the invariant. *)
LEMMA IssuePreserves ==
    ASSUME IInv, NEW n \in 1 .. Len(rob), isReady(n)
    PROVE  IInv'
<1>i. TypeOK /\ RecoveringIsEmpty /\ FreeListExact /\ CommittedMapExact /\ InFlightExact
  BY DEF IInv
<1>u. /\ UNCHANGED <<fRAT, cRAT, regState, prev, avail, recovering, front>>
      /\ recovering = FALSE /\ rob[n].stage = "DISPATCH"
      /\ rob' = [rob EXCEPT ![n].stage = "ISSUE"]
  BY <1>i DEF isReady, regVars, TypeOK
<1>r. /\ rob' \in Seq(Entry) /\ Len(rob') = Len(rob) /\ Len(rob) \in Nat
      /\ \A m \in 1 .. Len(rob) :
           /\ rob'[m].dst = rob[m].dst
           /\ rob'[m].stage = IF m = n THEN "ISSUE" ELSE rob[m].stage
  BY <1>i, <1>u, StageFacts DEF InsStage
<1>1. TypeOK'
  BY <1>i, <1>r, <1>u DEF TypeOK
<1>2. RecoveringIsEmpty' /\ FreeListExact' /\ CommittedMapExact'
  BY <1>i, <1>u DEF RecoveringIsEmpty, FreeListExact, CommittedMapExact
<1>3. InFlightExact'
  <2>1. ASSUME NEW m \in 1 .. Len(rob'), NEW o \in 1 .. Len(rob'),
               NEW i \in 1 .. Len(rob'[m].dst), NEW j \in 1 .. Len(rob'[o].dst),
               rob'[m].dst[i] = rob'[o].dst[j]
        PROVE  m = o /\ i = j
    <3>1. /\ m \in 1 .. Len(rob) /\ o \in 1 .. Len(rob)
          /\ i \in 1 .. Len(rob[m].dst) /\ j \in 1 .. Len(rob[o].dst)
          /\ rob[m].dst[i] = rob[o].dst[j]
      BY <1>r, <2>1
    <3> QED
      BY <1>i, <3>1 DEF InFlightExact
  <2>2. ASSUME NEW m \in 1 .. Len(rob'), NEW i \in 1 .. Len(rob'[m].dst)
        PROVE  regState'[rob'[m].dst[i]] = IF rob'[m].stage = "COMPLETE"
                                           THEN "RENAMED_VALID"
                                           ELSE "RENAMED_INVALID"
    <3>1. /\ m \in 1 .. Len(rob) /\ i \in 1 .. Len(rob[m].dst)
          /\ rob'[m].dst[i] = rob[m].dst[i]
          /\ rob'[m].stage = "COMPLETE" <=> rob[m].stage = "COMPLETE"
      BY <1>r, <1>u, <2>2
    <3> QED
      BY <1>i, <1>u, <3>1 DEF InFlightExact
  <2>3. ASSUME NEW p \in PReg, regState'[p] \in {"RENAMED_VALID", "RENAMED_INVALID"}
        PROVE  \E m \in 1 .. Len(rob') : \E i \in 1 .. Len(rob'[m].dst) : rob'[m].dst[i] = p
    <3>1. PICK m \in 1 .. Len(rob) : \E i \in 1 .. Len(rob[m].dst) : rob[m].dst[i] = p
      BY <1>i, <1>u, <2>3 DEF InFlightExact
    <3> QED
      BY <1>r, <3>1
  <2> QED
    BY <2>1, <2>2, <2>3 DEF InFlightExact
<1>4. WellFormed' /\ SpeculativeMap' /\ UndoChain' /\ TrueProducers'
  BY <1>u, StageKeepsMaps DEF InsStage
<1> QED
  BY <1>1, <1>2, <1>3, <1>4 DEF IInv

(* Writing a result preserves the invariant. *)
LEMMA CompletePreserves ==
    ASSUME IInv, NEW n \in 1 .. Len(rob), completeRegs(n)
    PROVE  IInv'
<1>i. TypeOK /\ RecoveringIsEmpty /\ FreeListExact /\ CommittedMapExact /\ InFlightExact
  BY DEF IInv
<1>u. /\ UNCHANGED <<fRAT, cRAT, prev, avail, recovering, front>>
      /\ recovering = FALSE /\ rob[n].stage = "ISSUE"
      /\ rob' = [rob EXCEPT ![n].stage = "COMPLETE"]
      /\ regState' = updatePRstate(rob[n].dst, "RENAMED_VALID")
  BY <1>i DEF completeRegs, TypeOK
<1>r. /\ rob' \in Seq(Entry) /\ Len(rob') = Len(rob) /\ Len(rob) \in Nat
      /\ \A m \in 1 .. Len(rob) :
           /\ rob'[m].dst = rob[m].dst
           /\ rob'[m].stage = IF m = n THEN "COMPLETE" ELSE rob[m].stage
  BY <1>i, <1>u, StageFacts DEF InsStage
<1>s. /\ \A i \in 1 .. Len(rob[n].dst) : /\ rob[n].dst[i] \in PReg
                                         /\ regState'[rob[n].dst[i]] = "RENAMED_VALID"
                                         /\ regState[rob[n].dst[i]] = "RENAMED_INVALID"
      /\ \A p \in PReg : (\A i \in 1 .. Len(rob[n].dst) : rob[n].dst[i] # p) =>
           regState'[p] = regState[p]
  <2>1. \A i \in 1 .. Len(rob[n].dst) : rob[n].dst[i] \in PReg
    BY <1>i, RobEntry
  <2>2. \A i \in 1 .. Len(rob[n].dst) : regState[rob[n].dst[i]] = "RENAMED_INVALID"
    BY <1>i, <1>u DEF InFlightExact
  <2> QED
    BY <1>u, <2>1, <2>2 DEF updatePRstate
<1>t. \A p \in PReg : \/ regState'[p] = regState[p]
                      \/ regState'[p] = "RENAMED_VALID" /\ regState[p] = "RENAMED_INVALID"
  BY <1>s
<1>1. TypeOK'
  <2>1. regState' \in [PReg -> RegState]
    BY <1>i, <1>u DEF TypeOK, updatePRstate, RegState
  <2> QED
    BY <1>i, <1>r, <1>u, <2>1 DEF TypeOK
<1>2. RecoveringIsEmpty'
  BY <1>u DEF RecoveringIsEmpty
<1>3. FreeListExact' /\ CommittedMapExact'
  <2>1. \A p \in PReg : /\ regState'[p] = "AVAILABLE" <=> regState[p] = "AVAILABLE"
                        /\ regState'[p] = "ARCH_REG" <=> regState[p] = "ARCH_REG"
    BY <1>t
  <2>2. FreeListExact'
    BY <1>i, <1>u, <2>1 DEF FreeListExact
  <2>3. CommittedMapExact'
    BY <1>i, <1>u, <2>1 DEF CommittedMapExact
  <2> QED
    BY <2>2, <2>3
<1>4. InFlightExact'
  <2>1. ASSUME NEW m \in 1 .. Len(rob'), NEW o \in 1 .. Len(rob'),
               NEW i \in 1 .. Len(rob'[m].dst), NEW j \in 1 .. Len(rob'[o].dst),
               rob'[m].dst[i] = rob'[o].dst[j]
        PROVE  m = o /\ i = j
    <3>1. /\ m \in 1 .. Len(rob) /\ o \in 1 .. Len(rob)
          /\ i \in 1 .. Len(rob[m].dst) /\ j \in 1 .. Len(rob[o].dst)
          /\ rob[m].dst[i] = rob[o].dst[j]
      BY <1>r, <2>1
    <3> QED
      BY <1>i, <3>1 DEF InFlightExact
  <2>2. ASSUME NEW m \in 1 .. Len(rob'), NEW i \in 1 .. Len(rob'[m].dst)
        PROVE  regState'[rob'[m].dst[i]] = IF rob'[m].stage = "COMPLETE"
                                           THEN "RENAMED_VALID"
                                           ELSE "RENAMED_INVALID"
    <3>1. CASE m = n
      BY <1>r, <1>s, <3>1
    <3>2. CASE m # n
      <4>1. /\ i \in 1 .. Len(rob[m].dst) /\ rob[m].dst[i] \in PReg
            /\ \A j \in 1 .. Len(rob[n].dst) : rob[n].dst[j] # rob[m].dst[i]
        BY <1>i, <1>r, <3>2, RobEntry DEF InFlightExact
      <4>2. regState'[rob[m].dst[i]] = regState[rob[m].dst[i]]
        BY <1>s, <4>1
      <4> QED
        BY <1>i, <1>r, <3>2, <4>1, <4>2 DEF InFlightExact
    <3> QED
      BY <3>1, <3>2
  <2>3. ASSUME NEW p \in PReg, regState'[p] \in {"RENAMED_VALID", "RENAMED_INVALID"}
        PROVE  \E m \in 1 .. Len(rob') : \E i \in 1 .. Len(rob'[m].dst) : rob'[m].dst[i] = p
    <3>1. regState[p] \in {"RENAMED_VALID", "RENAMED_INVALID"}
      BY <1>t, <2>3
    <3>2. PICK m \in 1 .. Len(rob) : \E i \in 1 .. Len(rob[m].dst) : rob[m].dst[i] = p
      BY <1>i, <1>u, <3>1 DEF InFlightExact
    <3> QED
      BY <1>r, <3>2
  <2> QED
    BY <2>1, <2>2, <2>3 DEF InFlightExact
<1>5. WellFormed' /\ SpeculativeMap' /\ UndoChain' /\ TrueProducers'
  BY <1>u, StageKeepsMaps DEF InsStage
<1> QED
  BY <1>1, <1>2, <1>3, <1>4, <1>5 DEF IInv

(* What a commit does to the states and links of the registers. *)
LEMMA CommitStates ==
    ASSUME TypeOK, WellFormed, CommittedMapExact, InFlightExact, UndoChain,
           commitRegs
    PROVE  LET old == getPrevPR(rob[1].dst) IN
           /\ \A i \in 1 .. Len(rob[1].wr) :
                /\ old[i] \in PReg /\ regState[old[i]] = "ARCH_REG"
                /\ regState'[old[i]] = "AVAILABLE"
           /\ \A i \in 1 .. Len(rob[1].wr) :
                /\ regState[rob[1].dst[i]] = "RENAMED_VALID"
                /\ regState'[rob[1].dst[i]] = "ARCH_REG"
           /\ \A i, j \in 1 .. Len(rob[1].wr) : old[i] = old[j] => i = j
           /\ \A p \in PReg :
                (\A i \in 1 .. Len(rob[1].wr) : old[i] # p) => prev'[p] = prev[p]
           /\ \A p \in PReg :
                (\A i \in 1 .. Len(rob[1].wr) : old[i] # p /\ rob[1].dst[i] # p) =>
                  regState'[p] = regState[p]
           /\ prev' \in [PReg -> PReg \cup {NoPR}]
           /\ regState' \in [PReg -> RegState]
<1> DEFINE old == getPrevPR(rob[1].dst)
<1>1. /\ old \in Seq(PReg) /\ Len(old) = Len(rob[1].wr)
      /\ Len(rob[1].dst) = Len(rob[1].wr)
      /\ Distinct(rob[1].wr)
      /\ \A i \in 1 .. Len(rob[1].wr) :
           /\ rob[1].wr[i] \in AReg /\ rob[1].dst[i] \in PReg
           /\ old[i] = cRAT[rob[1].wr[i]]
  BY CommitFrees
<1>2. 1 \in 1 .. Len(rob)
  BY CommitFacts
<1>3. /\ regState' = [p \in PReg |->
                        IF \E i \in 1 .. Len(old) : old[i] = p THEN "AVAILABLE"
                        ELSE updatePRstate(rob[1].dst, "ARCH_REG")[p]]
      /\ prev' = [p \in PReg |-> IF \E i \in 1 .. Len(old) : old[i] = p
                                 THEN NoPR ELSE prev[p]]
      /\ rob[1].stage = "COMPLETE"
  BY DEF commitRegs
<1> HIDE DEF old
<1>4. \A i \in 1 .. Len(rob[1].wr) : old[i] \in PReg /\ regState[old[i]] = "ARCH_REG"
  BY <1>1, ElementOfSeq DEF CommittedMapExact
<1>5. \A i \in 1 .. Len(rob[1].wr) : regState[rob[1].dst[i]] = "RENAMED_VALID"
  BY <1>1, <1>2, <1>3 DEF InFlightExact
<1>6. \A i \in 1 .. Len(rob[1].wr) : regState'[old[i]] = "AVAILABLE"
  BY <1>1, <1>3, <1>4
<1>7. ASSUME NEW i \in 1 .. Len(rob[1].wr)
      PROVE  regState'[rob[1].dst[i]] = "ARCH_REG"
  <2>1. \A j \in 1 .. Len(rob[1].wr) : old[j] # rob[1].dst[i]
    BY <1>4, <1>5
  <2> QED
    BY <1>1, <1>3, <2>1 DEF updatePRstate
<1>8. \A i, j \in 1 .. Len(rob[1].wr) : old[i] = old[j] => i = j
  BY <1>1 DEF CommittedMapExact, Distinct
<1>9. \A p \in PReg :
        (\A i \in 1 .. Len(rob[1].wr) : old[i] # p) => prev'[p] = prev[p]
  BY <1>1, <1>3
<1>10. \A p \in PReg :
         (\A i \in 1 .. Len(rob[1].wr) : old[i] # p /\ rob[1].dst[i] # p) =>
           regState'[p] = regState[p]
  BY <1>1, <1>3 DEF updatePRstate
<1>11. prev' \in [PReg -> PReg \cup {NoPR}]
  BY <1>3 DEF TypeOK
<1>12. regState' \in [PReg -> RegState]
  BY <1>3 DEF TypeOK, updatePRstate, RegState
<1> QED
  BY <1>4, <1>5, <1>6, <1>7, <1>8, <1>9, <1>10, <1>11, <1>12 DEF old

(* Commit preserves the invariant. *)
LEMMA CommitPreserves ==
    ASSUME IInv, commitRegs
    PROVE  IInv'
<1>i. TypeOK /\ WellFormed /\ FreeListExact /\ CommittedMapExact /\ InFlightExact
      /\ SpeculativeMap /\ UndoChain /\ TrueProducers
  BY DEF IInv
<1> DEFINE wr == rob[1].wr
           dst == rob[1].dst
           old == getPrevPR(rob[1].dst)
<1>f. /\ old \in Seq(PReg) /\ Len(old) = Len(wr) /\ Len(dst) = Len(wr)
      /\ Distinct(wr)
      /\ \A i \in 1 .. Len(wr) : /\ wr[i] \in AReg /\ dst[i] \in PReg
                                 /\ old[i] = cRAT[wr[i]]
  BY <1>i, CommitFrees
<1>s. /\ \A i \in 1 .. Len(wr) : /\ old[i] \in PReg /\ regState[old[i]] = "ARCH_REG"
                                 /\ regState'[old[i]] = "AVAILABLE"
      /\ \A i \in 1 .. Len(wr) : /\ regState[dst[i]] = "RENAMED_VALID"
                                 /\ regState'[dst[i]] = "ARCH_REG"
      /\ \A i, j \in 1 .. Len(wr) : old[i] = old[j] => i = j
      /\ \A p \in PReg : (\A i \in 1 .. Len(wr) : old[i] # p) => prev'[p] = prev[p]
      /\ \A p \in PReg : (\A i \in 1 .. Len(wr) : old[i] # p /\ dst[i] # p) =>
           regState'[p] = regState[p]
      /\ prev' \in [PReg -> PReg \cup {NoPR}]
      /\ regState' \in [PReg -> RegState]
  BY <1>i, CommitStates
<1>r. /\ Len(rob) \in Nat \ {0}
      /\ rob' \in Seq(Entry)
      /\ Len(rob') = Len(rob) - 1
      /\ \A n \in 1 .. Len(rob) - 1 : rob'[n] = rob[n + 1]
      /\ \A i \in 1 .. Len(wr) : cRAT'[wr[i]] = dst[i]
      /\ \A a \in AReg : ~Writes(1, a) => cRAT'[a] = cRAT[a]
  BY <1>i, CommitFacts
<1>u. /\ UNCHANGED <<fRAT, recovering, front>> /\ recovering = FALSE
      /\ avail' = avail \o old
      /\ cRAT' = update_cRAT(wr, dst)
  BY <1>i DEF commitRegs, TypeOK
<1>w. \A a \in AReg : (\A i \in 1 .. Len(wr) : wr[i] # a) => cRAT'[a] = cRAT[a]
  BY <1>r DEF Writes
<1> HIDE DEF wr, dst, old
(* Every register keeps its state, is freed, or becomes committed. *)
<1>c. \A p \in PReg :
        \/ regState'[p] = regState[p]
           /\ \A i \in 1 .. Len(wr) : old[i] # p /\ dst[i] # p
        \/ regState[p] = "ARCH_REG" /\ regState'[p] = "AVAILABLE"
           /\ \E i \in 1 .. Len(wr) : old[i] = p
        \/ regState[p] = "RENAMED_VALID" /\ regState'[p] = "ARCH_REG"
           /\ \E i \in 1 .. Len(wr) : dst[i] = p
  BY <1>s
(* The destinations of the younger instructions are untouched. *)
<1>y. ASSUME NEW n \in 1 .. Len(rob'), NEW i \in 1 .. Len(rob'[n].dst)
      PROVE  /\ n + 1 \in 1 .. Len(rob) /\ n + 1 # 1 /\ rob'[n] = rob[n + 1]
             /\ rob'[n].dst[i] \in PReg
             /\ regState'[rob'[n].dst[i]] = regState[rob'[n].dst[i]]
             /\ prev'[rob'[n].dst[i]] = prev[rob'[n].dst[i]]
  <2>1. n + 1 \in 1 .. Len(rob) /\ n + 1 # 1 /\ 1 \in 1 .. Len(rob)
        /\ rob'[n] = rob[n + 1]
    BY <1>r
  <2> DEFINE p == rob[n + 1].dst[i]
  <2>2. p \in PReg
    BY <1>i, <1>y, <2>1, RobEntry
  <2>3. \A j \in 1 .. Len(wr) : dst[j] # p
    BY <1>f, <1>i, <1>y, <2>1 DEF InFlightExact, dst
  <2>4. regState[p] \in {"RENAMED_VALID", "RENAMED_INVALID"}
    BY <1>i, <1>y, <2>1 DEF InFlightExact
  <2>5. \A j \in 1 .. Len(wr) : old[j] # p
    BY <1>s, <2>4
  <2> QED
    BY <1>s, <2>1, <2>2, <2>3, <2>5
<1>1. TypeOK'
  <2>1. avail' \in Seq(PReg)
    BY <1>f, <1>i, <1>u, ConcatProperties DEF TypeOK
  <2>2. cRAT' \in [AReg -> PReg]
    <3>1. \A a \in AReg : cRAT'[a] \in PReg
      <4> SUFFICES ASSUME NEW a \in AReg PROVE cRAT'[a] \in PReg
        OBVIOUS
      <4>1. CASE \A i \in 1 .. Len(wr) : wr[i] # a
        BY <1>i, <1>w, <4>1 DEF TypeOK
      <4>2. CASE \E i \in 1 .. Len(wr) : wr[i] = a
        BY <1>f, <1>r, <4>2
      <4> QED
        BY <4>1, <4>2
    <3> QED
      BY <1>u, <3>1 DEF update_cRAT
  <2> QED
    BY <1>i, <1>r, <1>s, <1>u, <2>1, <2>2 DEF TypeOK
<1>2. WellFormed'
  <2>1. \A n \in 1 .. Len(rob') : n + 1 \in 1 .. Len(rob) /\ rob'[n] = rob[n + 1]
    BY <1>r
  <2> QED
    BY <1>i, <2>1 DEF WellFormed
<1>3. RecoveringIsEmpty'
  BY <1>u DEF RecoveringIsEmpty
<1>4. FreeListExact'
  <2>0. Len(avail) \in Nat /\ Len(old) \in Nat /\ avail \in Seq(PReg)
    BY <1>f, <1>i DEF TypeOK
  <2>1. /\ Len(avail') = Len(avail) + Len(old)
        /\ \A i \in 1 .. Len(avail') :
             avail'[i] = IF i <= Len(avail) THEN avail[i] ELSE old[i - Len(avail)]
    <3>1. /\ Len(avail \o old) = Len(avail) + Len(old)
          /\ \A i \in 1 .. Len(avail) + Len(old) :
               (avail \o old)[i] = IF i <= Len(avail) THEN avail[i]
                                  ELSE old[i - Len(avail)]
      <4>1. avail \in Seq(PReg) /\ old \in Seq(PReg)
        BY <1>f, <2>0
      <4> QED
        BY <4>1, ConcatProperties
    <3> QED
      BY <1>u, <3>1
  <2>2. \A i \in 1 .. Len(avail) : avail[i] \in PReg /\ regState[avail[i]] = "AVAILABLE"
    BY <1>i, <2>0, ElementOfSeq DEF FreeListExact
  <2>3. \A i \in 1 .. Len(avail') :
          \/ i \in 1 .. Len(avail) /\ avail'[i] = avail[i]
          \/ i - Len(avail) \in 1 .. Len(old) /\ avail'[i] = old[i - Len(avail)]
             /\ ~(i <= Len(avail))
    BY <2>0, <2>1
  <2>4. ASSUME NEW i \in 1 .. Len(avail'), NEW j \in 1 .. Len(avail'),
               avail'[i] = avail'[j]
        PROVE  i = j
    <3>1. CASE i <= Len(avail) /\ j <= Len(avail)
      <4>1. i \in 1 .. Len(avail) /\ j \in 1 .. Len(avail) /\ avail[i] = avail[j]
        BY <2>0, <2>3, <2>4, <3>1
      <4> QED
        BY <1>i, <4>1 DEF FreeListExact
    <3>2. CASE ~(i <= Len(avail)) /\ ~(j <= Len(avail))
      <4>2. /\ i - Len(avail) \in 1 .. Len(wr) /\ avail'[i] = old[i - Len(avail)]
            /\ j - Len(avail) \in 1 .. Len(wr) /\ avail'[j] = old[j - Len(avail)]
        BY <1>f, <2>0, <2>3, <3>2
      <4>3. old[i - Len(avail)] = old[j - Len(avail)]
        BY <2>4, <4>2
      <4>1. i - Len(avail) = j - Len(avail)
        BY <1>s, <4>2, <4>3
      <4>4. i \in Int /\ j \in Int
        OBVIOUS
      <4> QED
        BY <2>0, <4>1, <4>4
    <3>3. CASE i <= Len(avail) /\ ~(j <= Len(avail))
      <4>1. avail'[i] = avail[i] /\ i \in 1 .. Len(avail)
        BY <2>0, <2>3, <3>3
      <4>2. avail'[j] = old[j - Len(avail)] /\ j - Len(avail) \in 1 .. Len(wr)
        BY <1>f, <2>0, <2>3, <3>3
      <4> QED
        <5>1. regState[avail'[i]] = "AVAILABLE"
          BY <2>2, <4>1
        <5>2. regState[avail'[j]] = "ARCH_REG"
          BY <1>s, <4>2
        <5> QED
          BY <2>4, <5>1, <5>2
    <3>4. CASE ~(i <= Len(avail)) /\ j <= Len(avail)
      <4>1. avail'[j] = avail[j] /\ j \in 1 .. Len(avail)
        BY <2>0, <2>3, <3>4
      <4>2. avail'[i] = old[i - Len(avail)] /\ i - Len(avail) \in 1 .. Len(wr)
        BY <1>f, <2>0, <2>3, <3>4
      <4> QED
        <5>1. regState[avail'[j]] = "AVAILABLE"
          BY <2>2, <4>1
        <5>2. regState[avail'[i]] = "ARCH_REG"
          BY <1>s, <4>2
        <5> QED
          BY <2>4, <5>1, <5>2
    <3> QED
      BY <3>1, <3>2, <3>3, <3>4
  <2>5. ASSUME NEW p \in PReg, regState'[p] = "AVAILABLE"
        PROVE  \E i \in 1 .. Len(avail') : avail'[i] = p
    <3>1. CASE regState[p] = "AVAILABLE"
      <4>1. PICK i \in 1 .. Len(avail) : avail[i] = p
        BY <1>i, <3>1 DEF FreeListExact
      <4>2. i \in 1 .. Len(avail') /\ avail'[i] = p
        BY <2>0, <2>1, <4>1
      <4> QED
        BY <4>2
    <3>2. CASE \E i \in 1 .. Len(wr) : old[i] = p
      <4>1. PICK i \in 1 .. Len(old) : old[i] = p
        BY <1>f, <3>2
      <4> DEFINE j == Len(avail) + i
      <4>2. j \in 1 .. Len(avail') /\ ~(j <= Len(avail)) /\ j - Len(avail) = i
        BY <2>0, <2>1
      <4>3. avail'[j] = p
        BY <2>1, <4>1, <4>2
      <4> QED
        BY <4>2, <4>3
    <3> QED
      BY <1>c, <2>5, <3>1, <3>2
  <2>6. ASSUME NEW i \in 1 .. Len(avail')
        PROVE  regState'[avail'[i]] = "AVAILABLE"
    <3>1. CASE i \in 1 .. Len(avail) /\ avail'[i] = avail[i]
      BY <1>c, <2>2, <3>1
    <3>2. CASE i - Len(avail) \in 1 .. Len(old) /\ avail'[i] = old[i - Len(avail)]
      BY <1>f, <1>s, <3>2
    <3> QED
      BY <2>3, <3>1, <3>2
  <2> QED
    BY <2>4, <2>5, <2>6 DEF FreeListExact
<1>5. CommittedMapExact'
  <2>1. \A a \in AReg :
          \/ \E i \in 1 .. Len(wr) : wr[i] = a /\ cRAT'[a] = dst[i]
          \/ (\A i \in 1 .. Len(wr) : wr[i] # a) /\ cRAT'[a] = cRAT[a]
    BY <1>r, <1>w
  <2>2. \A a \in AReg : cRAT[a] \in PReg /\ regState[cRAT[a]] = "ARCH_REG"
    BY <1>i DEF CommittedMapExact, TypeOK
  <2>d. \A i \in 1 .. Len(wr) : \A a \in AReg : dst[i] # cRAT[a]
    BY <1>s, <2>2
  <2>3. \A i, j \in 1 .. Len(wr) : dst[i] = dst[j] => i = j
    <3>1. 1 \in 1 .. Len(rob)
      BY <1>r
    <3> QED
      BY <1>f, <1>i, <3>1 DEF InFlightExact, dst
  <2>4. ASSUME NEW a \in AReg, NEW b \in AReg, cRAT'[a] = cRAT'[b]
        PROVE  a = b
    <3>0. /\ \/ \E i \in 1 .. Len(wr) : wr[i] = a /\ cRAT'[a] = dst[i]
             \/ (\A i \in 1 .. Len(wr) : wr[i] # a) /\ cRAT'[a] = cRAT[a]
          /\ \/ \E i \in 1 .. Len(wr) : wr[i] = b /\ cRAT'[b] = dst[i]
             \/ (\A i \in 1 .. Len(wr) : wr[i] # b) /\ cRAT'[b] = cRAT[b]
      BY <2>1
    <3>1. CASE cRAT'[a] = cRAT[a] /\ cRAT'[b] = cRAT[b]
      BY <1>i, <2>4, <3>1 DEF CommittedMapExact
    <3>2. CASE (\E i \in 1 .. Len(wr) : wr[i] = a /\ cRAT'[a] = dst[i])
            /\ (\E i \in 1 .. Len(wr) : wr[i] = b /\ cRAT'[b] = dst[i])
      <4>1. PICK i \in 1 .. Len(wr) : wr[i] = a /\ cRAT'[a] = dst[i]
        BY <3>2
      <4>2. PICK j \in 1 .. Len(wr) : wr[j] = b /\ cRAT'[b] = dst[j]
        BY <3>2
      <4>3. dst[i] = dst[j]
        BY <2>4, <4>1, <4>2
      <4>4. i = j
        BY <2>3, <4>3
      <4> QED
        BY <4>1, <4>2, <4>4
    <3>3. CASE (\E i \in 1 .. Len(wr) : wr[i] = a /\ cRAT'[a] = dst[i])
            /\ cRAT'[b] = cRAT[b]
      BY <2>d, <2>4, <3>3
    <3>4. CASE cRAT'[a] = cRAT[a]
            /\ (\E i \in 1 .. Len(wr) : wr[i] = b /\ cRAT'[b] = dst[i])
      BY <2>d, <2>4, <3>4
    <3> QED
      BY <3>0, <3>1, <3>2, <3>3, <3>4
  <2>5. ASSUME NEW p \in PReg, regState'[p] = "ARCH_REG"
        PROVE  \E a \in AReg : cRAT'[a] = p
    <3>1. CASE \E i \in 1 .. Len(wr) : dst[i] = p
      <4>1. PICK i \in 1 .. Len(wr) : dst[i] = p
        BY <3>1
      <4>2. wr[i] \in AReg /\ cRAT'[wr[i]] = p
        BY <1>f, <1>r, <4>1
      <4> QED
        BY <4>2
    <3>2. CASE regState[p] = "ARCH_REG" /\ \A i \in 1 .. Len(wr) : old[i] # p
      <4>1. PICK a \in AReg : cRAT[a] = p
        BY <1>i, <3>2 DEF CommittedMapExact
      <4>2. \A i \in 1 .. Len(wr) : wr[i] # a
        BY <1>f, <3>2, <4>1
      <4> QED
        BY <1>w, <4>1, <4>2
    <3> QED
      BY <1>c, <2>5, <3>1, <3>2
  <2>6. ASSUME NEW a \in AReg
        PROVE  regState'[cRAT'[a]] = "ARCH_REG"
    <3>1. CASE (\A i \in 1 .. Len(wr) : wr[i] # a) /\ cRAT'[a] = cRAT[a]
      <4>1. \A i \in 1 .. Len(wr) : old[i] # cRAT[a]
        BY <1>f, <1>i, <3>1 DEF CommittedMapExact
      <4> QED
        BY <1>c, <2>2, <3>1, <4>1
    <3>2. CASE \E i \in 1 .. Len(wr) : wr[i] = a /\ cRAT'[a] = dst[i]
      BY <1>s, <3>2
    <3> QED
      BY <2>1, <3>1, <3>2
  <2> QED
    BY <2>4, <2>5, <2>6 DEF CommittedMapExact
<1>6. InFlightExact'
  <2>1. ASSUME NEW n \in 1 .. Len(rob'), NEW m \in 1 .. Len(rob'),
               NEW i \in 1 .. Len(rob'[n].dst), NEW j \in 1 .. Len(rob'[m].dst),
               rob'[n].dst[i] = rob'[m].dst[j]
        PROVE  n = m /\ i = j
    <3>1. /\ n + 1 \in 1 .. Len(rob) /\ m + 1 \in 1 .. Len(rob)
          /\ rob'[n] = rob[n + 1] /\ rob'[m] = rob[m + 1]
      BY <1>y
    <3>2. /\ i \in 1 .. Len(rob[n + 1].dst) /\ j \in 1 .. Len(rob[m + 1].dst)
          /\ rob[n + 1].dst[i] = rob[m + 1].dst[j]
      BY <2>1, <3>1
    <3>3. n + 1 = m + 1 /\ i = j
      BY <1>i, <3>1, <3>2 DEF InFlightExact
    <3> QED
      BY <1>r, <3>3
  <2>2. ASSUME NEW n \in 1 .. Len(rob'), NEW i \in 1 .. Len(rob'[n].dst)
        PROVE  regState'[rob'[n].dst[i]] = IF rob'[n].stage = "COMPLETE"
                                           THEN "RENAMED_VALID"
                                           ELSE "RENAMED_INVALID"
    <3>1. /\ n + 1 \in 1 .. Len(rob) /\ rob'[n] = rob[n + 1]
          /\ regState'[rob'[n].dst[i]] = regState[rob'[n].dst[i]]
      BY <1>y
    <3> QED
      BY <1>i, <2>2, <3>1 DEF InFlightExact
  <2>3. ASSUME NEW p \in PReg, regState'[p] \in {"RENAMED_VALID", "RENAMED_INVALID"}
        PROVE  \E n \in 1 .. Len(rob') : \E i \in 1 .. Len(rob'[n].dst) : rob'[n].dst[i] = p
    <3>1. regState[p] = regState'[p] /\ \A i \in 1 .. Len(wr) : dst[i] # p
      BY <1>c, <2>3
    <3>2. PICK n \in 1 .. Len(rob) : \E i \in 1 .. Len(rob[n].dst) : rob[n].dst[i] = p
      BY <1>i, <1>u, <2>3, <3>1 DEF InFlightExact
    <3>3. n # 1
      BY <1>f, <3>1, <3>2 DEF dst
    <3>4. n - 1 \in 1 .. Len(rob') /\ rob'[n - 1] = rob[n]
      BY <1>r, <3>3
    <3> QED
      BY <3>2, <3>4
  <2> QED
    BY <2>1, <2>2, <2>3 DEF InFlightExact
<1>m. ASSUME NEW m \in 1 .. Len(rob), NEW a \in AReg, NEW p, MapsTo(m + 1, a, p)
      PROVE  MapsTo(m, a, p)'
  BY <1>i, <1>m, MapsToCommit
<1>7. SpeculativeMap'
  <2>1. ASSUME NEW a \in AReg, NEW m, NEW p, m = Len(rob') + 1, p = fRAT'[a]
        PROVE  MapsTo(m, a, p)'
    <3>1. m = Len(rob) /\ m \in 1 .. Len(rob)
      BY <1>r, <2>1
    <3>2. MapsTo(m + 1, a, p)
      BY <1>i, <1>u, <2>1, <3>1 DEF SpeculativeMap
    <3> QED
      BY <1>m, <3>1, <3>2
  <2> QED
    BY <2>1, SpeculativeMapNext
<1>8. UndoChain'
  <2>1. ASSUME NEW n \in 1 .. Len(rob'), NEW i \in 1 .. Len(rob'[n].dst), NEW a, NEW p,
               a = rob'[n].wr[i], p = prev'[rob'[n].dst[i]]
        PROVE  MapsTo(n, a, p)'
    <3>1. n \in 1 .. Len(rob) /\ n + 1 \in 1 .. Len(rob) /\ rob'[n] = rob[n + 1]
      BY <1>r
    <3>2. p = prev[rob[n + 1].dst[i]]
      BY <1>y, <2>1, <3>1
    <3>3. a \in AReg
      <4>1. i \in 1 .. Len(rob[n + 1].wr)
        BY <1>i, <2>1, <3>1 DEF WellFormed
      <4> QED
        BY <1>i, <2>1, <3>1, <4>1, RobEntry
    <3>4. MapsTo(n + 1, a, p)
      BY <1>i, <2>1, <3>1, <3>2 DEF UndoChain
    <3> QED
      BY <1>m, <3>1, <3>3, <3>4
  <2> QED
    BY <2>1, UndoChainNext
<1>9. TrueProducers'
  <2>1. ASSUME NEW n \in 1 .. Len(rob'), NEW i \in 1 .. Len(rob'[n].src), NEW a, NEW p,
               a = rob'[n].rd[i], p = rob'[n].src[i]
        PROVE  MapsTo(n, a, p)'
    <3>1. n \in 1 .. Len(rob) /\ n + 1 \in 1 .. Len(rob) /\ rob'[n] = rob[n + 1]
      BY <1>r
    <3>2. a \in AReg
      <4>1. i \in 1 .. Len(rob[n + 1].rd)
        BY <1>i, <2>1, <3>1 DEF WellFormed
      <4> QED
        BY <1>i, <2>1, <3>1, <4>1, RobEntry
    <3>3. MapsTo(n + 1, a, p)
      BY <1>i, <2>1, <3>1 DEF TrueProducers
    <3> QED
      BY <1>m, <3>1, <3>2, <3>3
  <2> QED
    BY <2>1, TrueProducersNext
<1> QED
  BY <1>1, <1>2, <1>3, <1>4, <1>5, <1>6, <1>7, <1>8, <1>9 DEF IInv

-----------------------------------------------------------------------------
(* Emptying the ROB preserves the invariant. *)
LEMMA SquashPreserves ==
    ASSUME IInv, squashROB
    PROVE  IInv'
<1>i. TypeOK /\ FreeListExact /\ CommittedMapExact
  BY DEF IInv
<1>u. /\ UNCHANGED <<fRAT, cRAT, regState, prev, avail>>
      /\ rob' = << >> /\ recovering' = TRUE /\ front' \in WriteLists
  BY DEF squashROB, regVars
<1>r. rob' \in Seq(Entry) /\ 1 .. Len(rob') = {}
  BY <1>u
<1>1. TypeOK'
  BY <1>i, <1>r, <1>u DEF TypeOK
<1>2. RecoveringIsEmpty'
  BY <1>u DEF RecoveringIsEmpty
<1>3. FreeListExact' /\ CommittedMapExact'
  BY <1>i, <1>u DEF FreeListExact, CommittedMapExact
<1>4. WellFormed' /\ InFlightExact' /\ UndoChain' /\ TrueProducers'
  BY <1>r, <1>u DEF WellFormed, InFlightExact, UndoChain, TrueProducers
<1>5. SpeculativeMap'
  BY <1>u DEF SpeculativeMap
<1> QED
  BY <1>1, <1>2, <1>3, <1>4, <1>5 DEF IInv

(* Restoring the tables preserves the invariant. *)
LEMMA RecoverPreserves ==
    ASSUME IInv, squashRenameReg
    PROVE  IInv'
<1>i. TypeOK /\ RecoveringIsEmpty /\ CommittedMapExact
  BY DEF IInv
<1> DEFINE arch == {cRAT[a] : a \in AReg}
           free == PReg \ arch
<1>u. /\ UNCHANGED <<cRAT, rob, front>>
      /\ recovering = TRUE /\ recovering' = FALSE
      /\ fRAT' = cRAT
      /\ regState' = [p \in PReg |-> IF p \in arch THEN "ARCH_REG" ELSE "AVAILABLE"]
      /\ prev' = [p \in PReg |-> NoPR]
      /\ avail' = Ascending(free)
  BY <1>i DEF squashRenameReg, TypeOK
<1>r. rob' = << >> /\ 1 .. Len(rob') = {} /\ Len(rob') = 0
  BY <1>i, <1>u DEF RecoveringIsEmpty
<1>e. /\ avail' \in Seq(free)
      /\ \A i, j \in 1 .. Len(avail') : avail'[i] = avail'[j] => i = j
      /\ \A p \in free : \E i \in 1 .. Len(avail') : avail'[i] = p
  <2>1. NumPR \in Nat /\ free \in SUBSET (1 .. NumPR)
    BY SizesAssumption DEF PReg
  <2> HIDE DEF free
  <2>2. avail' \in Seq(free) /\ Distinct(avail') /\ Elements(avail') = free
    BY <1>u, <2>1, AscendingEnumerates
  <2> QED
    BY <2>2 DEF Distinct, Elements
<1>1. TypeOK'
  <2>1. avail' \in Seq(PReg)
    BY <1>e
  <2> QED
    BY <1>i, <1>u, <2>1 DEF TypeOK, RegState
<1>2. RecoveringIsEmpty'
  BY <1>u DEF RecoveringIsEmpty
<1>3. FreeListExact'
  <2>1. \A i \in 1 .. Len(avail') : avail'[i] \in free
    BY <1>e, ElementOfSeq
  <2>2. \A p \in PReg : regState'[p] = "AVAILABLE" <=> p \in free
    BY <1>u
  <2> HIDE DEF free
  <2>3. \A p \in PReg :
          regState'[p] = "AVAILABLE" <=> \E i \in 1 .. Len(avail') : avail'[i] = p
    BY <1>e, <2>1, <2>2
  <2> QED
    BY <1>e, <2>3 DEF FreeListExact
<1>4. CommittedMapExact'
  <2>1. \A p \in PReg : regState'[p] = "ARCH_REG" <=> p \in arch
    BY <1>u
  <2> QED
    BY <1>i, <1>u, <2>1 DEF CommittedMapExact
<1>5. WellFormed' /\ UndoChain' /\ TrueProducers'
  BY <1>r DEF WellFormed, UndoChain, TrueProducers
<1>6. InFlightExact'
  BY <1>r, <1>u DEF InFlightExact
<1>7. SpeculativeMap'
  <2>1. ASSUME NEW a \in AReg, NEW m, NEW p, m = Len(rob') + 1, p = fRAT'[a]
        PROVE  MapsTo(m, a, p)'
    <3>1. 1 .. m - 1 = {} /\ cRAT'[a] = p
      BY <1>r, <1>u, <2>1
    <3> QED
      BY <3>1 DEF MapsTo
  <2> QED
    BY <2>1, SpeculativeMapNext
<1> QED
  BY <1>1, <1>2, <1>3, <1>4, <1>5, <1>6, <1>7 DEF IInv

-----------------------------------------------------------------------------
(* The register file as it is built satisfies the invariant. *)
LEMMA InitHolds ==
    ASSUME Init
    PROVE  IInv
<1>1. /\ fRAT = [a \in AReg |-> a] /\ cRAT = [a \in AReg |-> a]
      /\ regState = [p \in PReg |-> IF p <= NumAR THEN "ARCH_REG" ELSE "AVAILABLE"]
      /\ prev = [p \in PReg |-> NoPR]
      /\ avail = [i \in 1 .. NumPR - NumAR |-> NumAR + i]
      /\ rob = << >> /\ 1 .. Len(rob) = {} /\ Len(rob) = 0
      /\ recovering = FALSE /\ front \in WriteLists
  BY DEF Init
<1>2. NumAR \in Nat /\ NumPR \in Nat /\ NumAR < NumPR
  BY SizesAssumption
<1>3. \A a \in AReg : a \in PReg
  BY <1>2 DEF AReg, PReg
<1>4. /\ Len(avail) = NumPR - NumAR /\ avail \in Seq(PReg)
      /\ \A i \in 1 .. Len(avail) : avail[i] = NumAR + i
  <2>1. NumPR - NumAR \in Nat /\ \A i \in 1 .. NumPR - NumAR : NumAR + i \in PReg
    BY <1>2 DEF PReg
  <2> QED
    BY <1>1, <2>1
<1>5. TypeOK
  <2>1. rob \in Seq(Entry) /\ recovering \in BOOLEAN
    <3>1. << >> \in Seq(Entry)
      BY EmptySeq
    <3> QED
      BY <1>1, <3>1
  <2>2. fRAT \in [AReg -> PReg] /\ cRAT \in [AReg -> PReg]
    BY <1>1, <1>3
  <2>3. /\ regState \in [PReg -> RegState]
        /\ prev \in [PReg -> PReg \cup {NoPR}]
    BY <1>1 DEF RegState
  <2> QED
    BY <1>1, <1>4, <2>1, <2>2, <2>3 DEF TypeOK
<1>6. WellFormed /\ RecoveringIsEmpty /\ InFlightExact /\ UndoChain /\ TrueProducers
  BY <1>1 DEF WellFormed, RecoveringIsEmpty, InFlightExact, UndoChain, TrueProducers
<1>7. FreeListExact
  <2>1. \A i, j \in 1 .. Len(avail) : avail[i] = avail[j] => i = j
    BY <1>2, <1>4
  <2>2. ASSUME NEW p \in PReg, regState[p] = "AVAILABLE"
        PROVE  \E i \in 1 .. Len(avail) : avail[i] = p
    <3>1. p - NumAR \in 1 .. Len(avail) /\ NumAR + (p - NumAR) = p
      BY <1>1, <1>2, <1>4, <2>2 DEF PReg
    <3>2. avail[p - NumAR] = p
      BY <1>4, <3>1
    <3> QED
      BY <3>1, <3>2
  <2>3. ASSUME NEW i \in 1 .. Len(avail)
        PROVE  regState[avail[i]] = "AVAILABLE"
    <3>1. avail[i] = NumAR + i /\ avail[i] \in PReg /\ ~(avail[i] <= NumAR)
      BY <1>2, <1>4 DEF PReg
    <3> QED
      BY <1>1, <3>1
  <2> QED
    BY <2>1, <2>2, <2>3 DEF FreeListExact
<1>8. CommittedMapExact
  BY <1>1, <1>2 DEF CommittedMapExact, AReg, PReg
<1>9. SpeculativeMap
  BY <1>1 DEF SpeculativeMap, MapsTo
<1> QED
  BY <1>5, <1>6, <1>7, <1>8, <1>9 DEF IInv

(* A stuttering step preserves the invariant. *)
LEMMA StutterPreserves ==
    ASSUME IInv, UNCHANGED vars
    PROVE  IInv'
<1>1. /\ UNCHANGED <<fRAT, cRAT, regState, prev, avail, rob, recovering, front>>
      /\ TypeOK /\ WellFormed /\ RecoveringIsEmpty /\ FreeListExact
      /\ CommittedMapExact /\ InFlightExact /\ SpeculativeMap /\ UndoChain
      /\ TrueProducers
  BY DEF IInv, vars
<1>2. TypeOK' /\ WellFormed' /\ RecoveringIsEmpty'
  BY <1>1 DEF TypeOK, WellFormed, RecoveringIsEmpty
<1>3. FreeListExact' /\ CommittedMapExact' /\ InFlightExact'
  BY <1>1 DEF FreeListExact, CommittedMapExact, InFlightExact
<1>m. \A m, a, p : MapsTo(m, a, p)' <=> MapsTo(m, a, p)
  BY <1>1 DEF MapsTo, Writes, WritesTo
<1>4. SpeculativeMap'
  <2>1. ASSUME NEW a \in AReg, NEW m, NEW p, m = Len(rob') + 1, p = fRAT'[a], ~recovering
        PROVE  MapsTo(m, a, p)'
    BY <1>1, <1>m, <2>1 DEF SpeculativeMap
  <2>2. CASE recovering
    BY <1>1, <2>2 DEF SpeculativeMap
  <2>3. CASE ~recovering
    BY <2>1, <2>3, SpeculativeMapNext
  <2> QED
    BY <2>2, <2>3
<1>5. UndoChain'
  <2>1. ASSUME NEW n \in 1 .. Len(rob'), NEW i \in 1 .. Len(rob'[n].dst), NEW a, NEW p,
               a = rob'[n].wr[i], p = prev'[rob'[n].dst[i]]
        PROVE  MapsTo(n, a, p)'
    BY <1>1, <1>m, <2>1 DEF UndoChain
  <2> QED
    BY <2>1, UndoChainNext
<1>6. TrueProducers'
  <2>1. ASSUME NEW n \in 1 .. Len(rob'), NEW i \in 1 .. Len(rob'[n].src), NEW a, NEW p,
               a = rob'[n].rd[i], p = rob'[n].src[i]
        PROVE  MapsTo(n, a, p)'
    BY <1>1, <1>m, <2>1 DEF TrueProducers
  <2> QED
    BY <2>1, TrueProducersNext
<1> QED
  BY <1>2, <1>3, <1>4, <1>5, <1>6 DEF IInv

(* The invariant is inductive. *)
THEOREM Inductive == Spec => []IInv
<1>1. Init => IInv
  BY InitHolds
<1>2. IInv /\ [Next]_vars => IInv'
  <2> SUFFICES ASSUME IInv, [Next]_vars PROVE IInv'
    OBVIOUS
  <2>1. CASE \E rd \in ReadLists : renameRegs(rd)
    BY <2>1, RenamePreserves
  <2>2. CASE \E n \in 1 .. Len(rob) : isReady(n)
    BY <2>2, IssuePreserves
  <2>3. CASE \E n \in 1 .. Len(rob) : completeRegs(n)
    BY <2>3, CompletePreserves
  <2>4. CASE commitRegs
    BY <2>4, CommitPreserves
  <2>5. CASE squashROB
    BY <2>5, SquashPreserves
  <2>6. CASE squashRenameReg
    BY <2>6, RecoverPreserves
  <2>7. CASE UNCHANGED vars
    BY <2>7, StutterPreserves
  <2> QED
    BY <2>1, <2>2, <2>3, <2>4, <2>5, <2>6, <2>7 DEF Next
<1> QED
  BY <1>1, <1>2, PTL DEF Spec

-----------------------------------------------------------------------------
(* Every reachable state of the renaming logic has the types declared for  *)
(* it: the maps, the free list and the operand lists name real registers.  *)
THEOREM TypeCorrect == Spec => []TypeOK
<1>1. IInv => TypeOK
  BY DEF IInv
<1> QED
  BY <1>1, Inductive, PTL

(* No register is leaked, freed twice or handed out while in use, for any  *)
(* register file, ROB size and operand lists.                              *)
THEOREM FreeListIsExact == Spec => []FreeListExact
<1>1. IInv => FreeListExact
  BY DEF IInv
<1> QED
  BY <1>1, Inductive, PTL

(* The committed map and the ARCH_REG states, from which a squash rebuilds *)
(* everything, always describe each other.                                 *)
THEOREM CommittedMapIsExact == Spec => []CommittedMapExact
<1>1. IInv => CommittedMapExact
  BY DEF IInv
<1> QED
  BY <1>1, Inductive, PTL

(* A renamed register belongs to exactly one instruction in flight, and is *)
(* readable exactly when that one has completed.                           *)
THEOREM InFlightIsExact == Spec => []InFlightExact
<1>1. IInv => InFlightExact
  BY DEF IInv
<1> QED
  BY <1>1, Inductive, PTL

(* The speculative map names the youngest definition of every register,    *)
(* through any sequence of renames, commits and squashes.                  *)
THEOREM SpeculativeMapIsYoungest == Spec => []SpeculativeMap
<1>1. IInv => SpeculativeMap
  BY DEF IInv
<1> QED
  BY <1>1, Inductive, PTL

(* The register an in-flight destination will free is the definition it    *)
(* supersedes.                                                             *)
THEOREM UndoChainHolds == Spec => []UndoChain
<1>1. IInv => UndoChain
  BY DEF IInv
<1> QED
  BY <1>1, Inductive, PTL

(* The sources of an in-flight instruction name its true producers until   *)
(* it commits or is squashed.                                              *)
THEOREM SourcesAreTrueProducers == Spec => []TrueProducers
<1>1. IInv => TrueProducers
  BY DEF IInv
<1> QED
  BY <1>1, Inductive, PTL

(* A commit frees no register an instruction still has to read: the source *)
(* of a waiting instruction is superseded only by an instruction younger   *)
(* than it.                                                                *)
LEMMA CommitSparesSources ==
    ASSUME IInv, commitRegs, NEW n \in 1 .. Len(rob), n # 1,
           NEW i \in 1 .. Len(rob[n].src)
    PROVE  \A j \in 1 .. Len(rob[1].wr) :
             getPrevPR(rob[1].dst)[j] # rob[n].src[i]
<1>i. TypeOK /\ WellFormed /\ CommittedMapExact /\ InFlightExact /\ UndoChain
      /\ TrueProducers
  BY DEF IInv
<1> SUFFICES ASSUME NEW j \in 1 .. Len(rob[1].wr),
                    getPrevPR(rob[1].dst)[j] = rob[n].src[i]
             PROVE  FALSE
  OBVIOUS
<1> DEFINE a == rob[n].rd[i]
           p == rob[n].src[i]
           b == rob[1].wr[j]
<1>1. i \in 1 .. Len(rob[n].rd)
  BY <1>i DEF WellFormed
<1>2. a \in AReg /\ p \in PReg
  BY <1>i, <1>1, RobEntry
<1>3. MapsTo(n, a, p)
  BY <1>i DEF TrueProducers
<1>4. b \in AReg /\ p = cRAT[b]
  BY <1>i, CommitFrees
<1>5. regState[p] = "ARCH_REG"
  BY <1>i, <1>2, <1>4 DEF CommittedMapExact
<1>6. Writes(1, b)
  BY DEF Writes
<1>7. CASE \E m \in 1 .. n - 1 : WritesTo(m, a, p)
  <2>1. PICK m \in 1 .. n - 1 : WritesTo(m, a, p)
    BY <1>7
  <2>2. m \in 1 .. Len(rob)
    BY <1>i, <2>1 DEF TypeOK
  <2>3. Len(rob[m].dst) = Len(rob[m].wr)
    BY <1>i, <2>2 DEF WellFormed
  <2>4. PICK k \in 1 .. Len(rob[m].dst) : rob[m].dst[k] = p
    BY <2>1, <2>3 DEF WritesTo
  <2>5. regState[rob[m].dst[k]] \in {"RENAMED_VALID", "RENAMED_INVALID"}
    <3>1. regState[rob[m].dst[k]] = IF rob[m].stage = "COMPLETE"
                                    THEN "RENAMED_VALID" ELSE "RENAMED_INVALID"
      BY <1>i, <2>2 DEF InFlightExact
    <3> QED
      BY <3>1
  <2> HIDE DEF p
  <2> QED
    BY <1>5, <2>4, <2>5
<1>8. CASE (\A o \in 1 .. n - 1 : ~Writes(o, a)) /\ cRAT[a] = p
  <2>1. a = b
    BY <1>i, <1>2, <1>4, <1>8 DEF CommittedMapExact
  <2>2. 1 \in 1 .. n - 1
    OBVIOUS
  <2>3. ~Writes(1, a)
    BY <1>8, <2>2
  <2> HIDE DEF a, b
  <2> QED
    BY <1>6, <2>1, <2>3
<1> HIDE DEF a, p
<1> QED
  BY <1>3, <1>7, <1>8 DEF MapsTo

(* Once a source is readable it stays so until its reader issues or is     *)
(* squashed: a commit frees a register only after its last reader.         *)
THEOREM ReadableSourcesStayReadable == Spec => ReadableStaysReadable
<1> DEFINE Keeps == \A n \in 1 .. Len(rob) :
              (rob[n].stage = "DISPATCH" /\ ~recovering') =>
                \A p \in PReg :
                  ((\E i \in 1 .. Len(rob[n].src) : rob[n].src[i] = p)
                      /\ isPRvalid(p)) => isPRvalid(p)'
<1>1. ASSUME IInv, [Next]_vars PROVE [Keeps]_vars
  <2> SUFFICES ASSUME NEW n \in 1 .. Len(rob), rob[n].stage = "DISPATCH",
                      ~recovering', NEW p \in PReg,
                      \E i \in 1 .. Len(rob[n].src) : rob[n].src[i] = p,
                      regState[p] \in {"ARCH_REG", "RENAMED_VALID"}
               PROVE  regState'[p] \in {"ARCH_REG", "RENAMED_VALID"}
    BY DEF isPRvalid
  <2>i. TypeOK /\ WellFormed /\ RecoveringIsEmpty /\ FreeListExact
        /\ CommittedMapExact /\ InFlightExact /\ UndoChain
    BY <1>1 DEF IInv
  <2>1. CASE \E rd \in ReadLists : renameRegs(rd)
    <3>1. PICK rd \in ReadLists : renameRegs(rd)
      BY <2>1
    <3> DEFINE new == getAvailablePR(Len(front))
    <3>2. /\ \A i \in 1 .. Len(front) : regState[new[i]] = "AVAILABLE"
          /\ \A q \in PReg : (\A i \in 1 .. Len(front) : new[i] # q) =>
               regState'[q] = regState[q]
      BY <2>i, <3>1, RenameFresh
    <3> HIDE DEF new
    <3> QED
      BY <3>2
  <2>2. CASE \E m \in 1 .. Len(rob) : isReady(m)
    BY <2>2 DEF isReady, regVars
  <2>3. CASE \E m \in 1 .. Len(rob) : completeRegs(m)
    BY <2>3 DEF completeRegs, updatePRstate
  <2>4. CASE commitRegs
    <3>1. n # 1
      BY <2>4 DEF commitRegs
    <3>2. \A j \in 1 .. Len(rob[1].wr) : getPrevPR(rob[1].dst)[j] # p
      BY <1>1, <2>4, <3>1, CommitSparesSources
    <3> DEFINE old == getPrevPR(rob[1].dst)
    <3>3. /\ \A j \in 1 .. Len(rob[1].wr) : regState'[rob[1].dst[j]] = "ARCH_REG"
          /\ (\A j \in 1 .. Len(rob[1].wr) : old[j] # p /\ rob[1].dst[j] # p) =>
               regState'[p] = regState[p]
      BY <2>i, <2>4, CommitStates
    <3> HIDE DEF old
    <3> QED
      BY <3>2, <3>3 DEF old
  <2>5. CASE squashROB
    BY <2>5 DEF squashROB
  <2>6. CASE squashRenameReg
    <3>1. rob = << >>
      BY <2>i, <2>6 DEF squashRenameReg, RecoveringIsEmpty
    <3> QED
      BY <3>1
  <2>7. CASE UNCHANGED vars
    BY <2>7 DEF vars
  <2> QED
    BY <1>1, <2>1, <2>2, <2>3, <2>4, <2>5, <2>6, <2>7 DEF Next
<1> QED
  BY <1>1, Inductive, PTL DEF Spec, ReadableStaysReadable
=============================================================================
