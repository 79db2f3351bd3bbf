--------------------------- MODULE BBRename_proofs ---------------------------
(***************************************************************************)
(* Proofs about the block core's global renaming, for every number and     *)
(* size of segments, every number of windows, every ROB and block size and *)
(* every set of operand lists.                                             *)
(*                                                                         *)
(* Registers are given back a block at a time, and a block may define a    *)
(* register more than once; an earlier definition then goes from renamed   *)
(* to available and is never committed.  That the right registers are      *)
(* freed rests on the links: each names the definition just before, so the *)
(* register a link of the block names is named by nothing after the block. *)
(***************************************************************************)
EXTENDS BBRename, Queues_proofs, SequenceTheorems

(* The renamed lists of an instruction match the architectural ones. *)
WellFormed ==
    \A n \in 1 .. Len(rob) :
       /\ Len(rob[n].src) = Len(rob[n].rd)
       /\ Len(rob[n].dst) = Len(rob[n].wr)
       /\ Distinct(rob[n].wr)

(* The tables are restored over an empty ROB. *)
RecoveringIsEmpty == recovering => rob = << >>

Renamed == {"RENAMED_INVALID", "RENAMED_VALID"}

(* A renamed register belongs to one destination in flight. *)
InFlightExact ==
    /\ \A n, m \in 1 .. Len(rob) :
         \A i \in 1 .. Len(rob[n].dst), j \in 1 .. Len(rob[m].dst) :
            rob[n].dst[i] = rob[m].dst[j] => n = m /\ i = j
    /\ \A n \in 1 .. Len(rob) : \A i \in 1 .. Len(rob[n].dst) :
         regState[rob[n].dst[i]] \in Renamed
    /\ ~recovering =>
         \A p \in PReg : regState[p] \in Renamed =>
           \E n \in 1 .. Len(rob) : \E i \in 1 .. Len(rob[n].dst) : rob[n].dst[i] = p

(* The link of a destination names the definition it supersedes. *)
UndoChain ==
    \A n \in 1 .. Len(rob) : \A i \in 1 .. Len(rob[n].dst) :
       MapsTo(n, rob[n].wr[i], prev[rob[n].dst[i]])

(* The two halves of TrueProducers. *)
Sources ==
    \A n \in 1 .. Len(rob) : \A i \in 1 .. Len(rob[n].src) :
       MapsTo(n, rob[n].rd[i], rob[n].src[i])
SpeculativeMap ==
    ~recovering => \A a \in AReg : MapsTo(Len(rob) + 1, a, fRAT[a])

(* The inductive invariant. *)
IInv ==
    /\ TypeOK
    /\ WellFormed
    /\ RecoveringIsEmpty
    /\ FreeListsExact
    /\ CommittedMapExact
    /\ InFlightExact
    /\ UndoChain
    /\ Sources
    /\ SpeculativeMap
    /\ DroppedStayReadable

-----------------------------------------------------------------------------
(* Quotients and remainders. *)
LEMMA Remainder ==
    ASSUME NEW n \in Nat \ {0}, NEW x \in Nat
    PROVE  x % n \in 0 .. n - 1 /\ x \div n \in Nat
OBVIOUS

LEMMA Multiples ==
    ASSUME NEW n \in Nat, NEW q \in Nat, NEW m \in Nat
    PROVE  /\ n * q \in Nat /\ n * (q + 1) = n * q + n
           /\ q <= m => n * q <= n * m
BY Z3T(20)

(* A number is determined by its quotient and its remainder. *)
LEMMA Division ==
    ASSUME NEW n \in Nat \ {0}, NEW x \in Nat
    PROVE  x = n * (x \div n) + (x % n)
BY Z3T(20)

Compose(n, q, r) == n * q + r

LEMMA SameQuotient ==
    ASSUME NEW n \in Nat \ {0}, NEW q \in Nat, NEW r \in 0 .. n - 1,
           NEW s \in Nat, NEW t \in 0 .. n - 1, Compose(n, q, r) = Compose(n, s, t)
    PROVE  q = s /\ r = t
<1>1. n * q + r = n * s + t
  BY DEF Compose
<1>2. q = s
  BY <1>1, Z3T(20)
<1> QED
  BY <1>1, <1>2, Multiples

(* A walk of n steps meets every place of a circle of n once. *)
MeetsAllOnce(n, b) ==
    /\ \A i \in 1 .. n : (b + i - 1) % n \in 0 .. n - 1
    /\ \A i, j \in 1 .. n : (b + i - 1) % n = (b + j - 1) % n => i = j
    /\ \A s \in 0 .. n - 1 : \E i \in 1 .. n : (b + i - 1) % n = s

LEMMA RoundTheCircle ==
    ASSUME NEW n \in Nat \ {0}, NEW b \in Nat
    PROVE  MeetsAllOnce(n, b)
<1>1. ASSUME NEW i \in 1 .. n PROVE (b + i - 1) % n \in 0 .. n - 1
  BY Remainder
<1>2. ASSUME NEW i \in 1 .. n, NEW j \in 1 .. n, i < j,
             (b + i - 1) % n = (b + j - 1) % n
      PROVE  FALSE
  <2> DEFINE x == b + i - 1
             y == b + j - 1
  <2>1. x \in Nat /\ y \in Nat /\ x < y /\ y < x + n /\ x % n = y % n
    BY <1>2
  <2> HIDE DEF x, y
  <2>2. x = n * (x \div n) + (x % n) /\ y = n * (y \div n) + (y % n)
    BY <2>1, Division
  <2>3. x % n \in 0 .. n - 1 /\ x \div n \in Nat /\ y \div n \in Nat
    BY <2>1, Remainder
  <2>4. n * (x \div n) \in Nat /\ n * (y \div n) \in Nat
    BY <2>3, Multiples
  <2>5. n * (x \div n) < n * (y \div n) /\ n * (y \div n) < n * (x \div n) + n
    BY <2>1, <2>2, <2>3, <2>4
  <2>6. CASE y \div n <= x \div n
    <3>1. n * (y \div n) <= n * (x \div n)
      BY <2>3, <2>6, Multiples
    <3> QED
      BY <2>4, <2>5, <3>1
  <2>7. CASE x \div n + 1 <= y \div n
    <3>1. n * (x \div n + 1) <= n * (y \div n) /\ n * (x \div n + 1) = n * (x \div n) + n
      BY <2>3, <2>7, Multiples
    <3> QED
      BY <2>4, <2>5, <3>1
  <2> QED
    BY <2>3, <2>6, <2>7
<1>3. ASSUME NEW i \in 1 .. n, NEW j \in 1 .. n, (b + i - 1) % n = (b + j - 1) % n
      PROVE  i = j
  <2>1. i < j \/ j < i \/ i = j
    OBVIOUS
  <2> QED
    BY <1>2, <1>3, <2>1
<1>4. ASSUME NEW s \in 0 .. n - 1 PROVE \E i \in 1 .. n : (b + i - 1) % n = s
  <2> DEFINE f == [i \in 1 .. n |-> (b + i - 1) % n]
  <2>1. f \in Injection(1 .. n, 0 .. n - 1)
    <3>1. f \in [1 .. n -> 0 .. n - 1]
      BY <1>1
    <3>2. \A i, j \in 1 .. n : f[i] = f[j] => i = j
      BY <1>3
    <3> HIDE DEF f
    <3> QED
      BY <3>1, <3>2 DEF Injection, IsInjective
  <2>2. /\ IsFiniteSet(0 .. n - 1) /\ Cardinality(0 .. n - 1) = n
        /\ Cardinality(1 .. n) = n
    BY FS_Interval
  <2>3. f \in Surjection(1 .. n, 0 .. n - 1)
    <3> HIDE DEF f
    <3> QED
      BY <2>1, <2>2, FS_Injection
  <2>4. \E i \in 1 .. n : f[i] = s
    <3> HIDE DEF f
    <3> QED
      BY <2>3 DEF Surjection
  <2> QED
    BY <2>4
<1> QED
  BY <1>1, <1>3, <1>4 DEF MeetsAllOnce

(* The architectural registers start in different physical ones. *)
LEMMA InitialRegisters ==
    /\ \A a \in AReg : InitialPR(a) \in PReg
    /\ \A a, b \in AReg : InitialPR(a) = InitialPR(b) => a = b
<1>1. /\ ArchSeg \in Nat \ {0} /\ SegSize \in Nat \ {0} /\ NumSeg \in Nat \ {0}
      /\ ArchSeg < SegSize
  BY SegmentsAssumption
<1>2. NumAR = ArchSeg * NumSeg /\ NumPR = SegSize * NumSeg /\ NumAR \in Nat /\ NumPR \in Nat
  <2>1. \A x, y \in Nat : x * y = y * x /\ x * y \in Nat
    BY Z3T(20)
  <2> QED
    BY <1>1, <2>1 DEF NumAR, NumPR
<1> DEFINE q(a) == (a - 1) \div ArchSeg
           r(a) == (a - 1) % ArchSeg
<1>3. ASSUME NEW a \in AReg
      PROVE  /\ q(a) \in 0 .. NumSeg - 1 /\ r(a) \in 0 .. ArchSeg - 1
             /\ r(a) \in 0 .. SegSize - 1
             /\ a - 1 = ArchSeg * q(a) + r(a)
             /\ InitialPR(a) = SegSize * q(a) + r(a) + 1
  <2>1. a - 1 \in Nat /\ a - 1 < ArchSeg * NumSeg
    BY <1>2 DEF AReg
  <2>2. q(a) \in Nat /\ r(a) \in 0 .. ArchSeg - 1 /\ a - 1 = ArchSeg * q(a) + r(a)
    BY <1>1, <2>1, Remainder, Division
  <2>3. InitialPR(a) = q(a) * SegSize + r(a) + 1
    BY DEF InitialPR
  <2>4. q(a) < NumSeg
    <3> HIDE DEF q, r
    <3> SUFFICES ASSUME NumSeg <= q(a) PROVE FALSE
      BY <1>1, <2>2
    <3>1. ArchSeg * NumSeg <= ArchSeg * q(a) /\ ArchSeg * q(a) \in Nat
      BY <1>1, <2>2, Multiples
    <3> QED
      BY <1>1, <1>2, <2>1, <2>2, <3>1
  <2>5. q(a) * SegSize = SegSize * q(a)
    <3> HIDE DEF q
    <3> QED
      BY <1>1, <2>2, Z3T(20)
  <2> HIDE DEF q, r
  <2> QED
    BY <1>1, <2>2, <2>3, <2>4, <2>5
<1> HIDE DEF q, r
<1>4. ASSUME NEW a \in AReg PROVE InitialPR(a) \in PReg
  <2>1. q(a) \in Nat /\ q(a) + 1 <= NumSeg /\ r(a) \in 0 .. SegSize - 1
    BY <1>1, <1>3
  <2>2. /\ SegSize * q(a) \in Nat
        /\ SegSize * (q(a) + 1) = SegSize * q(a) + SegSize
        /\ SegSize * (q(a) + 1) <= SegSize * NumSeg
    BY <1>1, <2>1, Multiples
  <2>3. InitialPR(a) = SegSize * q(a) + r(a) + 1
    BY <1>3
  <2> QED
    BY <1>1, <1>2, <2>1, <2>2, <2>3 DEF PReg
<1>5. ASSUME NEW a \in AReg, NEW b \in AReg, InitialPR(a) = InitialPR(b)
      PROVE  a = b
  <2>1. /\ q(a) \in Nat /\ r(a) \in 0 .. SegSize - 1 /\ SegSize * q(a) \in Nat
        /\ q(b) \in Nat /\ r(b) \in 0 .. SegSize - 1 /\ SegSize * q(b) \in Nat
    BY <1>1, <1>3, Multiples
  <2>2. Compose(SegSize, q(a), r(a)) = Compose(SegSize, q(b), r(b))
    BY <1>3, <1>5, <2>1 DEF Compose
  <2>3. q(a) = q(b) /\ r(a) = r(b)
    BY <1>1, <2>1, <2>2, SameQuotient
  <2>4. a - 1 = b - 1
    BY <1>3, <2>3
  <2> QED
    BY <1>2, <2>4 DEF AReg
<1> QED
  BY <1>4, <1>5

-----------------------------------------------------------------------------
(* Lists of registers. *)
LEMMA ReverseElements ==
    ASSUME NEW D, NEW q \in Seq(D)
    PROVE  /\ Reverse(q) \in Seq(D) /\ Elements(Reverse(q)) = Elements(q)
           /\ Distinct(q) => Distinct(Reverse(q))
<1> DEFINE r == Reverse(q)
<1>1. Len(q) \in Nat /\ \A n \in 1 .. Len(q) : q[n] \in D
  OBVIOUS
<1>2. /\ r \in Seq(D) /\ Len(r) = Len(q)
      /\ \A n \in 1 .. Len(q) : r[n] = q[Len(q) - n + 1]
  BY <1>1 DEF Reverse
<1> HIDE DEF r
<1>3. \A n \in 1 .. Len(q) : Len(q) - n + 1 \in 1 .. Len(q)
  BY <1>1
<1>4. ASSUME NEW n \in 1 .. Len(q)
      PROVE  q[n] \in Elements(r)
  <2>1. Len(q) - n + 1 \in 1 .. Len(q) /\ Len(q) - (Len(q) - n + 1) + 1 = n
    BY <1>1
  <2>2. r[Len(q) - n + 1] = q[n]
    BY <1>2, <2>1
  <2> QED
    BY <1>2, <2>1, <2>2 DEF Elements
<1>5. Elements(r) = Elements(q)
  <2>1. Elements(r) \subseteq Elements(q)
    BY <1>2, <1>3 DEF Elements
  <2>2. Elements(q) \subseteq Elements(r)
    BY <1>4 DEF Elements
  <2> QED
    BY <2>1, <2>2
<1>6. ASSUME Distinct(q) PROVE Distinct(r)
  <2> SUFFICES ASSUME NEW m \in 1 .. Len(q), NEW n \in 1 .. Len(q), r[m] = r[n]
               PROVE  m = n
    BY <1>2 DEF Distinct
  <2>1. Len(q) - m + 1 = Len(q) - n + 1
    BY <1>2, <1>3, <1>6 DEF Distinct
  <2> QED
    BY <1>1, <2>1
<1> QED
  BY <1>2, <1>5, <1>6 DEF r

LEMMA IndexInList ==
    ASSUME NEW q, Distinct(q), NEW n \in 1 .. Len(q)
    PROVE  IndexOf(q, q[n]) = n
BY DEF IndexOf, Distinct

(* The list a window is given registers from holds every free register of  *)
(* every segment once, whatever the window: the walk round the segments    *)
(* that starts at its own meets each once.                                 *)
LEMMA AvailableRegisters ==
    ASSUME FreeListsExact, NEW w \in Window
    PROVE  /\ getAvailablePR(w) \in Seq(PReg)
           /\ Distinct(getAvailablePR(w))
           /\ Elements(getAvailablePR(w)) = UNION {Elements(avail[s]) : s \in Segment}
           /\ Len(getAvailablePR(w)) = getNumAvailablePR(w)
<1>1. /\ NumSeg \in Nat \ {0} /\ NumWin \in Nat \ {0} /\ NumWin % NumSeg = 0
      /\ Segment = 0 .. NumSeg - 1
  BY SegmentsAssumption DEF Segment
<1>2. \A s \in Segment : avail[s] \in Seq(PReg) /\ Distinct(avail[s])
  BY DEF FreeListsExact, TypeOK
<1> DEFINE b == blkIndx2APRindx(w)
<1>3. b \in Nat
  <2>1. NumWin = NumSeg * (NumWin \div NumSeg) + 0 /\ NumWin \div NumSeg \in Nat
    BY <1>1, Division, Remainder
  <2>2. NumWin \div NumSeg # 0
    <3> SUFFICES ASSUME NumWin \div NumSeg = 0 PROVE FALSE
      OBVIOUS
    <3>1. NumSeg * 0 = 0
      BY <1>1
    <3> QED
      BY <1>1, <2>1, <3>1
  <2>3. w \in Nat
    BY <1>1 DEF Window
  <2> QED
    BY <2>1, <2>2, <2>3, Remainder DEF blkIndx2APRindx
<1> HIDE DEF b
<1> DEFINE at(i) == (b + i - 1) % NumSeg
           parts == [i \in 1 .. NumSeg |-> Reverse(avail[at(i)])]
<1>4. /\ \A i \in 1 .. NumSeg : at(i) \in Segment
      /\ \A i, j \in 1 .. NumSeg : at(i) = at(j) => i = j
      /\ \A s \in Segment : \E i \in 1 .. NumSeg : at(i) = s
  <2>1. MeetsAllOnce(NumSeg, b)
    BY <1>1, <1>3, RoundTheCircle
  <2> QED
    BY <1>1, <2>1, Zenon DEF MeetsAllOnce
<1>5. getAvailablePR(w) = Flatten(parts)
  BY DEF getAvailablePR, b
<1> HIDE DEF at
<1>6. ASSUME NEW i \in 1 .. NumSeg
      PROVE  /\ parts[i] \in Seq(PReg) /\ Distinct(parts[i])
             /\ Elements(parts[i]) = Elements(avail[at(i)])
  <2>1. at(i) \in Segment /\ parts[i] = Reverse(avail[at(i)])
    BY <1>4
  <2>2. avail[at(i)] \in Seq(PReg) /\ Distinct(avail[at(i)])
    BY <1>2, <2>1
  <2> HIDE DEF parts
  <2> QED
    BY <2>1, <2>2, ReverseElements
<1>7. parts \in Seq(Seq(PReg)) /\ Len(parts) = NumSeg
  BY <1>1, <1>6
<1> HIDE DEF parts
<1>8. ASSUME NEW i \in 1 .. Len(parts), NEW j \in 1 .. Len(parts), i # j
      PROVE  Elements(parts[i]) \cap Elements(parts[j]) = {}
  <2>1. at(i) \in Segment /\ at(j) \in Segment /\ at(i) # at(j)
    BY <1>4, <1>7, <1>8
  <2>2. Elements(avail[at(i)]) \cap Elements(avail[at(j)]) = {}
    BY <2>1 DEF FreeListsExact
  <2> QED
    BY <1>6, <1>7, <2>2
<1>9. /\ Flatten(parts) \in Seq(PReg)
      /\ Elements(Flatten(parts)) = UNION {Elements(parts[n]) : n \in 1 .. Len(parts)}
  BY <1>7, FlattenElements
<1>10. Distinct(Flatten(parts))
  BY <1>6, <1>7, <1>8, FlattenDistinct
<1>11. UNION {Elements(parts[n]) : n \in 1 .. Len(parts)}
          = UNION {Elements(avail[s]) : s \in Segment}
  BY <1>4, <1>6, <1>7, SMTT(30)
<1>12. Cardinality(Elements(Flatten(parts))) = Len(Flatten(parts))
  BY <1>9, <1>10, CountElements
<1> QED
  BY <1>5, <1>9, <1>10, <1>11, <1>12 DEF getNumAvailablePR

-----------------------------------------------------------------------------
(* What the type of the ROB says of one of its instructions. *)
LEMMA RobEntry ==
    ASSUME TypeOK, NEW n \in 1 .. Len(rob)
    PROVE  /\ Len(rob) \in Nat
           /\ rob[n] \in Entry
           /\ rob[n].rd \in Seq(AReg) /\ rob[n].src \in Seq(PReg)
           /\ rob[n].wr \in Seq(AReg) /\ rob[n].dst \in Seq(PReg)
           /\ \A i \in 1 .. Len(rob[n].rd) : rob[n].rd[i] \in AReg
           /\ \A i \in 1 .. Len(rob[n].src) : rob[n].src[i] \in PReg
           /\ \A i \in 1 .. Len(rob[n].wr) : rob[n].wr[i] \in AReg
           /\ \A i \in 1 .. Len(rob[n].dst) : rob[n].dst[i] \in PReg
<1>1. rob \in Seq(Entry) /\ Len(rob) \in Nat
  BY DEF TypeOK
<1>2. rob[n] \in Entry
  BY <1>1, ElementOfSeq
<1>3. /\ rob[n].rd \in Seq(AReg) /\ rob[n].src \in Seq(PReg)
      /\ rob[n].wr \in Seq(AReg) /\ rob[n].dst \in Seq(PReg)
  BY <1>2 DEF Entry
<1>4. /\ \A i \in 1 .. Len(rob[n].rd) : rob[n].rd[i] \in AReg
      /\ \A i \in 1 .. Len(rob[n].wr) : rob[n].wr[i] \in AReg
  BY <1>3, ElementOfSeq
<1>5. /\ \A i \in 1 .. Len(rob[n].src) : rob[n].src[i] \in PReg
      /\ \A i \in 1 .. Len(rob[n].dst) : rob[n].dst[i] \in PReg
  BY <1>3, ElementOfSeq
<1> QED
  BY <1>1, <1>2, <1>3, <1>4, <1>5

-----------------------------------------------------------------------------
(* What a register holds. *)
LEMMA Writer ==
    ASSUME TypeOK, WellFormed, InFlightExact,
           NEW n \in 1 .. Len(rob), NEW a, NEW p, WritesTo(n, a, p)
    PROVE  /\ Writes(n, a) /\ p \in PReg /\ regState[p] \in Renamed
           /\ \E i \in 1 .. Len(rob[n].dst) : rob[n].wr[i] = a /\ rob[n].dst[i] = p
<1>1. PICK i \in 1 .. Len(rob[n].wr) : rob[n].wr[i] = a /\ rob[n].dst[i] = p
  BY DEF WritesTo
<1>2. i \in 1 .. Len(rob[n].dst)
  BY DEF WellFormed
<1>3. p \in PReg
  BY <1>1, <1>2, RobEntry
<1>4. regState[p] \in Renamed
  BY <1>1, <1>2 DEF InFlightExact
<1> QED
  BY <1>1, <1>2, <1>3, <1>4 DEF Writes, Elements

LEMMA OneWriter ==
    ASSUME TypeOK, WellFormed, InFlightExact,
           NEW n \in 1 .. Len(rob), NEW m \in 1 .. Len(rob), NEW a, NEW b, NEW p,
           WritesTo(n, a, p), WritesTo(m, b, p)
    PROVE  n = m /\ a = b
<1>1. PICK i \in 1 .. Len(rob[n].dst) : rob[n].wr[i] = a /\ rob[n].dst[i] = p
  BY Writer
<1>2. PICK j \in 1 .. Len(rob[m].dst) : rob[m].wr[j] = b /\ rob[m].dst[j] = p
  BY Writer
<1>3. n = m /\ i = j
  BY <1>1, <1>2 DEF InFlightExact
<1> QED
  BY <1>1, <1>2, <1>3

LEMMA Committed ==
    ASSUME TypeOK, CommittedMapExact, NEW a \in AReg
    PROVE  cRAT[a] \in PReg /\ regState[cRAT[a]] = "ARCH_REG"
<1>1. cRAT[a] \in PReg
  BY DEF TypeOK
<1>2. cRAT[a] \in {p \in PReg : regState[p] = "ARCH_REG"}
  BY DEF CommittedMapExact
<1> QED
  BY <1>1, <1>2

(* A register something is mapped to is in use. *)
LEMMA MappedState ==
    ASSUME TypeOK, WellFormed, InFlightExact, CommittedMapExact,
           NEW m \in 1 .. Len(rob) + 1, NEW a \in AReg, NEW p, MapsTo(m, a, p)
    PROVE  /\ p \in PReg /\ regState[p] \in Renamed \cup {"ARCH_REG"}
           /\ \/ \E n \in 1 .. m - 1 : WritesTo(n, a, p)
              \/ regState[p] = "ARCH_REG"
<1>0. Len(rob) \in Nat
  BY DEF TypeOK
<1>1. ASSUME NEW n \in 1 .. m - 1, WritesTo(n, a, p)
      PROVE  p \in PReg /\ regState[p] \in Renamed
  <2>1. n \in 1 .. Len(rob)
    BY <1>0
  <2> QED
    BY <1>1, <2>1, Writer
<1>2. CASE cRAT[a] = p
  BY <1>2, Committed
<1> QED
  BY <1>1, <1>2 DEF MapsTo

(* What names a register at one place is what names it at a later one, and *)
(* nothing between redefines it.                                           *)
LEMMA MappedOnce ==
    ASSUME TypeOK, WellFormed, InFlightExact, CommittedMapExact,
           NEW m \in 1 .. Len(rob) + 1, NEW n \in 1 .. m,
           NEW a \in AReg, NEW b \in AReg, NEW p, MapsTo(n, a, p), MapsTo(m, b, p)
    PROVE  a = b /\ \A o \in n .. m - 1 : ~Writes(o, a)
<1>0. Len(rob) \in Nat /\ m \in Nat /\ n \in Nat
  BY DEF TypeOK
<1>s. "ARCH_REG" \notin Renamed
  BY DEF Renamed
<1>1. CASE \E x \in 1 .. m - 1 : WritesTo(x, b, p) /\ \A o \in x + 1 .. m - 1 : ~Writes(o, b)
  <2>1. PICK x \in 1 .. m - 1 : WritesTo(x, b, p) /\ \A o \in x + 1 .. m - 1 : ~Writes(o, b)
    BY <1>1
  <2>2. x \in 1 .. Len(rob)
    BY <1>0
  <2>3. regState[p] \in Renamed
    BY <2>1, <2>2, Writer
  <2>4. n \in 1 .. Len(rob) + 1
    BY <1>0
  <2>5. PICK y \in 1 .. n - 1 : WritesTo(y, a, p)
    BY <1>s, <2>3, <2>4, MappedState
  <2>6. y \in 1 .. Len(rob)
    BY <1>0
  <2>7. x = y /\ a = b
    BY <2>1, <2>2, <2>5, <2>6, OneWriter
  <2>8. \A o \in n .. m - 1 : o \in x + 1 .. m - 1
    BY <1>0, <2>5, <2>7
  <2> QED
    BY <2>1, <2>7, <2>8
<1>2. CASE (\A o \in 1 .. m - 1 : ~Writes(o, b)) /\ cRAT[b] = p
  <2>1. regState[p] = "ARCH_REG"
    BY <1>2, Committed
  <2>2. ASSUME NEW y \in 1 .. n - 1, WritesTo(y, a, p) PROVE FALSE
    <3>1. y \in 1 .. Len(rob)
      BY <1>0
    <3>2. regState[p] \in Renamed
      BY <2>2, <3>1, Writer
    <3> QED
      BY <1>s, <2>1, <3>2
  <2>3. cRAT[a] = p
    BY <2>2 DEF MapsTo
  <2>4. a = b
    BY <1>2, <2>3 DEF CommittedMapExact
  <2>5. \A o \in n .. m - 1 : o \in 1 .. m - 1
    BY <1>0
  <2> QED
    BY <1>2, <2>4, <2>5
<1> QED
  BY <1>1, <1>2 DEF MapsTo

(* A name has one meaning. *)
LEMMA OneMeaning ==
    ASSUME TypeOK, WellFormed, InFlightExact,
           NEW m \in 1 .. Len(rob) + 1, NEW a, NEW p, NEW q,
           MapsTo(m, a, p), MapsTo(m, a, q)
    PROVE  p = q
<1>0. Len(rob) \in Nat /\ m \in Nat
  BY DEF TypeOK
<1>1. ASSUME NEW n \in 1 .. m - 1, NEW r, WritesTo(n, a, r) PROVE Writes(n, a)
  <2>1. n \in 1 .. Len(rob)
    BY <1>0
  <2> QED
    BY <1>1, <2>1, Writer
<1>2. ASSUME NEW n \in 1 .. m - 1, WritesTo(n, a, p), \A o \in n + 1 .. m - 1 : ~Writes(o, a),
             NEW l \in 1 .. m - 1, WritesTo(l, a, q), \A o \in l + 1 .. m - 1 : ~Writes(o, a)
      PROVE  p = q
  <2>1. Writes(n, a) /\ Writes(l, a)
    BY <1>1, <1>2
  <2>2. n = l
    <3>1. n \in l + 1 .. m - 1 \/ l \in n + 1 .. m - 1 \/ n = l
      BY <1>0
    <3> QED
      BY <1>2, <2>1, <3>1
  <2>3. n \in 1 .. Len(rob)
    BY <1>0
  <2>4. Distinct(rob[n].wr)
    BY <2>3 DEF WellFormed
  <2>5. PICK i \in 1 .. Len(rob[n].wr) : rob[n].wr[i] = a /\ rob[n].dst[i] = p
    BY <1>2 DEF WritesTo
  <2>6. PICK j \in 1 .. Len(rob[n].wr) : rob[n].wr[j] = a /\ rob[n].dst[j] = q
    BY <1>2, <2>2 DEF WritesTo
  <2> QED
    BY <2>4, <2>5, <2>6 DEF Distinct
<1> QED
  BY <1>1, <1>2 DEF MapsTo

-----------------------------------------------------------------------------
(* Steps and mappings. *)

(* Nothing about a mapping depends on the stages. *)
LEMMA MapsToSame ==
    ASSUME NEW m \in Nat \ {0}, NEW a, NEW p,
           cRAT' = cRAT,
           \A n \in 1 .. m - 1 : rob'[n].wr = rob[n].wr /\ rob'[n].dst = rob[n].dst,
           MapsTo(m, a, p)
    PROVE  MapsTo(m, a, p)'
<1>1. \A n \in 1 .. m - 1 : Writes(n, a)' <=> Writes(n, a)
  BY DEF Writes
<1>2. \A n \in 1 .. m - 1 : WritesTo(n, a, p)' <=> WritesTo(n, a, p)
  BY DEF WritesTo
<1>3. CASE \E n \in 1 .. m - 1 :
             WritesTo(n, a, p) /\ \A o \in n + 1 .. m - 1 : ~Writes(o, a)
  BY <1>1, <1>2, <1>3 DEF MapsTo
<1>4. CASE (\A o \in 1 .. m - 1 : ~Writes(o, a)) /\ cRAT[a] = p
  BY <1>1, <1>4 DEF MapsTo
<1> QED
  BY <1>3, <1>4 DEF MapsTo

(* A mapping holds one instruction further if that one does not define it. *)
LEMMA MapsToExtend ==
    ASSUME NEW m \in Nat \ {0}, NEW a, NEW p, MapsTo(m, a, p), ~Writes(m, a)
    PROVE  MapsTo(m + 1, a, p)
<1>1. CASE \E n \in 1 .. m - 1 :
             WritesTo(n, a, p) /\ \A o \in n + 1 .. m - 1 : ~Writes(o, a)
  <2>1. PICK n \in 1 .. m - 1 :
             WritesTo(n, a, p) /\ \A o \in n + 1 .. m - 1 : ~Writes(o, a)
    BY <1>1
  <2>2. \A o \in n + 1 .. (m + 1) - 1 : ~Writes(o, a)
    BY <2>1
  <2>3. n \in 1 .. (m + 1) - 1
    OBVIOUS
  <2> QED
    BY <2>1, <2>2, <2>3 DEF MapsTo
<1>2. CASE (\A o \in 1 .. m - 1 : ~Writes(o, a)) /\ cRAT[a] = p
  BY <1>2 DEF MapsTo
<1> QED
  BY <1>1, <1>2 DEF MapsTo

LEMMA MapsToExtendNext ==
    ASSUME NEW m \in Nat \ {0}, NEW a, NEW p, MapsTo(m, a, p)', ~Writes(m, a)'
    PROVE  MapsTo(m + 1, a, p)'
<1>1. CASE \E n \in 1 .. m - 1 :
             WritesTo(n, a, p)' /\ \A o \in n + 1 .. m - 1 : ~Writes(o, a)'
  <2>1. PICK n \in 1 .. m - 1 :
             WritesTo(n, a, p)' /\ \A o \in n + 1 .. m - 1 : ~Writes(o, a)'
    BY <1>1
  <2>2. \A o \in n + 1 .. (m + 1) - 1 : ~Writes(o, a)'
    BY <2>1
  <2>3. n \in 1 .. (m + 1) - 1
    OBVIOUS
  <2> QED
    BY <2>1, <2>2, <2>3 DEF MapsTo
<1>2. CASE (\A o \in 1 .. m - 1 : ~Writes(o, a)') /\ cRAT'[a] = p
  BY <1>2 DEF MapsTo
<1> QED
  BY <1>1, <1>2 DEF MapsTo

(* The mapping invariants of the next state, with their arguments named. *)
LEMMA SpeculativeMapNext ==
    ASSUME \A a \in AReg : \A m, p :
             (m = Len(rob') + 1 /\ p = fRAT'[a]) => MapsTo(m, a, p)'
    PROVE  SpeculativeMap'
  BY DEF SpeculativeMap, MapsTo, Writes, WritesTo

LEMMA UndoChainNext ==
    ASSUME \A n \in 1 .. Len(rob') : \A i \in 1 .. Len(rob'[n].dst) : \A a, p :
             (a = rob'[n].wr[i] /\ p = prev'[rob'[n].dst[i]]) => MapsTo(n, a, p)'
    PROVE  UndoChain'
<1>1. SUFFICES ASSUME NEW n \in 1 .. Len(rob'), NEW i \in 1 .. Len(rob'[n].dst)
                PROVE  MapsTo(n, rob[n].wr[i], prev[rob[n].dst[i]])'
  BY DEF UndoChain
<1>2. PICK a, p : a = rob'[n].wr[i] /\ p = (prev[rob[n].dst[i]])'
  OBVIOUS
<1>3. MapsTo(n, a, p)'
  BY <1>1, <1>2
<1> QED
  BY <1>2, <1>3 DEF MapsTo, Writes, WritesTo

LEMMA SourcesNext ==
    ASSUME \A n \in 1 .. Len(rob') : \A i \in 1 .. Len(rob'[n].src) : \A a, p :
             (a = rob'[n].rd[i] /\ p = rob'[n].src[i]) => MapsTo(n, a, p)'
    PROVE  Sources'
<1>1. SUFFICES ASSUME NEW n \in 1 .. Len(rob'), NEW i \in 1 .. Len(rob'[n].src)
                PROVE  MapsTo(n, rob[n].rd[i], rob[n].src[i])'
  BY DEF Sources
<1>2. PICK a, p : a = rob'[n].rd[i] /\ p = (rob[n].src[i])'
  OBVIOUS
<1>3. MapsTo(n, a, p)'
  BY <1>1, <1>2
<1> QED
  BY <1>2, <1>3 DEF MapsTo, Writes, WritesTo

(* A step that keeps the operand lists and the maps keeps the mappings. *)
SameLists ==
    /\ Len(rob') = Len(rob)
    /\ \A n \in 1 .. Len(rob) :
         /\ rob'[n].rd = rob[n].rd /\ rob'[n].src = rob[n].src
         /\ rob'[n].wr = rob[n].wr /\ rob'[n].dst = rob[n].dst

LEMMA SameListsKeepMaps ==
    ASSUME TypeOK, WellFormed, RecoveringIsEmpty, UndoChain, Sources, SpeculativeMap,
           SameLists, UNCHANGED <<fRAT, cRAT, prev, recovering>>, rob = << >> => rob' = << >>
    PROVE  WellFormed' /\ RecoveringIsEmpty' /\ UndoChain' /\ Sources' /\ SpeculativeMap'
<1>1. /\ Len(rob) \in Nat /\ Len(rob') = Len(rob)
      /\ \A n \in 1 .. Len(rob) :
           /\ rob'[n].rd = rob[n].rd /\ rob'[n].src = rob[n].src
           /\ rob'[n].wr = rob[n].wr /\ rob'[n].dst = rob[n].dst
  BY DEF TypeOK, SameLists
<1>m. ASSUME NEW m \in 1 .. Len(rob) + 1, NEW a, NEW p, MapsTo(m, a, p)
      PROVE  MapsTo(m, a, p)'
  <2>1. m \in Nat \ {0} /\ \A n \in 1 .. m - 1 : n \in 1 .. Len(rob)
    BY <1>1
  <2> QED
    BY <1>1, <1>m, <2>1, MapsToSame
<1>2. WellFormed'
  BY <1>1 DEF WellFormed
<1>3. RecoveringIsEmpty'
  BY DEF RecoveringIsEmpty
<1>4. UndoChain'
  <2>1. ASSUME NEW n \in 1 .. Len(rob'), NEW i \in 1 .. Len(rob'[n].dst), NEW a, NEW p,
               a = rob'[n].wr[i], p = prev'[rob'[n].dst[i]]
        PROVE  MapsTo(n, a, p)'
    <3>1. MapsTo(n, a, p)
      BY <1>1, <2>1 DEF UndoChain
    <3>2. n \in 1 .. Len(rob) + 1
      BY <1>1
    <3> QED
      BY <1>m, <3>1, <3>2
  <2> QED
    BY <2>1, UndoChainNext
<1>5. Sources'
  <2>1. ASSUME NEW n \in 1 .. Len(rob'), NEW i \in 1 .. Len(rob'[n].src), NEW a, NEW p,
               a = rob'[n].rd[i], p = rob'[n].src[i]
        PROVE  MapsTo(n, a, p)'
    <3>1. MapsTo(n, a, p)
      BY <1>1, <2>1 DEF Sources
    <3>2. n \in 1 .. Len(rob) + 1
      BY <1>1
    <3> QED
      BY <1>m, <3>1, <3>2
  <2> QED
    BY <2>1, SourcesNext
<1>6. SpeculativeMap'
  <2>1. CASE recovering
    BY <2>1 DEF SpeculativeMap
  <2>2. CASE ~recovering
    <3>1. ASSUME NEW a \in AReg, NEW m, NEW p, m = Len(rob') + 1, p = fRAT'[a]
          PROVE  MapsTo(m, a, p)'
      <4>1. MapsTo(m, a, p)
        BY <1>1, <2>2, <3>1 DEF SpeculativeMap
      <4>2. m \in 1 .. Len(rob) + 1
        BY <1>1, <3>1
      <4> QED
        BY <1>m, <4>1, <4>2
    <3> QED
      BY <3>1, SpeculativeMapNext
  <2> QED
    BY <2>1, <2>2
<1> QED
  BY <1>2, <1>3, <1>4, <1>5, <1>6

LEMMA SameListsInFlight ==
    ASSUME TypeOK, InFlightExact, SameLists, UNCHANGED recovering,
           \A p \in PReg : regState'[p] \in Renamed <=> regState[p] \in Renamed
    PROVE  InFlightExact'
<1>1. /\ Len(rob') = Len(rob)
      /\ \A n \in 1 .. Len(rob) : rob'[n].dst = rob[n].dst
  BY DEF SameLists
<1>2. \A n \in 1 .. Len(rob) : \A i \in 1 .. Len(rob[n].dst) : rob[n].dst[i] \in PReg
  BY RobEntry
<1>3. ASSUME NEW n \in 1 .. Len(rob'), NEW m \in 1 .. Len(rob'),
             NEW i \in 1 .. Len(rob'[n].dst), NEW j \in 1 .. Len(rob'[m].dst),
             rob'[n].dst[i] = rob'[m].dst[j]
      PROVE  n = m /\ i = j
  <2>1. /\ n \in 1 .. Len(rob) /\ m \in 1 .. Len(rob)
        /\ rob'[n].dst = rob[n].dst /\ rob'[m].dst = rob[m].dst
    BY <1>1
  <2>2. /\ i \in 1 .. Len(rob[n].dst) /\ j \in 1 .. Len(rob[m].dst)
        /\ rob[n].dst[i] = rob[m].dst[j]
    BY <1>3, <2>1
  <2>3. \A x \in 1 .. Len(rob[n].dst), y \in 1 .. Len(rob[m].dst) :
          rob[n].dst[x] = rob[m].dst[y] => n = m /\ x = y
    BY <2>1 DEF InFlightExact
  <2> QED
    BY <2>2, <2>3
<1>4. ASSUME NEW n \in 1 .. Len(rob'), NEW i \in 1 .. Len(rob'[n].dst)
      PROVE  regState'[rob'[n].dst[i]] \in Renamed
  <2>1. n \in 1 .. Len(rob) /\ rob'[n].dst = rob[n].dst
    BY <1>1
  <2>2. regState[rob[n].dst[i]] \in Renamed
    BY <2>1 DEF InFlightExact
  <2> QED
    BY <1>2, <2>1, <2>2
<1>5. ASSUME ~recovering', NEW p \in PReg, regState'[p] \in Renamed
      PROVE  \E n \in 1 .. Len(rob') : \E i \in 1 .. Len(rob'[n].dst) : rob'[n].dst[i] = p
  <2>1. PICK n \in 1 .. Len(rob) : \E i \in 1 .. Len(rob[n].dst) : rob[n].dst[i] = p
    BY <1>5 DEF InFlightExact
  <2>2. n \in 1 .. Len(rob') /\ rob'[n].dst = rob[n].dst
    BY <1>1
  <2> QED
    BY <2>1, <2>2
<1>6. Renamed' = Renamed
  BY DEF Renamed
<1> QED
  BY <1>3, <1>4, <1>5, <1>6 DEF InFlightExact

-----------------------------------------------------------------------------
(* The registers a window is given. *)
given(w) == Take(getAvailablePR(w), Len(front))

LEMMA GivenFacts ==
    ASSUME FreeListsExact, NEW w \in Window, canRename(front, w)
    PROVE  /\ front \in Seq(AReg) /\ Distinct(front) /\ Len(front) \in Nat
           /\ given(w) \in Seq(PReg) /\ Len(given(w)) = Len(front)
           /\ Distinct(given(w))
           /\ \A i \in 1 .. Len(front) :
                /\ front[i] \in AReg /\ given(w)[i] \in PReg
                /\ regState[given(w)[i]] = "AVAILABLE"
<1> DEFINE pool == getAvailablePR(w)
           new == given(w)
<1>1. front \in Seq(AReg) /\ Distinct(front) /\ Len(front) \in Nat
  BY ListsAssumption DEF FreeListsExact, TypeOK
<1>2. /\ pool \in Seq(PReg) /\ Distinct(pool) /\ Len(pool) = getNumAvailablePR(w)
      /\ Elements(pool) = UNION {Elements(avail[s]) : s \in Segment}
  BY AvailableRegisters
<1>3. new = Take(pool, Len(front))
  BY DEF given
<1> HIDE DEF pool, new
<1>4. Len(front) \in 0 .. Len(pool)
  <2>1. Len(pool) \in Nat
    BY <1>2
  <2> QED
    BY <1>1, <1>2, <2>1 DEF canRename
<1>5. new \in Seq(PReg) /\ Len(new) = Len(front) /\ \A i \in 1 .. Len(front) : new[i] = pool[i]
  BY <1>2, <1>3, <1>4, TakeDrop
<1>6. Distinct(new)
  BY <1>2, <1>3, <1>4, DistinctTakeDrop
<1>7. ASSUME NEW i \in 1 .. Len(front)
      PROVE  /\ front[i] \in AReg /\ new[i] \in PReg
             /\ regState[new[i]] = "AVAILABLE"
  <2>1. i \in 1 .. Len(pool)
    BY <1>4
  <2>2. new[i] \in Elements(pool)
    BY <1>5, <2>1 DEF Elements
  <2>3. PICK s \in Segment : new[i] \in Elements(avail[s])
    BY <1>2, <2>2
  <2>4. new[i] \in {p \in PReg : PR2APRindx(p) = s /\ regState[p] = "AVAILABLE"}
    BY <2>3 DEF FreeListsExact
  <2>5. front[i] \in AReg
    BY <1>1, ElementOfSeq
  <2> QED
    BY <2>4, <2>5
<1> QED
  BY <1>1, <1>5, <1>6, <1>7 DEF new

(* What renaming the instruction at the front does to the ROB. *)
LEMMA RenameRob ==
    ASSUME FreeListsExact, NEW rd \in ReadLists, NEW w \in Window, NEW last \in BOOLEAN,
           renameRegs(rd, w, last)
    PROVE  /\ canRename(front, w)
           /\ rob' \in Seq(Entry) /\ Len(rob) \in Nat /\ Len(rob') = Len(rob) + 1
           /\ \A n \in 1 .. Len(rob) : rob'[n] = rob[n]
           /\ LET e == rob'[Len(rob) + 1] IN
              /\ e.rd = rd /\ e.wr = front /\ e.dst = given(w)
              /\ e.waits = Elements(e.src) /\ e.stage = "DISPATCH"
              /\ Len(e.src) = Len(rd) /\ rd \in Seq(AReg)
              /\ \A i \in 1 .. Len(rd) : rd[i] \in AReg /\ e.src[i] = fRAT[rd[i]]
<1> DEFINE new == given(w)
           src == renameSources(rd, front, new)
           e == [win |-> w, last |-> last, rd |-> rd, src |-> src,
                 waits |-> Elements(src), far |-> FALSE, wr |-> front,
                 dst |-> new, stage |-> "DISPATCH"]
<1>1. canRename(front, w) /\ rob' = Append(rob, e)
  BY DEF renameRegs, given
<1>2. rob \in Seq(Entry) /\ fRAT \in [AReg -> PReg]
  BY DEF FreeListsExact, TypeOK
<1>3. rd \in Seq(AReg) /\ \A i \in 1 .. Len(rd) : rd[i] \in AReg
  BY ListsAssumption, ElementOfSeq
<1>4. /\ src \in Seq(PReg) /\ Len(src) = Len(rd)
      /\ \A i \in 1 .. Len(rd) : src[i] = fRAT[rd[i]]
  BY <1>2, <1>3 DEF renameSources
<1>5. front \in Seq(AReg) /\ new \in Seq(PReg)
  BY <1>1, GivenFacts
<1> HIDE DEF new, src
<1>6. Elements(src) \subseteq PReg
  BY <1>4, ElementsIn
<1>7. e \in Entry
  BY <1>3, <1>4, <1>5, <1>6 DEF Entry
<1>8. /\ e.rd = rd /\ e.src = src /\ e.wr = front /\ e.dst = new
      /\ e.waits = Elements(src) /\ e.stage = "DISPATCH"
  OBVIOUS
<1> HIDE DEF e
<1>9. /\ rob' \in Seq(Entry) /\ Len(rob) \in Nat /\ Len(rob') = Len(rob) + 1
      /\ \A n \in 1 .. Len(rob) : rob'[n] = rob[n]
      /\ rob'[Len(rob) + 1] = e
  BY <1>1, <1>2, <1>7, AppendProperties
<1> QED
  BY <1>1, <1>3, <1>4, <1>8, <1>9 DEF new

(* What it does to the tables. *)
LEMMA RenameTables ==
    ASSUME FreeListsExact, NEW rd \in ReadLists, NEW w \in Window, NEW last \in BOOLEAN,
           renameRegs(rd, w, last)
    PROVE  /\ \A i \in 1 .. Len(front) :
                /\ fRAT'[front[i]] = given(w)[i]
                /\ prev'[given(w)[i]] = fRAT[front[i]]
                /\ regState'[given(w)[i]] = "RENAMED_INVALID"
           /\ \A a \in AReg : (\A i \in 1 .. Len(front) : front[i] # a) =>
                fRAT'[a] = fRAT[a]
           /\ \A p \in PReg : (\A i \in 1 .. Len(front) : given(w)[i] # p) =>
                prev'[p] = prev[p] /\ regState'[p] = regState[p]
           /\ fRAT' \in [AReg -> PReg]
           /\ prev' \in [PReg -> PReg \cup {NoPR}]
           /\ regState' \in [PReg -> RegState]
           /\ avail' = popped(given(w))
<1> DEFINE new == given(w)
<1>1. /\ Distinct(front) /\ Len(new) = Len(front) /\ Distinct(new) /\ Len(front) \in Nat
      /\ \A i \in 1 .. Len(front) : front[i] \in AReg /\ new[i] \in PReg
  <2>1. canRename(front, w)
    BY RenameRob
  <2> QED
    BY <2>1, GivenFacts
<1>2. /\ fRAT' = updated(fRAT, front, new)
      /\ prev' = updatePR(front, new)
      /\ regState' = [p \in PReg |-> IF p \in Elements(new) THEN "RENAMED_INVALID"
                                     ELSE regState[p]]
      /\ avail' = popped(new)
  BY DEF renameRegs, given
<1>t. fRAT \in [AReg -> PReg] /\ regState \in [PReg -> RegState]
      /\ prev \in [PReg -> PReg \cup {NoPR}]
  BY DEF FreeListsExact, TypeOK
<1> HIDE DEF new
<1>3. ASSUME NEW i \in 1 .. Len(front)
      PROVE  /\ fRAT'[front[i]] = new[i]
             /\ prev'[new[i]] = fRAT[front[i]]
             /\ regState'[new[i]] = "RENAMED_INVALID"
  <2>1. IndexOf(front, front[i]) = i /\ IndexOf(new, new[i]) = i
    BY <1>1, IndexInList
  <2>2. front[i] \in Elements(front) /\ new[i] \in Elements(new)
    BY <1>1 DEF Elements
  <2>3. front[i] \in AReg /\ new[i] \in PReg
    BY <1>1
  <2> QED
    BY <1>2, <2>1, <2>2, <2>3 DEF updated, updatePR
<1>4. ASSUME NEW a \in AReg, \A i \in 1 .. Len(front) : front[i] # a
      PROVE  fRAT'[a] = fRAT[a]
  BY <1>2, <1>4 DEF updated, Elements
<1>5. ASSUME NEW p \in PReg, \A i \in 1 .. Len(front) : new[i] # p
      PROVE  prev'[p] = prev[p] /\ regState'[p] = regState[p]
  <2>1. p \notin Elements(new)
    BY <1>1, <1>5 DEF Elements
  <2> QED
    BY <1>2, <2>1 DEF updatePR
<1>6. fRAT' \in [AReg -> PReg]
  <2>1. ASSUME NEW a \in AReg PROVE fRAT'[a] \in PReg
    <3>1. CASE \E i \in 1 .. Len(front) : front[i] = a
      BY <1>1, <1>3, <3>1
    <3>2. CASE \A i \in 1 .. Len(front) : front[i] # a
      BY <1>4, <1>t, <3>2
    <3> QED
      BY <3>1, <3>2
  <2> QED
    BY <1>2, <2>1 DEF updated
<1>7. prev' \in [PReg -> PReg \cup {NoPR}]
  <2>1. ASSUME NEW p \in PReg PROVE prev'[p] \in PReg \cup {NoPR}
    <3>1. CASE \E i \in 1 .. Len(front) : new[i] = p
      BY <1>1, <1>3, <1>t, <3>1
    <3>2. CASE \A i \in 1 .. Len(front) : new[i] # p
      BY <1>5, <1>t, <3>2
    <3> QED
      BY <3>1, <3>2
  <2> QED
    BY <1>2, <2>1 DEF updatePR
<1>8. regState' \in [PReg -> RegState]
  BY <1>2, <1>t DEF RegState
<1> QED
  BY <1>2, <1>3, <1>4, <1>5, <1>6, <1>7, <1>8 DEF new

(* Renaming preserves the invariant. *)
LEMMA RenamePreserves ==
    ASSUME IInv, NEW rd \in ReadLists, NEW w \in Window, NEW last \in BOOLEAN,
           renameRegs(rd, w, last)
    PROVE  IInv'
<1>z. PICK N : N = Len(rob) + 1
  OBVIOUS
<1>n. PICK new : new = given(w)
  OBVIOUS
<1>i. TypeOK /\ WellFormed /\ FreeListsExact /\ CommittedMapExact /\ InFlightExact
      /\ UndoChain /\ Sources /\ SpeculativeMap /\ DroppedStayReadable
  BY DEF IInv
<1>u. cRAT' = cRAT /\ recovering' = recovering /\ recovering = FALSE
      /\ front' \in WriteLists
  BY <1>i DEF renameRegs, TypeOK
<1>r. /\ rob' \in Seq(Entry) /\ Len(rob) \in Nat /\ Len(rob') = N /\ N = Len(rob) + 1
      /\ \A n \in 1 .. Len(rob) : rob'[n] = rob[n]
  BY <1>i, <1>z, RenameRob
<1>e. /\ rob'[N].rd = rd /\ rob'[N].wr = front /\ rob'[N].dst = new
      /\ rob'[N].waits = Elements(rob'[N].src) /\ rob'[N].stage = "DISPATCH"
      /\ Len(rob'[N].src) = Len(rd)
      /\ \A i \in 1 .. Len(rd) : rd[i] \in AReg /\ rob'[N].src[i] = fRAT[rd[i]]
  BY <1>i, <1>n, <1>z, RenameRob
<1>b. /\ Distinct(front) /\ new \in Seq(PReg) /\ Len(new) = Len(front) /\ Distinct(new)
      /\ \A i \in 1 .. Len(front) :
           front[i] \in AReg /\ new[i] \in PReg /\ regState[new[i]] = "AVAILABLE"
  <2>1. canRename(front, w)
    BY <1>i, RenameRob
  <2> QED
    BY <1>i, <1>n, <2>1, GivenFacts
<1>c. /\ \A i \in 1 .. Len(front) :
           /\ fRAT'[front[i]] = new[i]
           /\ prev'[new[i]] = fRAT[front[i]]
           /\ regState'[new[i]] = "RENAMED_INVALID"
      /\ \A a \in AReg : (\A i \in 1 .. Len(front) : front[i] # a) =>
           fRAT'[a] = fRAT[a]
      /\ \A p \in PReg : (\A i \in 1 .. Len(front) : new[i] # p) =>
           prev'[p] = prev[p] /\ regState'[p] = regState[p]
  BY <1>i, <1>n, RenameTables
<1>t. /\ fRAT' \in [AReg -> PReg] /\ prev' \in [PReg -> PReg \cup {NoPR}]
      /\ regState' \in [PReg -> RegState] /\ avail' = popped(new)
  BY <1>i, <1>n, RenameTables
<1>s. /\ "AVAILABLE" \notin Renamed /\ "ARCH_REG" \notin Renamed
      /\ "RENAMED_INVALID" \in Renamed
  BY DEF Renamed
<1>o. \A n \in 1 .. N : n \in 1 .. Len(rob) \/ n = N
  BY <1>r
<1>f. \A n \in 1 .. Len(rob) : \A i \in 1 .. Len(rob[n].dst) :
        /\ rob[n].dst[i] \in PReg
        /\ \A j \in 1 .. Len(front) : rob[n].dst[i] # new[j]
  <2>1. \A n \in 1 .. Len(rob) : \A i \in 1 .. Len(rob[n].dst) :
          rob[n].dst[i] \in PReg /\ regState[rob[n].dst[i]] \in Renamed
    BY <1>i, RobEntry DEF InFlightExact
  <2> QED
    BY <1>b, <1>s, <2>1
<1>v. ASSUME NEW s \in Segment
      PROVE  /\ avail'[s] \in Seq(PReg) /\ Distinct(avail'[s])
             /\ Elements(avail'[s]) = Elements(avail[s]) \cap (PReg \ Elements(new))
  <2>1. avail'[s] = Filter(avail[s], PReg \ Elements(new))
    BY <1>t DEF popped
  <2>2. avail[s] \in Seq(PReg) /\ Distinct(avail[s])
    BY <1>i DEF FreeListsExact, TypeOK
  <2> QED
    BY <2>1, <2>2, FilterElements, FilterDistinct
<1>1. TypeOK'
  <2>1. avail' \in [Segment -> Seq(PReg)]
    BY <1>t, <1>v DEF popped
  <2> QED
    BY <1>i, <1>r, <1>t, <1>u, <2>1 DEF TypeOK
<1>2. WellFormed'
  <2>1. \A n \in 1 .. Len(rob) :
          /\ Len(rob'[n].src) = Len(rob'[n].rd)
          /\ Len(rob'[n].dst) = Len(rob'[n].wr)
          /\ Distinct(rob'[n].wr)
    BY <1>r, <1>i DEF WellFormed
  <2>2. /\ Len(rob'[N].src) = Len(rob'[N].rd)
        /\ Len(rob'[N].dst) = Len(rob'[N].wr)
        /\ Distinct(rob'[N].wr)
    BY <1>b, <1>e
  <2> QED
    BY <1>r, <1>o, <2>1, <2>2 DEF WellFormed
<1>3. RecoveringIsEmpty'
  BY <1>u DEF RecoveringIsEmpty
<1>4. FreeListsExact'
  <2>1. ASSUME NEW p \in PReg
        PROVE  regState'[p] = "AVAILABLE" <=> regState[p] = "AVAILABLE" /\ p \notin Elements(new)
    <3>1. CASE \E i \in 1 .. Len(front) : new[i] = p
      <4>1. p \in Elements(new)
        BY <1>b, <3>1 DEF Elements
      <4> QED
        BY <1>c, <3>1, <4>1
    <3>2. CASE \A i \in 1 .. Len(front) : new[i] # p
      <4>1. p \notin Elements(new)
        BY <1>b, <3>2 DEF Elements
      <4> QED
        BY <1>c, <3>2, <4>1
    <3> QED
      BY <3>1, <3>2
  <2>2. ASSUME NEW s \in Segment
        PROVE  Elements(avail'[s]) =
                 {p \in PReg : PR2APRindx(p) = s /\ regState'[p] = "AVAILABLE"}
    <3>1. Elements(avail[s]) = {p \in PReg : PR2APRindx(p) = s /\ regState[p] = "AVAILABLE"}
      BY <1>i DEF FreeListsExact
    <3> QED
      BY <1>v, <2>1, <3>1
  <2> QED
    BY <1>1, <1>v, <2>2 DEF FreeListsExact
<1>5. CommittedMapExact'
  <2>1. \A p \in PReg : regState'[p] = "ARCH_REG" <=> regState[p] = "ARCH_REG"
    BY <1>b, <1>c
  <2> QED
    BY <1>i, <1>u, <2>1 DEF CommittedMapExact
<1>6. InFlightExact'
  <2>1. ASSUME NEW n \in 1 .. N, NEW m \in 1 .. N,
               NEW i \in 1 .. Len(rob'[n].dst), NEW j \in 1 .. Len(rob'[m].dst),
               rob'[n].dst[i] = rob'[m].dst[j]
        PROVE  n = m /\ i = j
    <3>1. CASE n \in 1 .. Len(rob) /\ m \in 1 .. Len(rob)
      <4>1. rob'[n] = rob[n] /\ rob'[m] = rob[m]
        BY <1>r, <3>1
      <4> QED
        BY <1>i, <2>1, <3>1, <4>1 DEF InFlightExact
    <3>2. CASE n = N /\ m = N
      <4>1. i \in 1 .. Len(front) /\ j \in 1 .. Len(front) /\ new[i] = new[j]
        BY <1>b, <1>e, <2>1, <3>2
      <4> QED
        BY <1>b, <3>2, <4>1 DEF Distinct
    <3>3. CASE n \in 1 .. Len(rob) /\ m = N
      <4>1. rob'[n] = rob[n] /\ i \in 1 .. Len(rob[n].dst)
        BY <1>r, <3>3
      <4>2. j \in 1 .. Len(front) /\ new[j] = rob[n].dst[i]
        BY <1>b, <1>e, <2>1, <3>3, <4>1
      <4> QED
        BY <1>f, <3>3, <4>1, <4>2
    <3>4. CASE n = N /\ m \in 1 .. Len(rob)
      <4>1. rob'[m] = rob[m] /\ j \in 1 .. Len(rob[m].dst)
        BY <1>r, <3>4
      <4>2. i \in 1 .. Len(front) /\ new[i] = rob[m].dst[j]
        BY <1>b, <1>e, <2>1, <3>4, <4>1
      <4> QED
        BY <1>f, <3>4, <4>1, <4>2
    <3> QED
      BY <1>o, <3>1, <3>2, <3>3, <3>4
  <2>2. ASSUME NEW n \in 1 .. N, NEW i \in 1 .. Len(rob'[n].dst)
        PROVE  regState'[rob'[n].dst[i]] \in Renamed
    <3>1. CASE n \in 1 .. Len(rob)
      <4>1. rob'[n] = rob[n] /\ i \in 1 .. Len(rob[n].dst)
        BY <1>r, <2>2, <3>1
      <4>2. regState'[rob[n].dst[i]] = regState[rob[n].dst[i]]
        BY <1>c, <1>f, <3>1, <4>1
      <4> QED
        BY <1>i, <3>1, <4>1, <4>2 DEF InFlightExact
    <3>2. CASE n = N
      <4>1. i \in 1 .. Len(front) /\ rob'[n].dst[i] = new[i]
        BY <1>b, <1>e, <2>2, <3>2
      <4> QED
        BY <1>c, <1>s, <4>1
    <3> QED
      BY <1>o, <3>1, <3>2
  <2>3. ASSUME NEW p \in PReg, regState'[p] \in Renamed
        PROVE  \E n \in 1 .. N : \E i \in 1 .. Len(rob'[n].dst) : rob'[n].dst[i] = p
    <3>1. CASE \E i \in 1 .. Len(front) : new[i] = p
      <4>1. N \in 1 .. N /\ Len(rob'[N].dst) = Len(front)
        BY <1>r, <1>b, <1>e
      <4> QED
        BY <1>e, <3>1, <4>1
    <3>2. CASE \A i \in 1 .. Len(front) : new[i] # p
      <4>1. regState[p] \in Renamed
        BY <1>c, <2>3, <3>2
      <4>2. PICK n \in 1 .. Len(rob) : \E i \in 1 .. Len(rob[n].dst) : rob[n].dst[i] = p
        BY <1>i, <1>u, <4>1 DEF InFlightExact
      <4>3. n \in 1 .. N /\ rob'[n] = rob[n]
        BY <1>r
      <4> QED
        BY <4>2, <4>3
    <3> QED
      BY <3>1, <3>2
  <2>4. Len(rob') = N
    BY <1>r
  <2> QED
    BY <2>1, <2>2, <2>3, <2>4 DEF InFlightExact, Renamed
<1>m. ASSUME NEW m \in 1 .. N, NEW a, NEW p, MapsTo(m, a, p)
      PROVE  MapsTo(m, a, p)'
  <2>1. m \in Nat \ {0} /\ \A n \in 1 .. m - 1 : n \in 1 .. Len(rob)
    BY <1>r
  <2>2. \A n \in 1 .. m - 1 : rob'[n].wr = rob[n].wr /\ rob'[n].dst = rob[n].dst
    BY <1>r, <2>1
  <2> QED
    BY <1>m, <1>u, <2>1, <2>2, MapsToSame
<1>7. SpeculativeMap'
  <2>1. ASSUME NEW a \in AReg, NEW p, p = fRAT'[a]
        PROVE  MapsTo(N + 1, a, p)'
    <3>1. CASE \A i \in 1 .. Len(front) : front[i] # a
      <4>1. MapsTo(N, a, p)
        BY <1>c, <1>i, <1>r, <1>u, <2>1, <3>1 DEF SpeculativeMap
      <4>2. MapsTo(N, a, p)'
        BY <1>m, <1>r, <4>1
      <4>3. ~Writes(N, a)'
        BY <1>e, <3>1 DEF Writes, Elements
      <4> QED
        BY <1>r, <4>2, <4>3, MapsToExtendNext
    <3>2. CASE \E i \in 1 .. Len(front) : front[i] = a
      <4>1. WritesTo(N, a, p)'
        BY <1>c, <1>e, <2>1, <3>2 DEF WritesTo
      <4>2. N \in 1 .. (N + 1) - 1 /\ N + 1 .. (N + 1) - 1 = {}
        BY <1>r
      <4> QED
        BY <4>1, <4>2 DEF MapsTo
    <3> QED
      BY <3>1, <3>2
  <2> QED
    BY <1>r, <2>1, SpeculativeMapNext
<1>8. UndoChain'
  <2>1. ASSUME NEW n \in 1 .. N, NEW i \in 1 .. Len(rob'[n].dst), NEW a, NEW p,
               a = rob'[n].wr[i], p = prev'[rob'[n].dst[i]]
        PROVE  MapsTo(n, a, p)'
    <3>1. CASE n \in 1 .. Len(rob)
      <4>1. rob'[n] = rob[n] /\ i \in 1 .. Len(rob[n].dst) /\ i \in 1 .. Len(rob[n].wr)
        BY <1>i, <1>r, <2>1, <3>1 DEF WellFormed
      <4>p. p = prev[rob[n].dst[i]]
        BY <1>c, <1>f, <2>1, <3>1, <4>1
      <4>3. MapsTo(n, a, p)
        BY <1>i, <2>1, <3>1, <4>1, <4>p DEF UndoChain
      <4> QED
        BY <1>m, <4>3
    <3>2. CASE n = N
      <4>1. i \in 1 .. Len(front) /\ a = front[i] /\ p = fRAT[a] /\ a \in AReg
        BY <1>b, <1>c, <1>e, <2>1, <3>2
      <4>2. MapsTo(N, a, p)
        BY <1>i, <1>r, <1>u, <4>1 DEF SpeculativeMap
      <4> QED
        BY <1>m, <3>2, <4>2
    <3> QED
      BY <1>o, <3>1, <3>2
  <2> QED
    BY <1>r, <2>1, UndoChainNext
<1>9. Sources'
  <2>1. ASSUME NEW n \in 1 .. N, NEW i \in 1 .. Len(rob'[n].src), NEW a, NEW p,
               a = rob'[n].rd[i], p = rob'[n].src[i]
        PROVE  MapsTo(n, a, p)'
    <3>1. CASE n \in 1 .. Len(rob)
      <4>1. rob'[n] = rob[n] /\ i \in 1 .. Len(rob[n].src)
        BY <1>r, <2>1, <3>1
      <4>3. MapsTo(n, a, p)
        BY <1>i, <2>1, <3>1, <4>1 DEF Sources
      <4> QED
        BY <1>m, <4>3
    <3>2. CASE n = N
      <4>1. i \in 1 .. Len(rd) /\ a = rd[i] /\ a \in AReg /\ p = fRAT[a]
        BY <1>e, <2>1, <3>2
      <4>3. MapsTo(N, a, p)
        BY <1>i, <1>r, <1>u, <4>1 DEF SpeculativeMap
      <4> QED
        BY <1>m, <3>2, <4>3
    <3> QED
      BY <1>o, <3>1, <3>2
  <2> QED
    BY <1>r, <2>1, SourcesNext
<1>10. DroppedStayReadable'
  <2>1. ASSUME NEW n \in 1 .. N, rob'[n].stage = "DISPATCH",
               NEW p \in Elements(rob'[n].src) \ rob'[n].waits
        PROVE  regState'[p] \in {"ARCH_REG", "RENAMED_VALID"}
    <3>1. CASE n \in 1 .. Len(rob)
      <4>1. rob'[n] = rob[n]
        BY <1>r, <3>1
      <4>2. regState[p] \in {"ARCH_REG", "RENAMED_VALID"}
        BY <1>i, <1>u, <2>1, <3>1, <4>1 DEF DroppedStayReadable
      <4>3. p \in PReg
        BY <1>i, <2>1, <3>1, <4>1, RobEntry DEF Elements
      <4>4. \A i \in 1 .. Len(front) : new[i] # p
        BY <1>b, <4>2
      <4> QED
        BY <1>c, <4>2, <4>3, <4>4
    <3>2. CASE n = N
      BY <1>e, <2>1, <3>2
    <3> QED
      BY <1>o, <3>1, <3>2
  <2> QED
    BY <1>r, <2>1 DEF DroppedStayReadable
<1> QED
  BY <1>1, <1>2, <1>3, <1>4, <1>5, <1>6, <1>7, <1>8, <1>9, <1>10 DEF IInv

-----------------------------------------------------------------------------
(* A look at a waiting instruction preserves the invariant. *)
LEMMA IssuePreserves ==
    ASSUME IInv, NEW n \in 1 .. Len(rob), isReady(n)
    PROVE  IInv'
<1>i. TypeOK /\ WellFormed /\ RecoveringIsEmpty /\ FreeListsExact /\ CommittedMapExact
      /\ InFlightExact /\ UndoChain /\ Sources /\ SpeculativeMap /\ DroppedStayReadable
  BY DEF IInv
<1>u. /\ UNCHANGED <<fRAT, cRAT, regState, prev, avail, recovering, front>>
      /\ ~recovering /\ rob[n].stage = "DISPATCH"
  BY DEF isReady, regVars
<1> DEFINE waits == rob[n].waits \ readableNow(rob[n])
           far == rob[n].far \/ \E p \in readableNow(rob[n]) : ~isGrfNearby(rob[n].win, p)
           stage == IF waits = {} /\ ~far THEN "ISSUE" ELSE rob[n].stage
           e == [rob[n] EXCEPT !.waits = waits, !.far = far, !.stage = stage]
<1>1. rob \in Seq(Entry) /\ rob[n] \in Entry /\ Len(rob) \in Nat
  BY <1>i, RobEntry DEF TypeOK
<1>2. rob' = [rob EXCEPT ![n] = e]
  BY DEF isReady
<1>3. /\ waits \in SUBSET PReg /\ far \in BOOLEAN
      /\ stage \in {"DISPATCH", "ISSUE", "COMPLETE"}
  <2>1. rob[n].waits \in SUBSET PReg /\ rob[n].far \in BOOLEAN
    BY <1>1 DEF Entry
  <2>2. waits \in SUBSET PReg
    BY <2>1
  <2>3. (\E p \in readableNow(rob[n]) : ~isGrfNearby(rob[n].win, p)) \in BOOLEAN
    BY Zenon
  <2>4. far \in BOOLEAN
    <3> DEFINE nearby == \E p \in readableNow(rob[n]) : ~isGrfNearby(rob[n].win, p)
    <3> HIDE DEF nearby
    <3> QED
      BY <2>1 DEF nearby
  <2> HIDE DEF waits, far
  <2> QED
    BY <1>u, <2>2, <2>4
<1>r. \A p \in rob[n].waits \ waits : regState[p] \in {"ARCH_REG", "RENAMED_VALID"}
  BY DEF readableNow, isPRvalid
<1> HIDE DEF waits, far, stage
<1>4. /\ e \in Entry
      /\ e.rd = rob[n].rd /\ e.src = rob[n].src /\ e.wr = rob[n].wr /\ e.dst = rob[n].dst
      /\ e.waits = waits
  BY <1>1, <1>3 DEF Entry
<1> HIDE DEF e
<1>5. /\ rob' \in Seq(Entry) /\ Len(rob') = Len(rob) /\ rob'[n] = e
      /\ \A m \in 1 .. Len(rob) : m # n => rob'[m] = rob[m]
  BY <1>1, <1>2, <1>4, ExceptSeq
<1>6. SameLists
  BY <1>4, <1>5 DEF SameLists
<1>7. TypeOK'
  BY <1>i, <1>u, <1>5 DEF TypeOK
<1>8. WellFormed' /\ RecoveringIsEmpty' /\ UndoChain' /\ Sources' /\ SpeculativeMap'
  <2>1. rob = << >> => rob' = << >>
    BY <1>1, <1>5
  <2> QED
    BY <1>i, <1>u, <1>6, <2>1, SameListsKeepMaps
<1>9. FreeListsExact' /\ CommittedMapExact'
  BY <1>i, <1>u, <1>7 DEF FreeListsExact, CommittedMapExact
<1>10. InFlightExact'
  BY <1>i, <1>u, <1>6, SameListsInFlight
<1>11. DroppedStayReadable'
  <2>1. ASSUME NEW m \in 1 .. Len(rob), rob'[m].stage = "DISPATCH",
               NEW p \in Elements(rob'[m].src) \ rob'[m].waits
        PROVE  regState[p] \in {"ARCH_REG", "RENAMED_VALID"}
    <3>1. CASE m = n
      <4>1. p \in Elements(rob[n].src) \ waits
        BY <1>4, <1>5, <2>1, <3>1
      <4>2. CASE p \in rob[n].waits
        BY <1>r, <4>1, <4>2
      <4>3. CASE p \notin rob[n].waits
        BY <1>i, <1>u, <4>1, <4>3 DEF DroppedStayReadable
      <4> QED
        BY <4>2, <4>3
    <3>2. CASE m # n
      BY <1>i, <1>u, <1>5, <2>1, <3>2 DEF DroppedStayReadable
    <3> QED
      BY <3>1, <3>2
  <2> QED
    BY <1>5, <1>u, <2>1 DEF DroppedStayReadable
<1> QED
  BY <1>7, <1>8, <1>9, <1>10, <1>11 DEF IInv

(* A tick of the clock preserves the invariant. *)
LEMMA TickPreserves ==
    ASSUME IInv, tick
    PROVE  IInv'
<1>i. TypeOK /\ WellFormed /\ RecoveringIsEmpty /\ FreeListsExact /\ CommittedMapExact
      /\ InFlightExact /\ UndoChain /\ Sources /\ SpeculativeMap /\ DroppedStayReadable
  BY DEF IInv
<1>u. UNCHANGED <<fRAT, cRAT, regState, prev, avail, recovering, front>>
  BY DEF tick, regVars
<1>1. rob \in Seq(Entry) /\ Len(rob) \in Nat /\ \A n \in 1 .. Len(rob) : rob[n] \in Entry
  BY <1>i, RobEntry DEF TypeOK
<1>2. rob' = [n \in 1 .. Len(rob) |-> [rob[n] EXCEPT !.far = FALSE]]
  BY DEF tick
<1>3. ASSUME NEW n \in 1 .. Len(rob)
      PROVE  /\ rob'[n] \in Entry
             /\ rob'[n].rd = rob[n].rd /\ rob'[n].src = rob[n].src
             /\ rob'[n].wr = rob[n].wr /\ rob'[n].dst = rob[n].dst
             /\ rob'[n].waits = rob[n].waits /\ rob'[n].stage = rob[n].stage
  <2>1. rob'[n] = [rob[n] EXCEPT !.far = FALSE] /\ rob[n] \in Entry
    BY <1>1, <1>2
  <2> QED
    BY <2>1 DEF Entry
<1>4. rob' \in Seq(Entry) /\ Len(rob') = Len(rob)
  <2>1. DOMAIN rob' = 1 .. Len(rob) /\ rob' \in [1 .. Len(rob) -> Entry]
    <3>1. rob' = [n \in 1 .. Len(rob) |-> rob'[n]]
      BY <1>2
    <3> QED
      BY <1>3, <3>1
  <2> QED
    BY <1>1, <2>1
<1>6. SameLists
  BY <1>3, <1>4 DEF SameLists
<1>7. TypeOK'
  BY <1>i, <1>u, <1>4 DEF TypeOK
<1>8. WellFormed' /\ RecoveringIsEmpty' /\ UndoChain' /\ Sources' /\ SpeculativeMap'
  <2>1. rob = << >> => rob' = << >>
    BY <1>1, <1>4
  <2> QED
    BY <1>i, <1>u, <1>6, <2>1, SameListsKeepMaps
<1>9. FreeListsExact' /\ CommittedMapExact'
  BY <1>i, <1>u, <1>7 DEF FreeListsExact, CommittedMapExact
<1>10. InFlightExact'
  BY <1>i, <1>u, <1>6, SameListsInFlight
<1>11. DroppedStayReadable'
  BY <1>i, <1>u, <1>3, <1>4 DEF DroppedStayReadable
<1> QED
  BY <1>7, <1>8, <1>9, <1>10, <1>11 DEF IInv

(* A completion preserves the invariant. *)
LEMMA CompletePreserves ==
    ASSUME IInv, NEW n \in 1 .. Len(rob), completeRegs(n)
    PROVE  IInv'
<1>i. TypeOK /\ WellFormed /\ RecoveringIsEmpty /\ FreeListsExact /\ CommittedMapExact
      /\ InFlightExact /\ UndoChain /\ Sources /\ SpeculativeMap /\ DroppedStayReadable
  BY DEF IInv
<1>u. /\ UNCHANGED <<fRAT, cRAT, prev, avail, recovering, front>>
      /\ ~recovering
      /\ rob' = [rob EXCEPT ![n] = [rob[n] EXCEPT !.stage = "COMPLETE"]]
      /\ regState' = [p \in PReg |-> IF p \in Elements(rob[n].dst) THEN "RENAMED_VALID"
                                     ELSE regState[p]]
  BY DEF completeRegs
<1> DEFINE e == [rob[n] EXCEPT !.stage = "COMPLETE"]
<1>1. rob \in Seq(Entry) /\ rob[n] \in Entry /\ Len(rob) \in Nat
  BY <1>i, RobEntry DEF TypeOK
<1>4. /\ e \in Entry
      /\ e.rd = rob[n].rd /\ e.src = rob[n].src /\ e.wr = rob[n].wr /\ e.dst = rob[n].dst
      /\ e.waits = rob[n].waits /\ e.stage = "COMPLETE"
  BY <1>1 DEF Entry
<1>2. rob' = [rob EXCEPT ![n] = e]
  BY <1>u
<1> HIDE DEF e
<1>5. /\ rob' \in Seq(Entry) /\ Len(rob') = Len(rob) /\ rob'[n] = e
      /\ \A m \in 1 .. Len(rob) : m # n => rob'[m] = rob[m]
  BY <1>1, <1>2, <1>4, ExceptSeq
<1>6. SameLists
  BY <1>4, <1>5 DEF SameLists
<1>s. ASSUME NEW p \in PReg
      PROVE  \/ regState'[p] = regState[p]
             \/ regState[p] \in Renamed /\ regState'[p] = "RENAMED_VALID"
  <2>1. CASE p \in Elements(rob[n].dst)
    <3>1. regState[p] \in Renamed
      BY <1>i, <2>1 DEF InFlightExact, Elements
    <3> QED
      BY <1>u, <2>1, <3>1
  <2>2. CASE p \notin Elements(rob[n].dst)
    BY <1>u, <2>2
  <2> QED
    BY <2>1, <2>2
<1>7. TypeOK'
  <2>1. regState' \in [PReg -> RegState]
    BY <1>i, <1>u DEF TypeOK, RegState
  <2> QED
    BY <1>i, <1>u, <1>5, <2>1 DEF TypeOK
<1>8. WellFormed' /\ RecoveringIsEmpty' /\ UndoChain' /\ Sources' /\ SpeculativeMap'
  <2>1. rob = << >> => rob' = << >>
    BY <1>1, <1>5
  <2> QED
    BY <1>i, <1>u, <1>6, <2>1, SameListsKeepMaps
<1>9. FreeListsExact'
  <2>1. \A p \in PReg : regState'[p] = "AVAILABLE" <=> regState[p] = "AVAILABLE"
    BY <1>s DEF Renamed
  <2>2. \A s \in Segment :
          {p \in PReg : PR2APRindx(p) = s /\ regState'[p] = "AVAILABLE"}
            = {p \in PReg : PR2APRindx(p) = s /\ regState[p] = "AVAILABLE"}
    BY <2>1
  <2> QED
    BY <1>i, <1>u, <1>7, <2>2 DEF FreeListsExact
<1>10. CommittedMapExact'
  <2>1. \A p \in PReg : regState'[p] = "ARCH_REG" <=> regState[p] = "ARCH_REG"
    BY <1>s DEF Renamed
  <2> QED
    BY <1>i, <1>u, <2>1 DEF CommittedMapExact
<1>11. InFlightExact'
  <2>1. \A p \in PReg : regState'[p] \in Renamed <=> regState[p] \in Renamed
    BY <1>s DEF Renamed
  <2> QED
    BY <1>i, <1>u, <1>6, <2>1, SameListsInFlight
<1>12. DroppedStayReadable'
  <2>1. ASSUME NEW m \in 1 .. Len(rob), rob'[m].stage = "DISPATCH",
               NEW p \in Elements(rob'[m].src) \ rob'[m].waits
        PROVE  regState'[p] \in {"ARCH_REG", "RENAMED_VALID"}
    <3>1. m # n
      BY <1>4, <1>5, <2>1
    <3>2. rob'[m] = rob[m]
      BY <1>5, <3>1
    <3>3. regState[p] \in {"ARCH_REG", "RENAMED_VALID"}
      BY <1>i, <1>u, <2>1, <3>2 DEF DroppedStayReadable
    <3>4. p \in PReg
      BY <1>i, <2>1, <3>2, RobEntry DEF Elements
    <3> QED
      BY <1>s, <3>3, <3>4
  <2> QED
    BY <1>5, <2>1 DEF DroppedStayReadable
<1> QED
  BY <1>7, <1>8, <1>9, <1>10, <1>11, <1>12 DEF IInv

-----------------------------------------------------------------------------
(* The oldest block: its instructions are the first k of the ROB. *)
LEMMA HeadBlock ==
    ASSUME TypeOK, headBlock # {}
    PROVE  \E k \in 1 .. Len(rob) : headBlock = 1 .. k
<1> DEFINE lasts == {m \in 1 .. Len(rob) : rob[m].last}
<1>0. Len(rob) \in Nat
  BY DEF TypeOK
<1>1. lasts \in SUBSET Nat /\ lasts # {}
  BY <1>0 DEF headBlock
<1>2. PICK k \in lasts : \A m \in lasts : k <= m
  <2> HIDE DEF lasts
  <2> QED
    BY <1>1, LeastNat
<1>3. k \in 1 .. Len(rob) /\ rob[k].last /\ \A m \in 1 .. k - 1 : ~rob[m].last
  BY <1>0, <1>2
<1>4. ASSUME NEW n \in headBlock PROVE n \in 1 .. k
  <2>1. n \in 1 .. Len(rob) /\ \A m \in 1 .. n - 1 : ~rob[m].last
    BY DEF headBlock
  <2> HIDE DEF lasts
  <2>2. ~ (k \in 1 .. n - 1)
    BY <1>3, <2>1
  <2> QED
    BY <1>0, <1>3, <2>1, <2>2
<1>5. ASSUME NEW n \in 1 .. k PROVE n \in headBlock
  <2> HIDE DEF lasts
  <2>1. n \in 1 .. Len(rob) /\ k \in n .. Len(rob)
    BY <1>0, <1>3
  <2>2. \A m \in 1 .. n - 1 : ~rob[m].last
    BY <1>0, <1>3
  <2> QED
    BY <1>3, <2>1, <2>2 DEF headBlock
<1>6. headBlock = 1 .. k
  <2> HIDE DEF lasts
  <2> QED
    BY <1>4, <1>5
<1> QED
  BY <1>3, <1>6

(* The registers the first k instructions define, and those they supersede. *)
Defined(k) == UNION {Elements(rob[n].dst) : n \in 1 .. k}
Superseded(k) == {prev[p] : p \in Defined(k)}

LEMMA DefinedRegister ==
    ASSUME TypeOK, WellFormed, InFlightExact, UndoChain,
           NEW k \in 1 .. Len(rob), NEW p \in Defined(k)
    PROVE  /\ p \in PReg /\ regState[p] \in Renamed
           /\ \E n \in 1 .. k, a \in AReg :
                WritesTo(n, a, p) /\ Writes(n, a) /\ MapsTo(n, a, prev[p])
<1>0. Len(rob) \in Nat
  BY DEF TypeOK
<1>1. PICK n \in 1 .. k : p \in Elements(rob[n].dst)
  BY DEF Defined
<1>2. PICK i \in 1 .. Len(rob[n].dst) : rob[n].dst[i] = p
  BY <1>1 DEF Elements
<1>3. n \in 1 .. Len(rob) /\ i \in 1 .. Len(rob[n].wr)
  BY <1>0 DEF WellFormed
<1>4. p \in PReg /\ rob[n].wr[i] \in AReg
  BY <1>2, <1>3, RobEntry
<1>5. regState[p] \in Renamed /\ MapsTo(n, rob[n].wr[i], prev[p])
  BY <1>2, <1>3 DEF InFlightExact, UndoChain
<1>6. WritesTo(n, rob[n].wr[i], p) /\ Writes(n, rob[n].wr[i])
  BY <1>2, <1>3 DEF WritesTo, Writes, Elements
<1> QED
  BY <1>2, <1>4, <1>5, <1>6

(* What the block supersedes is in use, and no two of its destinations     *)
(* supersede the same register: behind the first, nothing names it.        *)
LEMMA ChainLinks ==
    ASSUME TypeOK, WellFormed, InFlightExact, CommittedMapExact, UndoChain,
           NEW k \in 1 .. Len(rob)
    PROVE  /\ \A p \in Defined(k) :
                prev[p] \in PReg /\ regState[prev[p]] \in Renamed \cup {"ARCH_REG"}
           /\ \A p, q \in Defined(k) : prev[p] = prev[q] => p = q
<1>0. Len(rob) \in Nat
  BY DEF TypeOK
<1>1. ASSUME NEW p \in Defined(k)
      PROVE  prev[p] \in PReg /\ regState[prev[p]] \in Renamed \cup {"ARCH_REG"}
  <2>1. PICK n \in 1 .. k, a \in AReg : MapsTo(n, a, prev[p])
    BY DefinedRegister
  <2>2. n \in 1 .. Len(rob) + 1
    BY <1>0
  <2> QED
    BY <2>1, <2>2, MappedState
<1>2. ASSUME NEW n \in 1 .. k, NEW m \in 1 .. k, n <= m,
             NEW a \in AReg, NEW b \in AReg, Writes(n, a),
             NEW r, MapsTo(n, a, r), MapsTo(m, b, r)
      PROVE  n = m /\ a = b
  <2>1. m \in 1 .. Len(rob) + 1 /\ n \in 1 .. m
    BY <1>0, <1>2
  <2>2. a = b /\ \A o \in n .. m - 1 : ~Writes(o, a)
    BY <1>2, <2>1, MappedOnce
  <2>3. ~ (n \in n .. m - 1)
    BY <1>2, <2>2
  <2> QED
    BY <1>0, <1>2, <2>2, <2>3
<1>3. ASSUME NEW p \in Defined(k), NEW q \in Defined(k), prev[p] = prev[q]
      PROVE  p = q
  <2>1. PICK n \in 1 .. k, a \in AReg :
           WritesTo(n, a, p) /\ Writes(n, a) /\ MapsTo(n, a, prev[p])
    BY DefinedRegister
  <2>2. PICK m \in 1 .. k, b \in AReg :
           WritesTo(m, b, q) /\ Writes(m, b) /\ MapsTo(m, b, prev[q])
    BY DefinedRegister
  <2>3. n = m /\ a = b
    <3>1. CASE n <= m
      BY <1>2, <1>3, <2>1, <2>2, <3>1
    <3>2. CASE m <= n
      BY <1>2, <1>3, <2>1, <2>2, <3>2
    <3> QED
      BY <1>0, <3>1, <3>2
  <2>4. n \in 1 .. Len(rob) /\ Distinct(rob[n].wr)
    BY <1>0 DEF WellFormed
  <2>5. PICK i \in 1 .. Len(rob[n].wr) : rob[n].wr[i] = a /\ rob[n].dst[i] = p
    BY <2>1 DEF WritesTo
  <2>6. PICK j \in 1 .. Len(rob[n].wr) : rob[n].wr[j] = a /\ rob[n].dst[j] = q
    BY <2>2, <2>3 DEF WritesTo
  <2> QED
    BY <2>4, <2>5, <2>6 DEF Distinct
<1> QED
  BY <1>1, <1>3

(* Nothing behind the block names a register the block supersedes. *)
LEMMA SupersededUnnamed ==
    ASSUME TypeOK, WellFormed, InFlightExact, CommittedMapExact, UndoChain,
           NEW k \in 1 .. Len(rob), NEW m \in k + 1 .. Len(rob) + 1,
           NEW a \in AReg, NEW p, MapsTo(m, a, p)
    PROVE  p \notin Superseded(k)
<1> SUFFICES ASSUME p \in Superseded(k) PROVE FALSE
  OBVIOUS
<1>0. Len(rob) \in Nat
  BY DEF TypeOK
<1>1. PICK q \in Defined(k) : p = prev[q]
  BY DEF Superseded
<1>2. PICK n \in 1 .. k, b \in AReg : Writes(n, b) /\ MapsTo(n, b, p)
  BY <1>1, DefinedRegister
<1>3. m \in 1 .. Len(rob) + 1 /\ n \in 1 .. m /\ n \in n .. m - 1
  BY <1>0
<1>4. \A o \in n .. m - 1 : ~Writes(o, b)
  BY <1>2, <1>3, MappedOnce
<1> QED
  BY <1>2, <1>3, <1>4

(* A register named inside the block and not superseded by it is named     *)
(* behind it.                                                              *)
LEMMA KeptToTheEnd ==
    ASSUME TypeOK, WellFormed, InFlightExact, UndoChain,
           NEW k \in 1 .. Len(rob), NEW l \in 1 .. k + 1,
           NEW a \in AReg, NEW p, MapsTo(l, a, p), p \notin Superseded(k)
    PROVE  MapsTo(k + 1, a, p)
<1>0. Len(rob) \in Nat
  BY DEF TypeOK
<1>N. PICK N \in Nat : N = k + 1 - l
  BY <1>0
<1> DEFINE G == {n \in 0 .. N : MapsTo(l + n, a, p)}
<1>1. 0 \in G
  <2>1. l + 0 = l /\ 0 \in 0 .. N
    OBVIOUS
  <2> QED
    BY <2>1
<1>2. ASSUME NEW n \in 1 .. N, n - 1 \in G PROVE n \in G
  <2> DEFINE o == l + (n - 1)
  <2>1. MapsTo(o, a, p)
    BY <1>2
  <2>2. o \in 1 .. k /\ o \in 1 .. Len(rob) /\ o \in Nat \ {0} /\ o + 1 = l + n
    BY <1>0, <1>N
  <2> HIDE DEF o, G
  <2>3. ~Writes(o, a)
    <3> SUFFICES ASSUME Writes(o, a) PROVE FALSE
      OBVIOUS
    <3>1. PICK i \in 1 .. Len(rob[o].wr) : rob[o].wr[i] = a
      BY DEF Writes, Elements
    <3>2. i \in 1 .. Len(rob[o].dst)
      BY <2>2, <3>1 DEF WellFormed
    <3>3. MapsTo(o, a, prev[rob[o].dst[i]])
      BY <2>2, <3>1, <3>2 DEF UndoChain
    <3>4. o \in 1 .. Len(rob) + 1
      BY <1>0, <2>2
    <3>5. p = prev[rob[o].dst[i]]
      BY <2>1, <3>3, <3>4, OneMeaning
    <3>6. rob[o].dst[i] \in Defined(k)
      BY <2>2, <3>2 DEF Defined, Elements
    <3> QED
      BY <3>5, <3>6 DEF Superseded
  <2>4. MapsTo(o + 1, a, p)
    BY <2>1, <2>2, <2>3, MapsToExtend
  <2>5. n \in 0 .. N
    OBVIOUS
  <2> QED
    BY <2>2, <2>4, <2>5 DEF G
<1>3. l + N = k + 1 /\ N \in 0 .. N
  BY <1>0, <1>N
<1> HIDE DEF G
<1>4. N \in G
  <2>1. \A n \in 0 .. N : n \in G
    BY <1>1, <1>2, UpTo
  <2> QED
    BY <1>3, <2>1
<1> QED
  BY <1>3, <1>4 DEF G

(* The lists of what the block defines and supersedes. *)
LEMMA BlockLists ==
    ASSUME TypeOK, WellFormed, InFlightExact, CommittedMapExact, UndoChain,
           NEW k \in 1 .. Len(rob)
    PROVE  /\ blockDst(1 .. k) \in Seq(PReg) /\ Elements(blockDst(1 .. k)) = Defined(k)
           /\ superseded(1 .. k) \in Seq(PReg) /\ Distinct(superseded(1 .. k))
           /\ Elements(superseded(1 .. k)) = Superseded(k)
<1> DEFINE parts == [n \in 1 .. k |-> rob[n].dst]
           dst == blockDst(1 .. k)
           old == superseded(1 .. k)
<1>0. Len(rob) \in Nat /\ \A n \in 1 .. k : n \in 1 .. Len(rob)
  BY DEF TypeOK
<1>1. dst = Flatten(parts)
  <2>1. Cardinality(1 .. k) = k
    BY <1>0, FS_Interval
  <2> QED
    BY <2>1 DEF blockDst
<1>2. \A n \in 1 .. k : rob[n].dst \in Seq(PReg)
  BY <1>0, RobEntry
<1>3. parts \in Seq(Seq(PReg)) /\ Len(parts) = k /\ \A n \in 1 .. k : parts[n] = rob[n].dst
  BY <1>0, <1>2
<1> HIDE DEF parts, dst
<1>4. ASSUME NEW n \in 1 .. k PROVE Distinct(parts[n])
  <2>1. n \in 1 .. Len(rob) /\ parts[n] = rob[n].dst
    BY <1>0, <1>3
  <2> QED
    BY <2>1 DEF InFlightExact, Distinct
<1>5. ASSUME NEW n \in 1 .. k, NEW m \in 1 .. k, n # m
      PROVE  Elements(parts[n]) \cap Elements(parts[m]) = {}
  <2> SUFFICES ASSUME NEW p \in Elements(rob[n].dst), p \in Elements(rob[m].dst)
               PROVE  FALSE
    BY <1>3
  <2>1. PICK i \in 1 .. Len(rob[n].dst) : rob[n].dst[i] = p
    BY DEF Elements
  <2>2. PICK j \in 1 .. Len(rob[m].dst) : rob[m].dst[j] = p
    BY DEF Elements
  <2>3. n \in 1 .. Len(rob) /\ m \in 1 .. Len(rob)
    BY <1>0
  <2> QED
    BY <1>5, <2>1, <2>2, <2>3 DEF InFlightExact
<1>6. dst \in Seq(PReg) /\ Elements(dst) = UNION {Elements(parts[n]) : n \in 1 .. k}
  BY <1>1, <1>3, FlattenElements
<1>7. Distinct(dst)
  BY <1>1, <1>3, <1>4, <1>5, FlattenDistinct
<1>8. Elements(dst) = Defined(k)
  BY <1>3, <1>6 DEF Defined
<1>9. old = [i \in 1 .. Len(dst) |-> prev[dst[i]]]
  BY DEF superseded, dst
<1>10. Len(dst) \in Nat /\ \A i \in 1 .. Len(dst) : dst[i] \in Defined(k)
  BY <1>6, <1>8, ElementsIn
<1>11. \A i \in 1 .. Len(dst) : prev[dst[i]] \in PReg
  BY <1>10, ChainLinks
<1>12. old \in Seq(PReg) /\ Len(old) = Len(dst) /\ \A i \in 1 .. Len(dst) : old[i] = prev[dst[i]]
  BY <1>9, <1>10, <1>11
<1> HIDE DEF old
<1>13. Distinct(old)
  <2> SUFFICES ASSUME NEW i \in 1 .. Len(dst), NEW j \in 1 .. Len(dst), old[i] = old[j]
               PROVE  i = j
    BY <1>12 DEF Distinct
  <2>1. prev[dst[i]] = prev[dst[j]] /\ dst[i] \in Defined(k) /\ dst[j] \in Defined(k)
    BY <1>10, <1>12
  <2>2. dst[i] = dst[j]
    BY <2>1, ChainLinks
  <2> QED
    BY <1>7, <2>2 DEF Distinct
<1>14. Elements(old) = Superseded(k)
  <2>1. Elements(old) = {prev[dst[i]] : i \in 1 .. Len(dst)}
    BY <1>12 DEF Elements
  <2>2. Superseded(k) = {prev[p] : p \in {dst[i] : i \in 1 .. Len(dst)}}
    BY <1>8 DEF Superseded, Elements
  <2> QED
    BY <2>1, <2>2
<1> QED
  BY <1>6, <1>8, <1>12, <1>13, <1>14 DEF dst, old

(* The new committed map is what the block leaves behind it. *)
LEMMA CommittedBehind ==
    ASSUME TypeOK, WellFormed, NEW k \in 1 .. Len(rob), NEW a \in AReg
    PROVE  MapsTo(k + 1, a, update_cRAT(1 .. k)[a])
<1>0. Len(rob) \in Nat /\ \A n \in 1 .. k : n \in 1 .. Len(rob)
  BY DEF TypeOK
<1> DEFINE defs == {n \in 1 .. k : a \in Elements(rob[n].wr)}
           last == CHOOSE n \in defs : \A m \in defs : m <= n
           i == IndexOf(rob[last].wr, a)
<1> PICK p : p = update_cRAT(1 .. k)[a]
  OBVIOUS
<1> SUFFICES MapsTo(k + 1, a, p)
  OBVIOUS
<1>1. p = IF defs = {} THEN cRAT[a] ELSE rob[last].dst[i]
  BY DEF update_cRAT
<1>2. CASE defs = {}
  <2>1. \A o \in 1 .. (k + 1) - 1 : ~Writes(o, a)
    BY <1>2 DEF Writes
  <2>2. cRAT[a] = p
    BY <1>1, <1>2
  <2> QED
    BY <2>1, <2>2 DEF MapsTo
<1>3. CASE defs # {}
  <2>1. \E n \in defs : \A m \in defs : m <= n
    <3>1. defs \in SUBSET Nat /\ k \in Nat /\ \A n \in defs : n <= k
      OBVIOUS
    <3> HIDE DEF defs
    <3> QED
      BY <1>3, <3>1, GreatestNat
  <2>2. last \in defs /\ \A m \in defs : m <= last
    BY <2>1
  <2> HIDE DEF last
  <2>3. last \in 1 .. k /\ a \in Elements(rob[last].wr)
    BY <2>2
  <2>4. \A o \in last + 1 .. (k + 1) - 1 : ~Writes(o, a)
    <3> SUFFICES ASSUME NEW o \in last + 1 .. (k + 1) - 1, Writes(o, a) PROVE FALSE
      OBVIOUS
    <3>1. o \in defs /\ ~ (o <= last)
      BY <2>3 DEF Writes
    <3> HIDE DEF defs
    <3> QED
      BY <2>2, <3>1
  <2>5. i \in 1 .. Len(rob[last].wr) /\ rob[last].wr[i] = a
    <3>1. \E j \in 1 .. Len(rob[last].wr) : rob[last].wr[j] = a
      BY <2>3 DEF Elements
    <3> QED
      BY <3>1 DEF IndexOf
  <2>6. p = rob[last].dst[i]
    BY <1>1, <1>3
  <2> HIDE DEF i, defs
  <2>7. WritesTo(last, a, p)
    BY <2>5, <2>6 DEF WritesTo
  <2>8. last \in 1 .. (k + 1) - 1
    BY <2>3
  <2> QED
    BY <2>4, <2>7, <2>8 DEF MapsTo
<1> QED
  BY <1>2, <1>3

(* What retiring the first k instructions does. *)
Retires(k) ==
    /\ rob' \in Seq(Entry) /\ Len(rob') = Len(rob) - k
    /\ \A n \in 1 .. Len(rob) - k : rob'[n] = rob[n + k]
    /\ cRAT' \in [AReg -> PReg] /\ \A a \in AReg : MapsTo(k + 1, a, cRAT'[a])
    /\ regState' = [p \in PReg |-> IF p \in Superseded(k) THEN "AVAILABLE"
                                   ELSE IF p \in Defined(k) THEN "ARCH_REG"
                                   ELSE regState[p]]
    /\ prev' = [p \in PReg |-> IF p \in Superseded(k) THEN NoPR ELSE prev[p]]
    /\ avail' \in [Segment -> Seq(PReg)]
    /\ \A s \in Segment :
         /\ Distinct(avail'[s])
         /\ Elements(avail'[s]) =
              Elements(avail[s]) \cup {p \in Superseded(k) : PR2APRindx(p) = s}
    /\ UNCHANGED <<fRAT, recovering, front>> /\ ~recovering

LEMMA CommitRetires ==
    ASSUME IInv, commitBB
    PROVE  \E k \in 1 .. Len(rob) : Retires(k)
<1>i. TypeOK /\ WellFormed /\ FreeListsExact /\ InFlightExact /\ CommittedMapExact /\ UndoChain
  BY DEF IInv
<1>1. PICK k \in 1 .. Len(rob) : headBlock = 1 .. k
  BY <1>i, HeadBlock DEF commitBB
<1>0. Len(rob) \in Nat /\ rob \in Seq(Entry) /\ Cardinality(1 .. k) = k
  BY <1>i, FS_Interval DEF TypeOK
<1> DEFINE old == superseded(1 .. k)
<1>2. /\ Elements(blockDst(1 .. k)) = Defined(k) /\ freed(1 .. k) = Superseded(k)
      /\ old \in Seq(PReg) /\ Distinct(old) /\ Elements(old) = Superseded(k)
  BY <1>i, BlockLists DEF freed
<1> HIDE DEF old
<1>3. /\ rob' = Drop(rob, k) /\ cRAT' = update_cRAT(1 .. k)
      /\ avail' = setAsAvailablePR(1 .. k)
      /\ UNCHANGED <<fRAT, recovering, front>> /\ ~recovering
  BY <1>0, <1>1 DEF commitBB
<1>4. /\ regState' = [p \in PReg |-> IF p \in Superseded(k) THEN "AVAILABLE"
                                     ELSE IF p \in Defined(k) THEN "ARCH_REG"
                                     ELSE regState[p]]
      /\ prev' = [p \in PReg |-> IF p \in Superseded(k) THEN NoPR ELSE prev[p]]
  BY <1>1, <1>2 DEF commitBB
<1>5. /\ rob' \in Seq(Entry) /\ Len(rob') = Len(rob) - k
      /\ \A n \in 1 .. Len(rob) - k : rob'[n] = rob[n + k]
  <2>1. k \in 0 .. Len(rob)
    BY <1>0
  <2>2. /\ rob' \in Seq(Entry) /\ Len(rob') = Len(rob) - k
        /\ \A n \in 1 .. Len(rob) - k : rob'[n] = rob[k + n]
    BY <1>0, <1>3, <2>1, TakeDrop
  <2> QED
    BY <1>0, <2>2
<1>6. \A a \in AReg : MapsTo(k + 1, a, cRAT'[a])
  BY <1>3, <1>i, CommittedBehind
<1>7. cRAT' \in [AReg -> PReg]
  <2>1. k + 1 \in 1 .. Len(rob) + 1
    BY <1>0
  <2>2. \A a \in AReg : cRAT'[a] \in PReg
    BY <1>i, <1>6, <2>1, MappedState
  <2>3. cRAT' = [a \in AReg |-> cRAT'[a]]
    BY <1>3 DEF update_cRAT
  <2> QED
    BY <2>2, <2>3
<1>8. ASSUME NEW s \in Segment
      PROVE  /\ avail'[s] \in Seq(PReg) /\ Distinct(avail'[s])
             /\ Elements(avail'[s]) =
                  Elements(avail[s]) \cup {p \in Superseded(k) : PR2APRindx(p) = s}
  <2> DEFINE here == {p \in PReg : PR2APRindx(p) = s}
             back == Filter(old, here)
  <2>1. avail'[s] = avail[s] \o back
    BY <1>3 DEF setAsAvailablePR, old
  <2> HIDE DEF here
  <2>2. /\ back \in Seq(PReg) /\ Distinct(back)
        /\ Elements(back) = Superseded(k) \cap here
    BY <1>2, FilterElements, FilterDistinct
  <2> HIDE DEF back
  <2>3. avail[s] \in Seq(PReg) /\ Distinct(avail[s])
    BY <1>i DEF FreeListsExact, TypeOK
  <2>4. \A p \in Superseded(k) : p \in PReg /\ regState[p] # "AVAILABLE"
    <3>1. \A p \in Defined(k) :
            prev[p] \in PReg /\ regState[prev[p]] \in Renamed \cup {"ARCH_REG"}
      BY <1>i, ChainLinks
    <3> QED
      BY <3>1 DEF Superseded, Renamed
  <2>5. \A p \in Elements(avail[s]) : regState[p] = "AVAILABLE"
    BY <1>i DEF FreeListsExact
  <2>6. Elements(avail[s]) \cap Elements(back) = {}
    BY <2>2, <2>4, <2>5
  <2>7. /\ avail[s] \o back \in Seq(PReg)
        /\ Elements(avail[s] \o back) = Elements(avail[s]) \cup Elements(back)
        /\ Distinct(avail[s] \o back)
    BY <2>2, <2>3, <2>6, Concat
  <2>8. Superseded(k) \cap here = {p \in Superseded(k) : PR2APRindx(p) = s}
    BY <2>4 DEF here
  <2> QED
    BY <2>1, <2>2, <2>7, <2>8
<1>9. avail' \in [Segment -> Seq(PReg)]
  BY <1>3, <1>8 DEF setAsAvailablePR
<1> QED
  BY <1>3, <1>4, <1>5, <1>6, <1>7, <1>8, <1>9 DEF Retires

(* Retiring the block moves the ROB by k places and takes what the block   *)
(* leaves behind it into the committed map: no mapping changes.            *)
LEMMA MapsToCommit ==
    ASSUME TypeOK, WellFormed, InFlightExact,
           NEW k \in 1 .. Len(rob), Retires(k), NEW m \in 1 .. Len(rob) - k + 1,
           NEW a \in AReg, NEW p, MapsTo(m + k, a, p)
    PROVE  MapsTo(m, a, p)'
<1>0. Len(rob) \in Nat
  BY DEF TypeOK
<1>1. /\ \A n \in 1 .. m - 1 : rob'[n] = rob[n + k]
      /\ MapsTo(k + 1, a, cRAT'[a])
  BY <1>0 DEF Retires
<1>2. \A n \in 1 .. m - 1 : Writes(n, a)' <=> Writes(n + k, a)
  BY <1>1 DEF Writes
<1>3. \A n \in 1 .. m - 1 : WritesTo(n, a, p)' <=> WritesTo(n + k, a, p)
  BY <1>1 DEF WritesTo
<1>4. ASSUME MapsTo(k + 1, a, p), \A o \in k + 1 .. m + k - 1 : ~Writes(o, a)
      PROVE  MapsTo(m, a, p)'
  <2>1. cRAT'[a] = p
    <3>1. k + 1 \in 1 .. Len(rob) + 1
      BY <1>0
    <3> QED
      BY <1>1, <1>4, <3>1, OneMeaning
  <2>2. \A o \in 1 .. m - 1 : ~Writes(o, a)'
    <3>1. \A o \in 1 .. m - 1 : o + k \in k + 1 .. m + k - 1
      BY <1>0
    <3> QED
      BY <1>2, <1>4, <3>1
  <2> QED
    BY <2>1, <2>2 DEF MapsTo
<1>5. ASSUME NEW n \in 1 .. m + k - 1, WritesTo(n, a, p),
             \A o \in n + 1 .. m + k - 1 : ~Writes(o, a)
      PROVE  MapsTo(m, a, p)'
  <2>1. CASE n <= k
    <3>1. n \in 1 .. (k + 1) - 1 /\ \A o \in n + 1 .. (k + 1) - 1 : o \in n + 1 .. m + k - 1
      BY <1>0, <2>1
    <3>2. MapsTo(k + 1, a, p)
      BY <1>5, <3>1 DEF MapsTo
    <3>3. \A o \in k + 1 .. m + k - 1 : o \in n + 1 .. m + k - 1
      BY <1>0, <2>1
    <3> QED
      BY <1>4, <1>5, <3>2, <3>3
  <2>2. CASE n > k
    <3>1. n - k \in 1 .. m - 1 /\ (n - k) + k = n
      BY <1>0, <2>2
    <3>2. WritesTo(n - k, a, p)'
      BY <1>3, <1>5, <3>1
    <3>3. \A o \in (n - k) + 1 .. m - 1 : ~Writes(o, a)'
      <4> TAKE o \in (n - k) + 1 .. m - 1
      <4>1. o \in 1 .. m - 1 /\ o + k \in n + 1 .. m + k - 1
        BY <1>0, <3>1
      <4> QED
        BY <1>2, <1>5, <4>1
    <3> QED
      BY <3>1, <3>2, <3>3 DEF MapsTo
  <2> QED
    BY <1>0, <2>1, <2>2
<1>6. ASSUME \A o \in 1 .. m + k - 1 : ~Writes(o, a), cRAT[a] = p
      PROVE  MapsTo(m, a, p)'
  <2>1. \A o \in 1 .. (k + 1) - 1 : o \in 1 .. m + k - 1
    BY <1>0
  <2>2. MapsTo(k + 1, a, p)
    BY <1>6, <2>1 DEF MapsTo
  <2>3. \A o \in k + 1 .. m + k - 1 : o \in 1 .. m + k - 1
    BY <1>0
  <2> QED
    BY <1>4, <1>6, <2>2, <2>3
<1> QED
  BY <1>5, <1>6 DEF MapsTo

(* Of the registers that were committed or defined by the block, those are *)
(* committed now that the block leaves some register mapped to.            *)
LEMMA CommittedAfter ==
    ASSUME TypeOK, WellFormed, InFlightExact, CommittedMapExact, UndoChain,
           NEW k \in 1 .. Len(rob), Retires(k), NEW p \in PReg
    PROVE  regState'[p] = "ARCH_REG" <=> \E a \in AReg : MapsTo(k + 1, a, p)
<1>0. Len(rob) \in Nat
  BY DEF TypeOK
<1>1. regState'[p] = IF p \in Superseded(k) THEN "AVAILABLE"
                     ELSE IF p \in Defined(k) THEN "ARCH_REG"
                     ELSE regState[p]
  BY DEF Retires
<1>2. ASSUME NEW a \in AReg, MapsTo(k + 1, a, p) PROVE regState'[p] = "ARCH_REG"
  <2>1. k + 1 \in k + 1 .. Len(rob) + 1 /\ k + 1 \in 1 .. Len(rob) + 1
    BY <1>0
  <2>2. p \notin Superseded(k)
    BY <1>2, <2>1, SupersededUnnamed
  <2>3. (\E n \in 1 .. (k + 1) - 1 : WritesTo(n, a, p)) \/ regState[p] = "ARCH_REG"
    BY <1>2, <2>1, MappedState
  <2>4. ASSUME NEW n \in 1 .. (k + 1) - 1, WritesTo(n, a, p) PROVE p \in Defined(k)
    <3>1. n \in 1 .. Len(rob) /\ n \in 1 .. k
      BY <1>0
    <3>2. \E i \in 1 .. Len(rob[n].dst) : rob[n].wr[i] = a /\ rob[n].dst[i] = p
      BY <2>4, <3>1, Writer
    <3> QED
      BY <3>1, <3>2 DEF Defined, Elements
  <2> QED
    BY <1>1, <2>2, <2>3, <2>4
<1>3. ASSUME p \notin Superseded(k), p \in Defined(k)
      PROVE  \E a \in AReg : MapsTo(k + 1, a, p)
  <2>1. PICK n \in 1 .. k, a \in AReg : WritesTo(n, a, p)
    BY <1>3, DefinedRegister
  <2>2. n \in 1 .. (n + 1) - 1 /\ n + 1 .. (n + 1) - 1 = {} /\ n + 1 \in 1 .. k + 1
    BY <1>0
  <2>3. MapsTo(n + 1, a, p)
    BY <2>1, <2>2 DEF MapsTo
  <2> QED
    BY <1>3, <2>2, <2>3, KeptToTheEnd
<1>4. ASSUME p \notin Superseded(k), regState[p] = "ARCH_REG"
      PROVE  \E a \in AReg : MapsTo(k + 1, a, p)
  <2>1. PICK a \in AReg : cRAT[a] = p
    BY <1>4 DEF CommittedMapExact
  <2>2. 1 .. 1 - 1 = {} /\ 1 \in 1 .. k + 1
    BY <1>0
  <2>3. MapsTo(1, a, p)
    BY <2>1, <2>2 DEF MapsTo
  <2> QED
    BY <1>4, <2>2, <2>3, KeptToTheEnd
<1> QED
  BY <1>1, <1>2, <1>3, <1>4

(* Retiring the oldest block preserves the invariant. *)
LEMMA CommitPreserves ==
    ASSUME IInv, commitBB
    PROVE  IInv'
<1>i. TypeOK /\ WellFormed /\ FreeListsExact /\ CommittedMapExact
      /\ InFlightExact /\ UndoChain /\ Sources /\ SpeculativeMap /\ DroppedStayReadable
  BY DEF IInv
<1>0. PICK k \in 1 .. Len(rob) : Retires(k)
  BY CommitRetires
<1>n. Len(rob) \in Nat /\ k + 1 \in 1 .. Len(rob) + 1 /\ k \in Nat
  BY <1>i DEF TypeOK
<1>r. /\ rob' \in Seq(Entry) /\ Len(rob') = Len(rob) - k
      /\ \A n \in 1 .. Len(rob) - k : rob'[n] = rob[n + k]
      /\ UNCHANGED <<fRAT, recovering, front>> /\ ~recovering
      /\ cRAT' \in [AReg -> PReg] /\ \A a \in AReg : MapsTo(k + 1, a, cRAT'[a])
      /\ avail' \in [Segment -> Seq(PReg)]
  BY <1>0 DEF Retires
<1>o. \A n \in 1 .. Len(rob') :
        n \in 1 .. Len(rob) - k /\ n + k \in 1 .. Len(rob) /\ n + k \notin 1 .. k
        /\ n + k \in k + 1 .. Len(rob) + 1 /\ n \in 1 .. Len(rob) - k + 1
        /\ rob'[n] = rob[n + k]
  BY <1>n, <1>r
<1>s. ASSUME NEW p \in PReg
      PROVE  /\ regState'[p] = IF p \in Superseded(k) THEN "AVAILABLE"
                               ELSE IF p \in Defined(k) THEN "ARCH_REG"
                               ELSE regState[p]
             /\ prev'[p] = IF p \in Superseded(k) THEN NoPR ELSE prev[p]
             /\ p \in Defined(k) => regState[p] \in Renamed
             /\ p \in Superseded(k) => regState[p] \in Renamed \cup {"ARCH_REG"}
  <2>1. p \in Defined(k) => regState[p] \in Renamed
    BY <1>i, DefinedRegister
  <2>2. p \in Superseded(k) => regState[p] \in Renamed \cup {"ARCH_REG"}
    BY <1>i, ChainLinks DEF Superseded
  <2> QED
    BY <1>0, <2>1, <2>2 DEF Retires
<1>d. \* what the instructions behind the block define stays as it is
      ASSUME NEW n \in 1 .. Len(rob'), NEW i \in 1 .. Len(rob'[n].dst)
      PROVE  /\ rob'[n].dst[i] \in PReg
             /\ rob'[n].dst[i] \notin Defined(k) /\ rob'[n].dst[i] \notin Superseded(k)
  <2>1. n + k \in 1 .. Len(rob) /\ n + k \notin 1 .. k /\ rob'[n] = rob[n + k]
    BY <1>o
  <2> DEFINE p == rob[n + k].dst[i]
  <2>2. i \in 1 .. Len(rob[n + k].dst) /\ p \in PReg /\ regState[p] \in Renamed
    BY <1>i, <2>1, RobEntry DEF InFlightExact
  <2>3. i \in 1 .. Len(rob[n + k].wr)
    BY <1>i, <2>1, <2>2 DEF WellFormed
  <2>4. WritesTo(n + k, rob[n + k].wr[i], p)
    BY <2>3 DEF WritesTo
  <2> HIDE DEF p
  <2>5. ASSUME NEW m \in 1 .. Len(rob), NEW a, WritesTo(m, a, p) PROVE m = n + k
    BY <1>i, <2>1, <2>4, <2>5, OneWriter
  <2>6. p \notin Defined(k)
    <3> SUFFICES ASSUME p \in Defined(k) PROVE FALSE
      OBVIOUS
    <3>1. PICK m \in 1 .. k, a \in AReg : WritesTo(m, a, p)
      BY <1>i, DefinedRegister
    <3>2. m \in 1 .. Len(rob)
      BY <1>n
    <3> QED
      BY <2>1, <2>5, <3>1, <3>2
  <2>7. p \notin Superseded(k)
    <3> SUFFICES ASSUME p \in Superseded(k) PROVE FALSE
      OBVIOUS
    <3>1. PICK q \in Defined(k) : p = prev[q]
      BY DEF Superseded
    <3>2. PICK m \in 1 .. k, a \in AReg : MapsTo(m, a, p)
      BY <1>i, <3>1, DefinedRegister
    <3>3. m \in 1 .. Len(rob) + 1
      BY <1>n
    <3>4. regState[p] # "ARCH_REG"
      BY <2>2 DEF Renamed
    <3>5. PICK l \in 1 .. m - 1 : WritesTo(l, a, p)
      BY <1>i, <3>2, <3>3, <3>4, MappedState
    <3>6. l \in 1 .. Len(rob) /\ l \in 1 .. k
      BY <1>n
    <3> QED
      BY <2>1, <2>5, <3>5, <3>6
  <2> QED
    BY <2>1, <2>2, <2>6, <2>7 DEF p
<1>m. ASSUME NEW m \in 1 .. Len(rob) - k + 1, NEW a \in AReg, NEW p, MapsTo(m + k, a, p)
      PROVE  MapsTo(m, a, p)'
  BY <1>0, <1>i, <1>m, MapsToCommit
<1>1. TypeOK'
  <2>1. regState' \in [PReg -> RegState] /\ prev' \in [PReg -> PReg \cup {NoPR}]
    <3>1. \A p \in PReg : regState'[p] \in RegState /\ prev'[p] \in PReg \cup {NoPR}
      BY <1>i, <1>s DEF TypeOK, RegState
    <3>2. /\ regState' = [p \in PReg |-> regState'[p]]
          /\ prev' = [p \in PReg |-> prev'[p]]
      BY <1>0 DEF Retires
    <3> QED
      BY <3>1, <3>2
  <2> QED
    BY <1>i, <1>r, <2>1 DEF TypeOK
<1>2. WellFormed'
  BY <1>i, <1>o DEF WellFormed
<1>3. RecoveringIsEmpty'
  BY <1>r DEF RecoveringIsEmpty
<1>4. FreeListsExact'
  <2>1. ASSUME NEW p \in PReg
        PROVE  regState'[p] = "AVAILABLE" <=> regState[p] = "AVAILABLE" \/ p \in Superseded(k)
    BY <1>s DEF Renamed
  <2>2. ASSUME NEW s \in Segment
        PROVE  /\ Distinct(avail'[s])
               /\ Elements(avail'[s]) =
                    {p \in PReg : PR2APRindx(p) = s /\ regState'[p] = "AVAILABLE"}
    <3>1. /\ Distinct(avail'[s])
          /\ Elements(avail'[s]) =
               Elements(avail[s]) \cup {p \in Superseded(k) : PR2APRindx(p) = s}
      BY <1>0 DEF Retires
    <3>2. Elements(avail[s]) = {p \in PReg : PR2APRindx(p) = s /\ regState[p] = "AVAILABLE"}
      BY <1>i DEF FreeListsExact
    <3>3. Superseded(k) \subseteq PReg
      BY <1>i, ChainLinks DEF Superseded
    <3> QED
      BY <2>1, <3>1, <3>2, <3>3
  <2> QED
    BY <1>1, <2>2 DEF FreeListsExact
<1>5. CommittedMapExact'
  <2>1. ASSUME NEW a \in AReg, NEW b \in AReg, cRAT'[a] = cRAT'[b] PROVE a = b
    <3>1. MapsTo(k + 1, a, cRAT'[a]) /\ MapsTo(k + 1, b, cRAT'[a])
      BY <1>r, <2>1
    <3>2. k + 1 \in 1 .. k + 1
      BY <1>n
    <3> QED
      BY <1>i, <1>n, <3>1, <3>2, MappedOnce
  <2>2. ASSUME NEW p \in PReg
        PROVE  regState'[p] = "ARCH_REG" <=> \E a \in AReg : cRAT'[a] = p
    <3>1. regState'[p] = "ARCH_REG" <=> \E a \in AReg : MapsTo(k + 1, a, p)
      BY <1>0, <1>i, CommittedAfter
    <3>2. \A a \in AReg : MapsTo(k + 1, a, p) <=> cRAT'[a] = p
      BY <1>i, <1>n, <1>r, OneMeaning
    <3> QED
      BY <3>1, <3>2
  <2>3. \A a \in AReg : cRAT'[a] \in PReg
    BY <1>r
  <2>4. {p \in PReg : regState'[p] = "ARCH_REG"} = {cRAT'[a] : a \in AReg}
    BY <2>2, <2>3
  <2> QED
    BY <2>1, <2>4 DEF CommittedMapExact
<1>6. InFlightExact'
  <2>1. ASSUME NEW n \in 1 .. Len(rob'), NEW m \in 1 .. Len(rob'),
               NEW i \in 1 .. Len(rob'[n].dst), NEW j \in 1 .. Len(rob'[m].dst),
               rob'[n].dst[i] = rob'[m].dst[j]
        PROVE  n = m /\ i = j
    <3>1. /\ n + k \in 1 .. Len(rob) /\ m + k \in 1 .. Len(rob)
          /\ rob'[n] = rob[n + k] /\ rob'[m] = rob[m + k]
      BY <1>o
    <3>2. n + k = m + k /\ i = j
      BY <1>i, <2>1, <3>1 DEF InFlightExact
    <3> QED
      BY <1>n, <1>o, <3>2
  <2>2. ASSUME NEW n \in 1 .. Len(rob'), NEW i \in 1 .. Len(rob'[n].dst)
        PROVE  regState'[rob'[n].dst[i]] \in Renamed
    <3>1. n + k \in 1 .. Len(rob) /\ rob'[n] = rob[n + k]
      BY <1>o
    <3>2. regState[rob[n + k].dst[i]] \in Renamed
      BY <1>i, <3>1 DEF InFlightExact
    <3> QED
      BY <1>d, <1>s, <3>1, <3>2
  <2>3. ASSUME NEW p \in PReg, regState'[p] \in Renamed
        PROVE  \E n \in 1 .. Len(rob') : \E i \in 1 .. Len(rob'[n].dst) : rob'[n].dst[i] = p
    <3>1. regState[p] \in Renamed /\ p \notin Defined(k)
      BY <1>s, <2>3 DEF Renamed
    <3>2. PICK m \in 1 .. Len(rob) : \E i \in 1 .. Len(rob[m].dst) : rob[m].dst[i] = p
      BY <1>i, <1>r, <3>1 DEF InFlightExact
    <3>3. m \notin 1 .. k
      BY <3>1, <3>2 DEF Defined, Elements
    <3>4. m - k \in 1 .. Len(rob') /\ (m - k) + k = m
      BY <1>n, <1>r, <3>3
    <3>5. rob'[m - k] = rob[m]
      BY <1>o, <3>4
    <3> QED
      BY <3>2, <3>4, <3>5
  <2>4. Renamed' = Renamed
    BY DEF Renamed
  <2> QED
    BY <2>1, <2>2, <2>3, <2>4 DEF InFlightExact
<1>7. UndoChain'
  <2>1. ASSUME NEW n \in 1 .. Len(rob'), NEW i \in 1 .. Len(rob'[n].dst), NEW a, NEW p,
               a = rob'[n].wr[i], p = prev'[rob'[n].dst[i]]
        PROVE  MapsTo(n, a, p)'
    <3>1. n + k \in 1 .. Len(rob) /\ rob'[n] = rob[n + k] /\ n \in 1 .. Len(rob) - k + 1
      BY <1>o
    <3>2. p = prev[rob[n + k].dst[i]]
      BY <1>d, <1>s, <2>1, <3>1
    <3>3. MapsTo(n + k, a, p)
      BY <1>i, <2>1, <3>1, <3>2 DEF UndoChain
    <3>4. i \in 1 .. Len(rob[n + k].wr)
      BY <1>i, <3>1 DEF WellFormed
    <3>5. a \in AReg
      BY <1>i, <2>1, <3>1, <3>4, RobEntry
    <3> QED
      BY <1>m, <3>1, <3>3, <3>5
  <2> QED
    BY <2>1, UndoChainNext
<1>8. Sources'
  <2>1. ASSUME NEW n \in 1 .. Len(rob'), NEW i \in 1 .. Len(rob'[n].src), NEW a, NEW p,
               a = rob'[n].rd[i], p = rob'[n].src[i]
        PROVE  MapsTo(n, a, p)'
    <3>1. n + k \in 1 .. Len(rob) /\ rob'[n] = rob[n + k] /\ n \in 1 .. Len(rob) - k + 1
      BY <1>o
    <3>2. MapsTo(n + k, a, p)
      BY <1>i, <2>1, <3>1 DEF Sources
    <3>3. i \in 1 .. Len(rob[n + k].rd)
      BY <1>i, <3>1 DEF WellFormed
    <3>4. a \in AReg
      BY <1>i, <2>1, <3>1, <3>3, RobEntry
    <3> QED
      BY <1>m, <3>1, <3>2, <3>4
  <2> QED
    BY <2>1, SourcesNext
<1>9. SpeculativeMap'
  <2>1. ASSUME NEW a \in AReg, NEW m, NEW p, m = Len(rob') + 1, p = fRAT'[a]
        PROVE  MapsTo(m, a, p)'
    <3>1. m + k = Len(rob) + 1 /\ m \in 1 .. Len(rob) - k + 1
      BY <1>n, <1>r, <2>1
    <3>2. MapsTo(m + k, a, p)
      BY <1>i, <1>r, <2>1, <3>1 DEF SpeculativeMap
    <3> QED
      BY <1>m, <3>1, <3>2
  <2> QED
    BY <2>1, SpeculativeMapNext
<1>10. DroppedStayReadable'
  <2>1. ASSUME NEW n \in 1 .. Len(rob'), rob'[n].stage = "DISPATCH",
               NEW p \in Elements(rob'[n].src) \ rob'[n].waits
        PROVE  regState'[p] \in {"ARCH_REG", "RENAMED_VALID"}
    <3>1. /\ n + k \in 1 .. Len(rob) /\ rob'[n] = rob[n + k]
          /\ n + k \in k + 1 .. Len(rob) + 1
      BY <1>o
    <3>2. regState[p] \in {"ARCH_REG", "RENAMED_VALID"}
      BY <1>i, <1>r, <2>1, <3>1 DEF DroppedStayReadable
    <3>3. PICK i \in 1 .. Len(rob[n + k].src) : rob[n + k].src[i] = p
      BY <2>1, <3>1 DEF Elements
    <3>4. i \in 1 .. Len(rob[n + k].rd)
      BY <1>i, <3>1 DEF WellFormed
    <3>5. rob[n + k].rd[i] \in AReg /\ p \in PReg
      BY <1>i, <3>1, <3>3, <3>4, RobEntry
    <3>6. MapsTo(n + k, rob[n + k].rd[i], p)
      BY <1>i, <3>1, <3>3 DEF Sources
    <3>7. p \notin Superseded(k)
      BY <1>i, <3>1, <3>5, <3>6, SupersededUnnamed
    <3> QED
      BY <1>s, <3>2, <3>5, <3>7
  <2> QED
    BY <2>1 DEF DroppedStayReadable
<1> QED
  BY <1>1, <1>2, <1>3, <1>4, <1>5, <1>6, <1>7, <1>8, <1>9, <1>10 DEF IInv

-----------------------------------------------------------------------------
(* With an empty ROB nothing is mapped but by the committed map. *)
LEMMA EmptyRob ==
    ASSUME rob' = << >>
    PROVE  WellFormed' /\ UndoChain' /\ Sources' /\ DroppedStayReadable'
<1>1. 1 .. Len(rob') = {}
  OBVIOUS
<1> QED
  BY <1>1 DEF WellFormed, UndoChain, Sources, DroppedStayReadable

(* Emptying the ROB preserves the invariant. *)
LEMMA SquashPreserves ==
    ASSUME IInv, squashROB
    PROVE  IInv'
<1>i. TypeOK /\ FreeListsExact /\ CommittedMapExact
  BY DEF IInv
<1>u. /\ UNCHANGED <<fRAT, cRAT, regState, prev, avail>>
      /\ rob' = << >> /\ recovering' = TRUE /\ front' \in WriteLists
  BY DEF squashROB, regVars
<1>r. rob' \in Seq(Entry) /\ 1 .. Len(rob') = {}
  BY <1>u
<1>1. TypeOK'
  BY <1>i, <1>r, <1>u DEF TypeOK
<1>2. RecoveringIsEmpty'
  BY <1>u DEF RecoveringIsEmpty
<1>3. FreeListsExact' /\ CommittedMapExact'
  BY <1>i, <1>u, <1>1 DEF FreeListsExact, CommittedMapExact
<1>4. WellFormed' /\ UndoChain' /\ Sources' /\ DroppedStayReadable'
  BY <1>u, EmptyRob
<1>5. InFlightExact'
  BY <1>r, <1>u DEF InFlightExact
<1>6. SpeculativeMap'
  BY <1>u DEF SpeculativeMap
<1> QED
  BY <1>1, <1>2, <1>3, <1>4, <1>5, <1>6 DEF IInv

(* The free lists refilled hold the registers outside arch, each in its    *)
(* own segment.                                                            *)
LEMMA Refilled ==
    ASSUME NEW arch, NEW s \in Segment
    PROVE  /\ refilled(arch)[s] \in Seq(PReg) /\ Distinct(refilled(arch)[s])
           /\ Elements(refilled(arch)[s]) = {p \in PReg \ arch : PR2APRindx(p) = s}
<1> DEFINE free == {p \in PReg \ arch : PR2APRindx(p) = s}
<1>1. NumPR \in Nat
  <2>1. \A x, y \in Nat : x * y \in Nat
    BY Z3T(20)
  <2> QED
    BY <2>1, SegmentsAssumption DEF NumPR
<1>2. free \in SUBSET (1 .. NumPR) /\ free \in SUBSET PReg
  BY DEF PReg
<1>3. refilled(arch)[s] = Ascending(free)
  BY DEF refilled
<1> HIDE DEF free
<1>4. Ascending(free) \in Seq(free) /\ Distinct(Ascending(free)) /\ Elements(Ascending(free)) = free
  BY <1>1, <1>2, AscendingEnumerates
<1>5. Ascending(free) \in Seq(PReg)
  <2>1. ASSUME NEW q \in Seq(free) PROVE q \in Seq(PReg)
    <3>1. Len(q) \in Nat /\ q \in [1 .. Len(q) -> free]
      OBVIOUS
    <3>2. \A n \in 1 .. Len(q) : q[n] \in PReg
      BY <1>2, <3>1
    <3>3. q \in [1 .. Len(q) -> PReg]
      BY <3>1, <3>2
    <3> QED
      BY <3>1, <3>3
  <2> QED
    BY <1>4, <2>1
<1> QED
  BY <1>3, <1>4, <1>5 DEF free

(* Restoring the tables preserves the invariant. *)
LEMMA RecoverPreserves ==
    ASSUME IInv, squashRenameReg
    PROVE  IInv'
<1>i. TypeOK /\ RecoveringIsEmpty /\ CommittedMapExact
  BY DEF IInv
<1> DEFINE arch == {cRAT[a] : a \in AReg}
<1>u. /\ UNCHANGED <<cRAT, rob, front>>
      /\ recovering = TRUE /\ recovering' = FALSE
      /\ fRAT' = cRAT
      /\ regState' = [p \in PReg |-> IF p \in arch THEN "ARCH_REG" ELSE "AVAILABLE"]
      /\ prev' = [p \in PReg |-> NoPR]
      /\ avail' = refilled(arch)
  BY <1>i DEF squashRenameReg, TypeOK
<1>r. rob' = << >> /\ 1 .. Len(rob') = {} /\ Len(rob') = 0
  BY <1>i, <1>u DEF RecoveringIsEmpty
<1>a. arch \subseteq PReg
  BY <1>i DEF TypeOK
<1>b. arch' = arch
  BY <1>u
<1> HIDE DEF arch
<1>e. \A s \in Segment :
        /\ avail'[s] \in Seq(PReg) /\ Distinct(avail'[s])
        /\ Elements(avail'[s]) = {p \in PReg \ arch : PR2APRindx(p) = s}
  BY <1>u, Refilled
<1>1. TypeOK'
  <2>1. avail' \in [Segment -> Seq(PReg)]
    BY <1>u, <1>e DEF refilled
  <2>2. regState' \in [PReg -> RegState] /\ prev' \in [PReg -> PReg \cup {NoPR}]
    BY <1>u DEF RegState
  <2> QED
    BY <1>i, <1>u, <2>1, <2>2 DEF TypeOK
<1>2. RecoveringIsEmpty'
  BY <1>u DEF RecoveringIsEmpty
<1>3. FreeListsExact'
  <2>1. \A p \in PReg : regState'[p] = "AVAILABLE" <=> p \notin arch
    BY <1>u
  <2>2. ASSUME NEW s \in Segment
        PROVE  Elements(avail'[s]) =
                 {p \in PReg : PR2APRindx(p) = s /\ regState'[p] = "AVAILABLE"}
    BY <1>e, <2>1
  <2> QED
    BY <1>1, <1>e, <2>2 DEF FreeListsExact
<1>4. CommittedMapExact'
  <2>1. \A p \in PReg : regState'[p] = "ARCH_REG" <=> p \in arch
    BY <1>u
  <2>2. {p \in PReg : regState'[p] = "ARCH_REG"} = {cRAT'[a] : a \in AReg}
    BY <1>a, <1>u, <2>1 DEF arch
  <2> QED
    BY <1>i, <1>u, <2>2 DEF CommittedMapExact
<1>5. WellFormed' /\ UndoChain' /\ Sources' /\ DroppedStayReadable'
  BY <1>r, EmptyRob
<1>6. InFlightExact'
  <2>1. \A p \in PReg : regState'[p] \notin Renamed
    BY <1>u DEF Renamed
  <2>2. Renamed' = Renamed
    BY DEF Renamed
  <2> QED
    BY <1>r, <2>1, <2>2 DEF InFlightExact
<1>7. SpeculativeMap'
  <2>1. ASSUME NEW a \in AReg, NEW m, NEW p, m = Len(rob') + 1, p = fRAT'[a]
        PROVE  MapsTo(m, a, p)'
    <3>1. 1 .. m - 1 = {} /\ cRAT'[a] = p
      BY <1>r, <1>u, <2>1
    <3> QED
      BY <3>1 DEF MapsTo
  <2> QED
    BY <2>1, SpeculativeMapNext
<1> QED
  BY <1>1, <1>2, <1>3, <1>4, <1>5, <1>6, <1>7 DEF IInv

(* The register file as it is built satisfies the invariant. *)
LEMMA InitHolds ==
    ASSUME Init
    PROVE  IInv
<1> DEFINE arch == {InitialPR(a) : a \in AReg}
<1>1. /\ fRAT = [a \in AReg |-> InitialPR(a)] /\ cRAT = fRAT
      /\ regState = [p \in PReg |-> IF p \in arch THEN "ARCH_REG" ELSE "AVAILABLE"]
      /\ prev = [p \in PReg |-> NoPR]
      /\ avail = refilled(arch)
      /\ rob = << >> /\ 1 .. Len(rob) = {} /\ Len(rob) = 0
      /\ recovering = FALSE /\ front \in WriteLists
  BY DEF Init, refilled
<1>a. /\ arch \subseteq PReg /\ \A a \in AReg : InitialPR(a) \in PReg
      /\ \A a, b \in AReg : InitialPR(a) = InitialPR(b) => a = b
      /\ arch = {cRAT[a] : a \in AReg}
  BY <1>1, InitialRegisters
<1> HIDE DEF arch
<1>e. \A s \in Segment :
        /\ avail[s] \in Seq(PReg) /\ Distinct(avail[s])
        /\ Elements(avail[s]) = {p \in PReg \ arch : PR2APRindx(p) = s}
  BY <1>1, Refilled
<1>2. TypeOK
  <2>1. avail \in [Segment -> Seq(PReg)]
    BY <1>1, <1>e DEF refilled
  <2>2. regState \in [PReg -> RegState] /\ prev \in [PReg -> PReg \cup {NoPR}]
    BY <1>1 DEF RegState
  <2>3. fRAT \in [AReg -> PReg] /\ cRAT \in [AReg -> PReg]
    BY <1>1, <1>a
  <2>4. rob \in Seq(Entry) /\ recovering \in BOOLEAN
    <3>1. << >> \in Seq(Entry)
      BY EmptySeq
    <3> QED
      BY <1>1, <3>1
  <2> QED
    BY <1>1, <2>1, <2>2, <2>3, <2>4 DEF TypeOK
<1>3. FreeListsExact
  <2>1. \A p \in PReg : regState[p] = "AVAILABLE" <=> p \notin arch
    BY <1>1
  <2> QED
    BY <1>2, <1>e, <2>1 DEF FreeListsExact
<1>4. CommittedMapExact
  <2>1. \A p \in PReg : regState[p] = "ARCH_REG" <=> p \in arch
    BY <1>1
  <2> QED
    BY <1>1, <1>a, <2>1 DEF CommittedMapExact
<1>5. WellFormed /\ RecoveringIsEmpty /\ UndoChain /\ Sources /\ DroppedStayReadable
  BY <1>1 DEF WellFormed, RecoveringIsEmpty, UndoChain, Sources, DroppedStayReadable
<1>6. InFlightExact
  BY <1>1 DEF InFlightExact, Renamed
<1>7. SpeculativeMap
  BY <1>1 DEF SpeculativeMap, MapsTo
<1> QED
  BY <1>2, <1>3, <1>4, <1>5, <1>6, <1>7 DEF IInv

(* A stuttering step preserves the invariant. *)
LEMMA StutterPreserves ==
    ASSUME IInv, UNCHANGED vars
    PROVE  IInv'
<1>i. TypeOK /\ WellFormed /\ RecoveringIsEmpty /\ FreeListsExact /\ CommittedMapExact
      /\ InFlightExact /\ UndoChain /\ Sources /\ SpeculativeMap /\ DroppedStayReadable
  BY DEF IInv
<1>u. UNCHANGED <<fRAT, cRAT, regState, prev, avail, rob, recovering, front>>
  BY DEF vars
<1>1. TypeOK'
  BY <1>i, <1>u DEF TypeOK
<1>2. SameLists
  BY <1>u DEF SameLists
<1>3. WellFormed' /\ RecoveringIsEmpty' /\ UndoChain' /\ Sources' /\ SpeculativeMap'
  BY <1>i, <1>u, <1>2, SameListsKeepMaps
<1>4. FreeListsExact' /\ CommittedMapExact'
  BY <1>i, <1>u, <1>1 DEF FreeListsExact, CommittedMapExact
<1>5. InFlightExact'
  BY <1>i, <1>u, <1>2, SameListsInFlight
<1>6. DroppedStayReadable'
  BY <1>i, <1>u DEF DroppedStayReadable
<1> QED
  BY <1>1, <1>3, <1>4, <1>5, <1>6 DEF IInv

-----------------------------------------------------------------------------
(* The invariant is inductive. *)
THEOREM Inductive == Spec => []IInv
<1>1. Init => IInv
  BY InitHolds
<1>2. IInv /\ [Next]_vars => IInv'
  <2> SUFFICES ASSUME IInv, [Next]_vars PROVE IInv'
    OBVIOUS
  <2>1. CASE \E rd \in ReadLists, w \in Window, last \in BOOLEAN : renameRegs(rd, w, last)
    BY <2>1, RenamePreserves
  <2>2. CASE \E n \in 1 .. Len(rob) : isReady(n)
    BY <2>2, IssuePreserves
  <2>3. CASE tick
    BY <2>3, TickPreserves
  <2>4. CASE \E n \in 1 .. Len(rob) : completeRegs(n)
    BY <2>4, CompletePreserves
  <2>5. CASE commitBB
    BY <2>5, CommitPreserves
  <2>6. CASE squashROB
    BY <2>6, SquashPreserves
  <2>7. CASE squashRenameReg
    BY <2>7, RecoverPreserves
  <2>8. CASE UNCHANGED vars
    BY <2>8, StutterPreserves
  <2> QED
    BY <2>1, <2>2, <2>3, <2>4, <2>5, <2>6, <2>7, <2>8 DEF Next
<1> QED
  BY <1>1, <1>2, PTL DEF Spec

(* No register is leaked, freed twice, handed out while in use or returned *)
(* to a segment that is not its own, whatever the number of segments and   *)
(* windows and however often a block defines a register (commitBB).        *)
THEOREM FreeListsAreExact == Spec => []FreeListsExact
<1>1. IInv => FreeListsExact
  BY DEF IInv
<1> QED
  BY <1>1, Inductive, PTL

(* The committed map and the ARCH_REG states, from which a squash rebuilds *)
(* the tables (squashRenameReg), always describe each other.               *)
THEOREM CommittedMapIsExact == Spec => []CommittedMapExact
<1>1. IInv => CommittedMapExact
  BY DEF IInv
<1> QED
  BY <1>1, Inductive, PTL

(* Sources name their true producers and the speculative map the youngest  *)
(* definitions, through every interleaving of renames, block commits and   *)
(* squashes.                                                               *)
THEOREM ProducersAreTrue == Spec => []TrueProducers
<1>1. IInv => TrueProducers
  BY DEF IInv, TrueProducers, Sources, SpeculativeMap
<1> QED
  BY <1>1, Inductive, PTL

(* An operand found readable and dropped from the wait list (isReady) is   *)
(* readable until its instruction issues: no block commit frees it before. *)
THEOREM DroppedOperandsStayReadable == Spec => []DroppedStayReadable
<1>1. IInv => DroppedStayReadable
  BY DEF IInv
<1> QED
  BY <1>1, Inductive, PTL

(* The register an in-flight destination will free is the definition it    *)
(* supersedes, in the same block or before it (updatePR).                  *)
THEOREM LinksNameThePrevious == Spec => []UndoChain
<1>1. IInv => UndoChain
  BY DEF IInv
<1> QED
  BY <1>1, Inductive, PTL
=============================================================================
