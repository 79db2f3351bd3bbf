----------------------------- MODULE Translator -----------------------------
(***************************************************************************)
(* The binary translator (src/src/binaryTranslator), which rewrites a      *)
(* program for the block-oriented core before it is simulated: basic       *)
(* blocks, dominance frontiers, SSA form, copies in place of the           *)
(* phi-functions, liveness, list scheduling, register allocation with      *)
(* local and global registers, and the removal of superfluous copies.      *)
(*                                                                         *)
(* One action is one pass of main, or one sweep of a pass that iterates.   *)
(* An address is an index in the program; the inserted copies get the      *)
(* addresses behind it.  A name is a pair of a variable and its SSA index. *)
(* When the translation is done the original and the translated program    *)
(* run side by side, block by block, on any path, and each read is         *)
(* compared with the one of the original.                                  *)
(***************************************************************************)
EXTENDS Integers, FiniteSets, SequencesExt

CONSTANTS
    Programs,    \* the programs translated: sequences of instructions
    NumVars,     \* the x86 registers
    ClusterSize, \* cluster_size: the length at which a block is cut
    NumEU,       \* instructions a scheduling round takes
    MaxSweeps,   \* bound: sweeps of an iterating pass
    LrfSize,     \* local registers
    GrfSize,     \* global registers
    RegModes,    \* among "GLOBAL" and "LOCAL_GLOBAL"
    SchModes     \* among "NO_LIST_SCH" and "LIST_SCH"

ASSUME SizesAssumption ==
    /\ ClusterSize \in Nat \ {0} /\ NumEU \in Nat \ {0}
    /\ LrfSize \in Nat /\ GrfSize \in Nat /\ NumVars \in Nat

Vars == 1 .. NumVars

(* Instructions have a type, the sets of registers they read and write and *)
(* a destination, 0 for none.  No branch has its own fall-through as its   *)
(* destination.                                                            *)
ASSUME ProgramsAssumption ==
    \A p \in Programs : \A a \in DOMAIN p :
        /\ p[a].type \in {"o", "ld", "st", "b", "j", "c", "r", "s"}
        /\ p[a].rd \subseteq Vars /\ p[a].wr \subseteq Vars
        /\ p[a].dst \in 0 .. Len(p)
        /\ p[a].type = "b" => p[a].dst # a + 1

VARIABLES
    program, regMode, schMode, \* what is translated, and how
    pass,        \* the next pass
    sweeps,      \* how often an iterating pass has swept the blocks
    code,        \* the basic blocks, each a sequence of instructions
    desc, anc,   \* their descendants and ancestors in the flow graph
    preDeps,     \* the dependences found before renaming
    dom, allDom, \* dominator sets, and the blocks still dominated by all
    kids, df,    \* dominator tree and dominance frontiers
    phi,         \* the variables with a phi-function, by block
    ssa,         \* what renaming has built
    live,        \* the names live into and out of each block
    sched,       \* the list schedule of each block
    reg,         \* the register of each name
    final,       \* the blocks that are written out
    at,          \* the block that runs next; 0 before and after
    beat,        \* when it runs, modulo 4, to tell its results apart
    orig,        \* the values of the variables in the original program
    named, regs, \* the values of the names and of the registers
    misread,     \* instructions that read another value through a name,
    misled       \*   and through a register

inputs    == <<program, regMode, schMode>>
graph     == <<desc, anc, preDeps>>
domVars   == <<dom, allDom>>
execVars  == <<at, beat, orig, named, regs, misread, misled>>
vars == <<inputs, pass, sweeps, code, graph, domVars, kids, df, phi, ssa, live, sched,
          reg, final, execVars>>

Blocks == DOMAIN code
upTo(n) == [i \in 1 .. n |-> i]
ascending(S) == SelectSeq(upTo(Len(code)), LAMBDA b : b \in S)

(* FoldLeft; TLC is made to evaluate what has been accumulated only once. *)
fold(op(_, _), base, seq) ==
    FoldLeft(LAMBDA acc, e : CHOOSE r \in {op(x, e) : x \in {acc}} : r = r,
             base, seq)

-----------------------------------------------------------------------------
(* Basic blocks. *)

Enders == {"j", "b", "r", "c", "s"}
hasDst(a) == program[a].type \in {"j", "b", "c"} /\ program[a].dst # 0
hasFallThru(a) == program[a].type \notin {"j", "r", "s"} /\ a < Len(program)

brDstSet ==
    {program[a].dst : a \in {x \in DOMAIN program : hasDst(x)}}
    \cup {a + 1 : a \in {x \in DOMAIN program :
                           program[x].type \in {"b", "c"} /\ hasFallThru(x)}}
leader(a) == a = 1 \/ a \in brDstSet
closes(a) == program[a].type \in Enders \/ ~hasFallThru(a)

(* A leader starts a block unless the last one is still empty; a block     *)
(* that has its size is cut in front of anything but a branch.             *)
addIns(bl, a) ==
    LET full == Len(Last(bl)) >= ClusterSize
        fresh == \/ leader(a) /\ Last(bl) # << >>
                 \/ ~leader(a) /\ ~closes(a) /\ full
        put == IF fresh THEN Append(bl, <<a>>)
               ELSE [bl EXCEPT ![Len(bl)] = Append(@, a)]
    IN  IF closes(a) \/ (leader(a) /\ Len(Last(put)) >= ClusterSize)
        THEN Append(put, << >>) ELSE put

asName(v) == <<v, 0>>
insAt(a) == [addr |-> a, type |-> program[a].type, mov |-> FALSE,
             rd |-> {asName(v) : v \in program[a].rd},
             wr |-> {asName(v) : v \in program[a].wr}]
formBlocks ==
    LET cut == SelectSeq(fold(addIns, << << >> >>, upTo(Len(program))),
                         LAMBDA b : b # << >>)
    IN  [b \in DOMAIN cut |-> [n \in DOMAIN cut[b] |-> insAt(cut[b][n])]]

nextAddrs(a) ==
    (IF hasFallThru(a) THEN <<a + 1>> ELSE << >>)
    \o (IF hasDst(a) /\ program[a].type # "c" THEN <<program[a].dst>>
        ELSE << >>)
descOf(bl) ==
    LET start(a) == CHOOSE b \in DOMAIN bl : bl[b][1].addr = a
    IN  [b \in DOMAIN bl |->
            LET to == nextAddrs(Last(bl[b]).addr)
            IN  [n \in DOMAIN to |-> start(to[n])]]
ancOf(d) == [b \in DOMAIN d |->
                SelectSeq(upTo(Len(d)), LAMBDA x : b \in ToSet(d[x]))]

IsMem(i) == i.type \in {"ld", "st"}

(* Register dependences are true ones only; a memory operation depends on  *)
(* the last store; everything in a block comes before its branch.          *)
rawDeps(bl) ==
    {e \in (1 .. Len(bl)) \X (1 .. Len(bl)) :
        /\ e[1] < e[2]
        /\ \E r \in bl[e[1]].wr \cap bl[e[2]].rd :
              \A k \in e[1] + 1 .. e[2] - 1 : r \notin bl[k].wr}

(* Fault: memory operations are independent. *)
memDeps_None(bl) == {}

memDeps(bl) ==
    {e \in (1 .. Len(bl)) \X (1 .. Len(bl)) :
        /\ e[1] < e[2] /\ bl[e[1]].type = "st" /\ IsMem(bl[e[2]])
        /\ \A k \in e[1] + 1 .. e[2] - 1 : bl[k].type # "st"}
ctrlDeps(bl) ==
    {e \in (1 .. Len(bl)) \X (1 .. Len(bl)) :
        e[1] < e[2] /\ bl[e[2]].type \in {"j", "c", "r", "b"}}
dependences(bl) ==
    {<<bl[e[1]].addr, bl[e[2]].addr>> :
        e \in rawDeps(bl) \cup memDeps(bl) \cup ctrlDeps(bl)}

make_basicblock ==
    /\ pass = "blocks"
    /\ code' = formBlocks
    /\ desc' = descOf(code') /\ anc' = ancOf(desc')
    /\ preDeps' = UNION {dependences(code'[b]) : b \in DOMAIN code'}
    /\ dom' = [b \in DOMAIN code' |-> IF anc'[b] = << >> THEN {b} ELSE {}]
    /\ allDom' = {b \in DOMAIN code' : anc'[b] # << >>}
    /\ pass' = "dominators"
    /\ UNCHANGED <<inputs, sweeps, kids, df, phi, ssa, live, sched, reg,
                   final, execVars>>

-----------------------------------------------------------------------------
(* Dominators.  An ancestor still dominated by all blocks is skipped; a    *)
(* block all of whose ancestors are takes itself and stays so.             *)

(* Fault: only the first known ancestor counts. *)
meet_First(d, known) == d[known[1]]

meet(d, known) ==
    {x \in d[known[1]] : \A n \in DOMAIN known : x \in d[known[n]]}

(* Fault: a block nothing known leads to keeps the passes going. *)
sweepBlock_UntilKnown(s, n) ==
    LET known == SelectSeq(anc[n], LAMBDA a : a \notin s.all)
        new == {n} \cup (IF known = << >> THEN s.dom[n] ELSE meet(s.dom, known))
    IN  IF anc[n] = << >> THEN s
        ELSE [dom |-> [s.dom EXCEPT ![n] = new],
              all |-> IF known = << >> THEN s.all ELSE s.all \ {n},
              change |-> s.change \/ new # s.dom[n] \/ known = << >>]

sweepBlock(s, n) ==
    LET known == SelectSeq(anc[n], LAMBDA a : a \notin s.all)
        new == {n} \cup (IF known = << >> THEN s.dom[n] ELSE meet(s.dom, known))
    IN  IF anc[n] = << >> THEN s
        ELSE [dom |-> [s.dom EXCEPT ![n] = new],
              all |-> IF known = << >> THEN s.all ELSE s.all \ {n},
              change |-> s.change \/ new # s.dom[n]]

build_dominators ==
    /\ pass = "dominators" /\ sweeps <= MaxSweeps
    /\ LET s == fold(sweepBlock,
                         [dom |-> dom, all |-> allDom, change |-> FALSE],
                         upTo(Len(code)))
       IN  /\ dom' = s.dom /\ allDom' = s.all
           /\ pass' = IF s.change THEN pass ELSE "frontier"
           /\ sweeps' = IF s.change THEN sweeps + 1 ELSE 0
    /\ UNCHANGED <<inputs, code, graph, kids, df, phi, ssa, live, sched,
                   reg, final, execVars>>

sdom(b) == dom[b] \ {b}
idoms(b) == {a \in sdom(b) : \A x \in sdom(b) \ {a} : x \in sdom(a)}
Roots == {b \in Blocks : sdom(b) = {}}

(* findDF visits the tree bottom up. *)
frontiers(tree) ==
    LET f[b \in Blocks] ==
            {u \in ToSet(desc[b]) \cup UNION {f[c] : c \in tree[b]} :
                b \notin sdom(u)}
    IN  f

build_dominance_frontier ==
    /\ pass = "frontier"
    /\ kids' = [b \in Blocks |-> {c \in Blocks : b \in idoms(c)}]
    /\ df' = frontiers(kids')
    /\ pass' = "phi"
    /\ UNCHANGED <<inputs, sweeps, code, graph, domVars, phi, ssa, live,
                   sched, reg, final, execVars>>

-----------------------------------------------------------------------------
(* SSA form. *)

varsOf(names) == {x[1] : x \in names}
defBlocks(v) == {b \in Blocks : \E n \in DOMAIN code[b] :
                                    v \in varsOf(code[b][n].wr)}

(* Fault: a phi-function is no definition. *)
placed_Once(v) == UNION {df[b] : b \in defBlocks(v)}

(* The worklist: a block that gets a phi-function defines the variable.    *)
RECURSIVE spread(_, _, _)
spread(work, defs, done) ==
    IF work = {} THEN done
    ELSE LET x == CHOOSE x \in work : \A y \in work : x <= y
             new == df[x] \ done
         IN  spread((work \ {x}) \cup (new \ defs), defs, done \cup new)
placed(v) == spread(defBlocks(v), defBlocks(v), {})

phi_func_placement ==
    /\ pass = "phi"
    /\ LET where == [v \in Vars |-> placed(v)]
       IN  phi' = [b \in Blocks |-> {v \in Vars : b \in where[v]}]
    /\ pass' = "rename"
    /\ UNCHANGED <<inputs, sweeps, code, graph, domVars, kids, df, ssa,
                   live, sched, reg, final, execVars>>

(* A variable read before any definition gets an index then and there      *)
(* (getTopStack).                                                          *)
top(s, v) == Last(s.stack[v])
use(s, R) ==
    LET fresh == {v \in R : s.stack[v] = << >>}
    IN  [s EXCEPT !.stack = [v \in Vars |-> IF v \in fresh THEN <<s.c[v]>>
                                            ELSE @[v]],
                  !.c = [v \in Vars |-> IF v \in fresh THEN @[v] + 1 ELSE @[v]]]
define(s, W) ==
    [s EXCEPT !.stack = [v \in Vars |-> IF v \in W THEN Append(@[v], s.c[v])
                                        ELSE @[v]],
              !.c = [v \in Vars |-> IF v \in W THEN @[v] + 1 ELSE @[v]]]
latest(s, names) == {<<v, top(s, v)>> : v \in varsOf(names)}

renameIns(s, b, n) ==
    LET i == code[b][n]
        u == use(s, varsOf(i.rd))
        d == define(u, varsOf(i.wr))
    IN  [d EXCEPT !.code[b][n].rd = latest(u, i.rd),
                  !.code[b][n].wr = latest(d, i.wr)]

fillPhis(s, b, y) ==
    LET u == use(s, phi[y])
        n == CHOOSE n \in DOMAIN anc[y] : anc[y][n] = b
    IN  [u EXCEPT !.ops[y] = [v \in phi[y] |-> [@[v] EXCEPT ![n] = top(u, v)]]]

(* The definitions of the block are popped, and the index made up for an   *)
(* undefined variable too when an instruction of the block reads it.       *)
popped(s, s3, b, v) ==
    LET body == {n \in DOMAIN code[b] : v \in varsOf(code[b][n].wr)}
        defs == Cardinality(body) + (IF v \in phi[b] THEN 1 ELSE 0)
        isRead == \E n \in DOMAIN code[b] : v \in varsOf(code[b][n].rd)
    IN  IF isRead THEN Len(s3.stack[v]) - Len(s.stack[v]) ELSE defs

RECURSIVE search(_, _)
search(s, b) ==
    LET s1 == [define(s, phi[b]) EXCEPT !.dest[b] = [v \in phi[b] |-> s.c[v]]]
        s2 == fold(LAMBDA x, n : renameIns(x, b, n), s1,
                       upTo(Len(code[b])))
        s3 == fold(LAMBDA x, y : fillPhis(x, b, y), s2, desc[b])
        s4 == fold(search, s3, ascending(kids[b]))
    IN  [s4 EXCEPT !.stack = [v \in Vars |->
             SubSeq(@[v], 1, Len(@[v]) - popped(s, s3, b, v))]]

ssa_renaming ==
    /\ pass = "rename"
    /\ LET start == [c |-> [v \in Vars |-> 1], stack |-> [v \in Vars |-> << >>],
                     code |-> code, dest |-> [b \in Blocks |-> << >>],
                     ops |-> [b \in Blocks |-> [v \in phi[b] |->
                                [n \in DOMAIN anc[b] |-> 0]]]]
           s == fold(search, start, ascending(Roots))
       IN  code' = s.code /\ ssa' = [dest |-> s.dest, ops |-> s.ops]
    /\ pass' = "phielim"
    /\ UNCHANGED <<inputs, sweeps, graph, domVars, kids, df, phi, live,
                   sched, reg, final, execVars>>

(* A copy goes in front of a final branch, otherwise to the end. *)
addMovIns(bl, mov) ==
    IF Last(bl).type \in Enders THEN InsertAt(bl, Len(bl), mov)
    ELSE Append(bl, mov)

(* The copies of block y for variable v at its n-th ancestor, in the order *)
(* of blocks, variables and ancestors.                                     *)
phiCopies ==
    LET atAncestors(y, v) == IF v \in phi[y]
                             THEN [n \in DOMAIN anc[y] |-> <<y, v, n>>]
                             ELSE << >>
    IN  FlattenSeq([y \in Blocks |->
                       FlattenSeq([v \in Vars |-> atAncestors(y, v)])])

insertCopy(cd, m) ==
    LET e == phiCopies[m]
        mov == [addr |-> Len(program) + m, type |-> "o", mov |-> TRUE,
                rd |-> {<<e[2], ssa.ops[e[1]][e[2]][e[3]]>>},
                wr |-> {<<e[2], ssa.dest[e[1]][e[2]]>>}]
    IN  [cd EXCEPT ![anc[e[1]][e[3]]] = addMovIns(@, mov)]

eliminatePhiFuncs ==
    /\ pass = "phielim"
    /\ code' = fold(insertCopy, code, upTo(Len(phiCopies)))
    /\ live' = [b \in Blocks |-> [in |-> {}, out |-> {}]]
    /\ pass' = "liveness"
    /\ UNCHANGED <<inputs, sweeps, graph, domVars, kids, df, phi, ssa,
                   sched, reg, final, execVars>>

-----------------------------------------------------------------------------
(* Liveness.  A sweep visits the blocks from the last to the first. *)

(* after[n]: the names live behind the n-th instruction; 0 is the entry. *)
liveAfter(bl, out) ==
    LET after[n \in 0 .. Len(bl)] ==
            IF n = Len(bl) THEN out
            ELSE bl[n + 1].rd \cup (after[n + 1] \ bl[n + 1].wr)
    IN  after

flowIn(lv, b) == lv[b].out \cup UNION {lv[d].in : d \in ToSet(desc[b])}
update_InOutSet(lv, b) ==
    LET out == flowIn(lv, b)
    IN  [lv EXCEPT ![b] = [in |-> liveAfter(code[b], out)[0], out |-> out]]

settled(lv) == lv = live

livenessAnalysis ==
    /\ pass = "liveness" /\ sweeps <= MaxSweeps
    /\ live' = fold(update_InOutSet, live, Reverse(upTo(Len(code))))
    /\ pass' = IF settled(live') THEN "schedule" ELSE pass
    /\ sweeps' = IF settled(live') THEN 0 ELSE sweeps + 1
    /\ UNCHANGED <<inputs, code, graph, domVars, kids, df, phi, ssa, sched,
                   reg, final, execVars>>

(* The local registers of each instruction: written in the block, and read *)
(* for the last time later on in it.                                       *)
localNames(b) ==
    LET bl == code[b]
        after == liveAfter(bl, live[b].out)
        before(n) == UNION {bl[k].wr : k \in 1 .. n - 1}
        lastReads(n) == (bl[n].rd \ after[n]) \cap before(n)
        loc[n \in DOMAIN bl] ==
            lastReads(n) \cup
            (IF n = Len(bl) THEN {} ELSE loc[n + 1] \cap (bl[n].wr \cup before(n)))
    IN  IF regMode = "LOCAL_GLOBAL" THEN loc ELSE [n \in DOMAIN bl |-> {}]

-----------------------------------------------------------------------------
(* List scheduling by the longest latency to the end of the block. *)

latency(i) == CASE i.type = "b" -> 3 [] i.type = "ld" -> 4 [] i.type = "st" -> 2
                [] OTHER -> 1

comesBefore(b) ==
    {e \in (1 .. Len(code[b])) \X (1 .. Len(code[b])) :
        <<code[b][e[1]].addr, code[b][e[2]].addr>>
            \in dependences(code[b]) \cup preDeps}

findLongestPath(b, deps) ==
    LET path[n \in DOMAIN code[b]] ==
            latency(code[b][n])
            + Max({0} \cup {path[e[2]] : e \in {x \in deps : x[1] = n}})
    IN  path

(* Quicksort, longest path first; the leftmost entry is the pivot, and     *)
(* entries of equal length may change places.                              *)
exchange(list, x, y) == [list EXCEPT ![x] = list[y], ![y] = list[x]]

RECURSIVE cross(_, _, _, _, _)
cross(list, left, right, pivot, path) ==
    LET l == Min({n \in left + 1 .. right : n = right \/ path[list[n]] <= pivot})
        r == Max({n \in 1 .. right : path[list[n]] >= pivot})
    IN  IF l < r THEN cross(exchange(list, l, r), l, r, pivot, path)
        ELSE [list |-> list, at |-> r]

RECURSIVE quicksortLongestPath(_, _, _, _)
quicksortLongestPath(list, left, right, path) ==
    IF left >= right THEN list
    ELSE LET c == cross(list, left, right, path[list[left]], path)
             low == quicksortLongestPath(exchange(c.list, left, c.at), left,
                                         c.at - 1, path)
         IN  quicksortLongestPath(low, c.at + 1, right, path)

(* A round takes the first NumEU instructions whose ancestors in the block *)
(* were taken in earlier rounds.                                           *)
RECURSIVE rounds(_, _, _)
rounds(order, deps, taken) ==
    LET done == ToSet(taken)
        ready == SelectSeq(order, LAMBDA n :
                     n \notin done /\ \A e \in deps : e[2] = n => e[1] \in done)
    IN  IF Len(taken) = Len(order) THEN taken
        ELSE rounds(order, deps,
                    taken \o SubSeq(ready, 1, Min({NumEU, Len(ready)})))

listSchedule(b) ==
    LET deps == comesBefore(b)
        order == quicksortLongestPath(upTo(Len(code[b])), 1, Len(code[b]),
                                      findLongestPath(b, deps))
        list == rounds(order, deps, << >>)
    IN  [n \in DOMAIN list |-> code[b][list[n]]]

scheduleBlocks ==
    /\ pass = "schedule"
    /\ sched' = IF schMode = "LIST_SCH" THEN [b \in Blocks |-> listSchedule(b)]
                ELSE code
    /\ pass' = "allocate"
    /\ UNCHANGED <<inputs, sweeps, code, graph, domVars, kids, df, phi,
                   ssa, live, reg, final, execVars>>

-----------------------------------------------------------------------------
(* Register allocation: one network for the global names of the program,   *)
(* and one for the local names of each block.                              *)

LocalRegs == 1 .. LrfSize
GlobalRegs == LrfSize + 1 .. LrfSize + GrfSize

pairsOf(S) == {{x, y} : <<x, y>> \in {e \in S \X S : e[1] # e[2]}}

(* Of each instruction: what is live behind it, and what it writes. *)
globalSets(b) ==
    LET after == liveAfter(code[b], live[b].out)
        loc == localNames(b)
    IN  UNION {{after[n] \ loc[n], code[b][n].wr \ loc[n]} : n \in DOMAIN loc}
globalNames ==
    UNION {LET after == liveAfter(code[b], live[b].out)
               loc == localNames(b)
           IN  UNION {(after[n] \cup after[n - 1] \cup code[b][n].wr) \ loc[n] :
                         n \in DOMAIN loc} : b \in Blocks}

(* Fault: only what one instruction writes interferes. *)
globalEdges_WritesOnly ==
    UNION {UNION {pairsOf(code[b][n].wr \ localNames(b)[n]) :
                     n \in DOMAIN code[b]} : b \in Blocks}

globalEdges == UNION {UNION {pairsOf(S) : S \in globalSets(b)} : b \in Blocks}

degree(x, left, edges) == Cardinality({y \in left : {x, y} \in edges})
earlier(x, y) == x[2] < y[2] \/ (x[2] = y[2] /\ x[1] < y[1])

(* The node with the most neighbours left, but fewer than there are        *)
(* registers as long as there is one, leaves the graph.                    *)
nextOut(left, edges, n) ==
    LET low == {x \in left : degree(x, left, edges) < n}
        pool == IF low = {} THEN left ELSE low
        most == Max({degree(x, left, edges) : x \in pool})
        best == {x \in pool : degree(x, left, edges) = most}
    IN  CHOOSE x \in best : \A y \in best \ {x} : earlier(x, y)

(* The nodes come back in the opposite order and take the first register   *)
(* that no neighbour has; 0 when there is none, which ends the translator. *)
RECURSIVE assign_registers(_, _, _)
assign_registers(left, edges, regset) ==
    IF left = {} THEN << >>
    ELSE LET x == nextOut(left, edges, Cardinality(regset))
             rest == assign_registers(left \ {x}, edges, regset)
             free == regset \ {rest[y] : y \in {z \in left \ {x} : {x, z} \in edges}}
             r == IF free = {} THEN 0 ELSE Min(free)
         IN  [y \in left |-> IF y = x THEN r ELSE rest[y]]

localRegs(b) ==
    LET loc == localNames(b)
    IN  assign_registers(UNION Range(loc), UNION {pairsOf(S) : S \in Range(loc)},
                         LocalRegs)

allocate_register ==
    /\ pass = "allocate"
    /\ LET locals == [b \in Blocks |-> localRegs(b)]
           globals == assign_registers(globalNames, globalEdges, GlobalRegs)
           local(x) == {b \in Blocks : x \in DOMAIN locals[b]}
           Of(x) == IF local(x) = {} THEN globals[x]
                    ELSE locals[CHOOSE b \in local(x) : TRUE][x]
       IN  reg' = [x \in DOMAIN globals \cup UNION {DOMAIN locals[b] : b \in Blocks}
                     |-> Of(x)]
    /\ pass' = IF 0 \in Range(reg') THEN "spill" ELSE "movs"
    /\ UNCHANGED <<inputs, sweeps, code, graph, domVars, kids, df, phi,
                   ssa, live, sched, final, execVars>>

-----------------------------------------------------------------------------
(* Superfluous copies, in the code as it is written out.  An instruction   *)
(* now says in which register each name it writes goes.                    *)

withRegs(i) == [addr |-> i.addr, mov |-> i.mov, rd |-> i.rd,
                to |-> [x \in i.wr |-> reg[x]]]
source(i) == reg[CHOOSE x \in i.rd : TRUE]
target(i) == i.to[CHOOSE x \in DOMAIN i.to : TRUE]

(* Fault: a copy between two names of one variable is taken for redundant. *)
redundantMovOpElim_Variables(bl) ==
    SelectSeq(bl, LAMBDA i : ~(i.mov /\ varsOf(i.rd) = varsOf(DOMAIN i.to)))

redundantMovOpElim(bl) ==
    SelectSeq(bl, LAMBDA i : ~(i.mov /\ source(i) = target(i)))

writersOf(bl, r) == {n \in DOMAIN bl : r \in Range(bl[n].to)}
readsOf(bl, r) == {<<n, x>> \in (DOMAIN bl) \X (DOMAIN reg) :
                      x \in bl[n].rd /\ reg[x] = r}

(* A copy whose source is read by nothing else in the block and is written *)
(* in it before the copy: the writer writes the target of the copy.        *)
isDeadMov(bl, n) ==
    /\ bl[n].mov
    /\ Cardinality(readsOf(bl, source(bl[n]))) = 1
    /\ \E w \in writersOf(bl, source(bl[n])) : w < n
deadMovOpElim(bl) ==
    LET dead == {n \in DOMAIN bl : isDeadMov(bl, n)}
        redirect(cur, n) ==
            LET r == source(bl[n])
                w == Min(writersOf(bl, r))
            IN  IF n \notin dead THEN cur
                ELSE [cur EXCEPT ![w].to = [x \in DOMAIN @ |->
                         IF @[x] = r THEN target(cur[n]) ELSE @[x]]]
        cur == fold(redirect, bl, Reverse(upTo(Len(bl))))
        kept == SelectSeq(upTo(Len(bl)), LAMBDA n : n \notin dead)
    IN  [n \in DOMAIN kept |-> cur[kept[n]]]

overwrittenMovOpElim(bl) ==
    LET lost(n) == /\ bl[n].mov
                   /\ \E m \in n + 1 .. Len(bl) :
                         bl[m].mov /\ target(bl[m]) = target(bl[n])
        kept == SelectSeq(upTo(Len(bl)), LAMBDA n : ~lost(n))
    IN  [n \in DOMAIN kept |-> bl[kept[n]]]

movOpElimination ==
    /\ pass = "movs"
    /\ LET written(b) == [n \in DOMAIN sched[b] |-> withRegs(sched[b][n])]
       IN  final' = [b \in Blocks |-> overwrittenMovOpElim(deadMovOpElim(
                                          redundantMovOpElim(written(b))))]
    /\ named' = [x \in DOMAIN reg |-> <<0, 0>>]
    /\ at' = 1
    /\ pass' = "done"
    /\ UNCHANGED <<inputs, sweeps, code, graph, domVars, kids, df, phi,
                   ssa, live, sched, reg, beat, orig, regs, misread,
                   misled>>

-----------------------------------------------------------------------------
(* The translated program runs beside the original one. *)

Unset == <<0, 0>>

(* Runs a list on a memory: from(x) is the place of an operand x that is   *)
(* read, to(i, x) of one that instruction i writes.                        *)
play(list, mem, from(_), to(_, _), W(_)) ==
    LET do(s, i) ==
            LET wrote(l) == \E x \in W(i) : to(i, x) = l
                value == IF i.mov THEN s.mem[from(CHOOSE x \in i.rd : TRUE)]
                         ELSE <<i.addr, beat>>
            IN  [mem |-> [l \in DOMAIN s.mem |-> IF wrote(l) THEN value
                                                 ELSE s.mem[l]],
                 seen |-> s.seen \cup {<<i.addr, x[1], s.mem[from(x)]>> :
                                          x \in i.rd}]
    IN  fold(do, [mem |-> mem, seen |-> {}], list)

(* What the original reads, where it has been written, and the other does  *)
(* not.                                                                    *)
wrong(o, t) == {e[1] : e \in {x \in o.seen \ t.seen : x[3] # Unset}}

runBlock ==
    /\ pass = "done" /\ at # 0
    /\ LET source0 == SelectSeq(code[at], LAMBDA i : ~i.mov)
           o == play(source0, orig, LAMBDA x : x[1], LAMBDA i, x : x[1],
                     LAMBDA i : i.wr)
           n == play(sched[at], named, LAMBDA x : x, LAMBDA i, x : x,
                     LAMBDA i : i.wr)
           r == play(final[at], regs, LAMBDA x : reg[x], LAMBDA i, x : i.to[x],
                     LAMBDA i : DOMAIN i.to)
       IN  /\ orig' = o.mem /\ named' = n.mem /\ regs' = r.mem
           /\ misread' = wrong(o, n) /\ misled' = wrong(o, r)
    /\ beat' = (beat + 1) % 4
    /\ at' \in IF desc[at] = << >> THEN {0} ELSE ToSet(desc[at])
    /\ UNCHANGED <<inputs, sweeps, pass, code, graph, domVars, kids, df,
                   phi, ssa, live, sched, reg, final>>

-----------------------------------------------------------------------------
Init ==
    /\ program \in Programs /\ regMode \in RegModes /\ schMode \in SchModes
    /\ pass = "blocks" /\ sweeps = 0
    /\ code = << >> /\ desc = << >> /\ anc = << >> /\ preDeps = {}
    /\ dom = << >> /\ allDom = {} /\ kids = << >> /\ df = << >> /\ phi = << >>
    /\ ssa = << >> /\ live = << >> /\ sched = << >> /\ reg = << >>
    /\ final = << >>
    /\ at = 0 /\ beat = 0
    /\ orig = [v \in Vars |-> Unset] /\ named = << >>
    /\ regs = [r \in LocalRegs \cup GlobalRegs |-> Unset]
    /\ misread = {} /\ misled = {}

Next ==
    \/ make_basicblock \/ build_dominators \/ build_dominance_frontier
    \/ phi_func_placement \/ ssa_renaming \/ eliminatePhiFuncs
    \/ livenessAnalysis \/ scheduleBlocks \/ allocate_register
    \/ movOpElimination \/ runBlock

Spec == Init /\ [][Next]_vars

-----------------------------------------------------------------------------
(* What can be reached from S, going on only from the blocks in thru. *)
reachThrough(S, thru) ==
    LET r[n \in 0 .. Len(code)] ==
            IF n = 0 THEN S
            ELSE r[n - 1] \cup UNION {ToSet(desc[b]) : b \in r[n - 1] \cap thru}
    IN  r[Len(code)]

Entries == {b \in Blocks : anc[b] = << >>}

(* The blocks that one more sweep would change.  build_dominators stops on *)
(* a sweep that changes no set, though a block may have dropped its flag   *)
(* on it: one whose ancestors have nothing in common, which keeps the set  *)
(* {itself}.  That takes two functions that jump into the same code.       *)
stale ==
    {b \in Blocks :
        LET s == sweepBlock([dom |-> dom, all |-> allDom, change |-> FALSE], b)
        IN  s.dom # dom \/ s.all # allDom}

(* build_dominators iterates from flags that stand for "all blocks" and    *)
(* skips ancestors that still have them.  When it stops, the set of a      *)
(* block that an entry reaches holds exactly the blocks that lie on every  *)
(* path to it, except at the blocks left stale by its stopping early and   *)
(* behind them.  Nothing is claimed of those: their sets are in fact often *)
(* wrong.                                                                  *)
DominatorsExact ==
    pass \notin {"blocks", "dominators"} =>
        \A b \in reachThrough(Entries, Blocks) \ reachThrough(stale, Blocks) :
            dom[b] = {x \in Blocks :
                         x = b \/ b \notin reachThrough(Entries, Blocks \ {x})}

noCopies == \A b \in Blocks : \A n \in DOMAIN code[b] : ~code[b][n].mov

(* A copy goes in front of the last branch of a block, too early when the  *)
(* branch writes what is copied (a TODO in insertMOVop).                   *)
copiesAtEnd ==
    \A b \in Blocks : Last(code[b]).type \in Enders => Last(code[b]).wr = {}

(* Phi placement, renaming and the copies that replace the phi-functions:  *)
(* on every path each instruction reads, under its SSA name, what the      *)
(* original program would have read.  Without the write-after-read         *)
(* dependences that dependencyTableCheck leaves out, list scheduling keeps *)
(* this only for code without copies.                                      *)
NamesMeetDefinitions ==
    noCopies \/ (schMode = "NO_LIST_SCH" /\ copiesAtEnd) => misread = {}

liveInto(x) ==
    LET writes(b) == \E n \in DOMAIN code[b] : x \in code[b][n].wr
        reads(b) == \E n \in DOMAIN code[b] :
                       /\ x \in code[b][n].rd
                       /\ \A m \in 1 .. n - 1 : x \notin code[b][m].wr
    IN  {b \in Blocks : \E u \in reachThrough({b}, {c \in Blocks : ~writes(c)}) :
                           reads(u)}
(* The names live behind the n-th instruction of a block: some path reads  *)
(* them before it writes them.                                             *)
liveBehind(into, b, n) ==
    {x \in DOMAIN reg :
        \/ \E m \in n + 1 .. Len(code[b]) :
              /\ x \in code[b][m].rd
              /\ \A k \in n + 1 .. m - 1 : x \notin code[b][k].wr
        \/ /\ \A k \in n + 1 .. Len(code[b]) : x \notin code[b][k].wr
           /\ ToSet(desc[b]) \cap into[x] # {}}

(* livenessAnalysis and the two interference networks: names that are live *)
(* at the same place never share a register, and what is live at the end   *)
(* of a block is in a global one (the window of a block loses its local    *)
(* registers with the block).                                              *)
LiveRegistersDistinct ==
    pass = "movs" =>
        LET into == [x \in DOMAIN reg |-> liveInto(x)]
        IN  \A b \in Blocks : \A n \in DOMAIN code[b] :
                LET L == liveBehind(into, b, n)
                IN  /\ \A x, y \in L : reg[x] = reg[y] => x = y
                    /\ n = Len(code[b]) => \A x \in L : reg[x] \in GlobalRegs

everyResultRead ==
    LET into == [x \in DOMAIN reg |-> liveInto(x)]
    IN  \A b \in Blocks : \A n \in DOMAIN code[b] :
            code[b][n].wr \subseteq liveBehind(into, b, n)
withoutRedundant(b) ==
    redundantMovOpElim([n \in DOMAIN sched[b] |-> withRegs(sched[b][n])])

(* The code that is written out, in the order it was analysed in: on every *)
(* path each instruction finds in its registers what the original program  *)
(* would have read.  A result that nothing reads may be put in a register  *)
(* that is live, and deadMovOpElim may take out a copy whose source is     *)
(* still needed; this is about the programs where neither happens.         *)
RegistersMeetDefinitions ==
    (/\ pass = "done" /\ schMode = "NO_LIST_SCH" /\ copiesAtEnd
     /\ everyResultRead /\ \A b \in Blocks : final[b] = withoutRedundant(b))
        => misled = {}

(* listSchedule: a block is written out whole, every reader behind the     *)
(* instruction whose result it reads, memory operations behind the stores  *)
(* before them, and a branch behind everything.                            *)
ScheduleKeepsDependences ==
    pass = "allocate" =>
        \A b \in Blocks :
            LET old == code[b]
                new == sched[b]
                place(n) == CHOOSE m \in DOMAIN new : new[m] = old[n]
                mustPrecede(m, n) ==
                    \/ \E x \in old[m].wr \cap old[n].rd :
                          \A k \in m + 1 .. n - 1 : x \notin old[k].wr
                    \/ old[m].type = "st" /\ IsMem(old[n])
                    \/ old[n].type \in Enders \ {"s"}
            IN  /\ Len(new) = Len(old) /\ ToSet(new) = ToSet(old)
                /\ \A n \in DOMAIN old : \A m \in 1 .. n - 1 :
                      mustPrecede(m, n) => place(m) < place(n)

(* The two passes that iterate until nothing changes settle: each sweeps   *)
(* the blocks at most once more than there are blocks.                     *)
SweepsSettle == code # << >> => sweeps <= Len(code) + 1

(* The comment at deadMovOpElim says "MOV OPS WITHOUT USERS": what it      *)
(* takes out, alone, makes no difference to a program.                     *)
DeadCopiesUnused ==
    (/\ pass = "done" /\ schMode = "NO_LIST_SCH" /\ copiesAtEnd
     /\ everyResultRead
     /\ \A b \in Blocks : final[b] = deadMovOpElim(withoutRedundant(b)))
        => misled = {}
=============================================================================
