------------------------------ MODULE FrontEnd ------------------------------
(***************************************************************************)
(* The front end of pars.cpp, uOpGen.cpp and memlog.cpp: two threads, the  *)
(* instrumented application and the back end, that take turns through two  *)
(* semaphores, and excursions down mispredicted paths that are undone.     *)
(*                                                                         *)
(* The application thread runs the routines pin__instruction inserts, in   *)
(* their order: before an instruction the memory log, the system call      *)
(* check, the trace of what is no branch and HandleInst, which may end an  *)
(* excursion; after a branch HandleBranch, the trace of the branch and     *)
(* HandleContext, which may start one.  The back end predicts the branch   *)
(* and, with enough blocks traced, runs the core.                          *)
(*                                                                         *)
(* It is the state inside a simulation window: instrumentation, wrong      *)
(* paths and the back end are enabled, the CG-OoO core is selected, and    *)
(* every executed instruction is known to the static code parser.          *)
(***************************************************************************)
EXTENDS Naturals, Sequences, FiniteSets, Functions

CONSTANTS
    Kind, Target, EA, MaxIns,   \* the application
    StaticBB,                   \* instructions of the static block at a head, scheduled
    BrMisspredDelay,            \* brMisspredDelay: the longest excursion
    BBWinSize,                  \* instructions after which an open block is broken off
    BBCnt,                      \* BB_CNT_THR: blocks that make the core run
    NearEmpty,                  \* BB_NEAR_EMPTY_SIZE: blocks the core leaves
    None                        \* no target, no open block

(* The code does not run off its end.  A branch has targets, none of them  *)
(* the next instruction, and one that always jumps has a target ahead; a   *)
(* store has a location.                                                   *)
ASSUME ApplicationAssumption ==
    /\ 1 \in DOMAIN Kind /\ DOMAIN Kind \subseteq Nat
    /\ \A a \in DOMAIN Kind :
      /\ Kind[a] # "exit" => a + 1 \in DOMAIN Kind
      /\ Kind[a] \in {"br", "jmp", "call"} =>
           /\ Target[a] \subseteq DOMAIN Kind
           /\ a + 1 \in DOMAIN Kind \ Target[a]
           /\ Kind[a] # "br" => \E t \in Target[a] : t > a
      /\ Kind[a] \in {"store", "xsave"} => a \in DOMAIN EA

ASSUME FrontEndAssumption ==
    /\ {BrMisspredDelay, BBWinSize, NearEmpty} \subseteq Nat \ {0}
    /\ {BBCnt, MaxIns} \subseteq Nat /\ BBCnt > NearEmpty

(* The static code parser knows every block a branch leads to, and lists   *)
(* of a block, once and in the order of its schedule, what there is up to  *)
(* the next block, perhaps more.                                           *)
ASSUME StaticBBAssumption ==
    /\ DOMAIN StaticBB \subseteq DOMAIN Kind
    /\ \A a \in DOMAIN Kind :
         Kind[a] \in {"br", "jmp", "call"} =>
           Target[a] \cup {a + 1} \subseteq DOMAIN StaticBB
    /\ \A h \in DOMAIN StaticBB :
         /\ StaticBB[h] \in Seq(Nat) /\ IsInjective(StaticBB[h])
         /\ \A a \in DOMAIN Kind :
              h <= a /\ (\A b \in h + 1 .. a : b \notin DOMAIN StaticBB)
                => a \in Range(StaticBB[h])

(* The entries of a block, see Entry, and a block that is being filled.    *)
Ops == [addr : Nat, wp : BOOLEAN, nth : Nat \cup {None}]
OpenBlocks == [head : DOMAIN Kind, ins : Seq(Ops)]

ASSUME NoneAssumption == None \notin Nat /\ None \notin OpenBlocks

VARIABLES
    pc, regs, mem, os,  \* the application as it runs, on either path
    app,                \* "run", "wait" (for semaphore1), "exit", "signal", "ended"
    be,                 \* backEnd: "loop", "wait" (for semaphore0), "turn", "ended"
    semaphore0, semaphore1, semaphoreFini, g_appEnd,
    branch,             \* g_pc, g_taken, g_tgt and g_fthru
    g_pred_eip,
    btb,                \* the target the BTB holds for a branch, or None
    g_wrong_path, g_was_wp, g_wrong_path_count,
    g_invalid_size, g_invalid_addr,
    g_context,          \* the registers saved at the start of an excursion
    m_buf,              \* g_log: original values of the locations overwritten
    bbCache,            \* g_bbCache without its last block: closed, scheduled
    openBB,             \* the last block of g_bbCache, still being filled
    g_br_detected, bbHeadSet,
    supplied            \* the blocks the core has taken

appVars    == <<pc, regs, mem, os>>
semVars    == <<semaphore0, semaphore1, semaphoreFini, g_appEnd>>
excursion  == <<g_wrong_path, g_was_wp, g_wrong_path_count, g_context, m_buf>>
invalid    == <<g_invalid_size, g_invalid_addr>>
prediction == <<branch, g_pred_eip, btb>>
trace      == <<bbCache, openBB, g_br_detected, bbHeadSet>>
vars == <<appVars, app, be, semVars, excursion, invalid, prediction, trace, supplied>>

(* The application by itself, as the front end must let it be. *)
Eip == IF branch.taken THEN branch.tgt ELSE branch.fthru
Original(x) == IF x \in DOMAIN m_buf THEN m_buf[x] ELSE mem[x]
App == INSTANCE Application WITH
           pc   <- IF app = "wait" THEN Eip ELSE IF g_was_wp THEN g_context.pc ELSE pc,
           regs <- IF g_was_wp THEN g_context.regs ELSE regs,
           mem  <- [x \in DOMAIN mem |-> Original(x)]

Addr == DOMAIN Kind
IsBranch(a) == Kind[a] \in App!Branches
IsStore(a) == Kind[a] \in App!Stores

Init ==
    /\ pc = 1 /\ regs = 0 /\ mem = [x \in App!Loc |-> 0] /\ os = 0
    /\ app = "run" /\ be = "loop"
    /\ semaphore0 = FALSE /\ semaphore1 = FALSE
    /\ semaphoreFini = FALSE /\ g_appEnd = FALSE
    /\ branch = [pc |-> 1, taken |-> FALSE, tgt |-> 1, fthru |-> 1]
    /\ g_pred_eip = 1
    /\ btb = [a \in {a \in Addr : IsBranch(a)} |-> None]
    /\ g_wrong_path = FALSE /\ g_was_wp = FALSE /\ g_wrong_path_count = 0
    /\ g_invalid_size = FALSE /\ g_invalid_addr = FALSE
    /\ g_context = [pc |-> 1, regs |-> 0]
    /\ m_buf = << >>
    /\ bbCache = << >> /\ openBB = None
    /\ g_br_detected = FALSE /\ bbHeadSet = {}
    /\ supplied = << >>

----------------------------------------------------------------------------
(* Tracing: uOpGen.cpp *)

(* An entry of a block: the address, the WrongPath flag, and which          *)
(* instruction of the right path it is: 0 on an excursion, None for one     *)
(* that was never executed.                                                 *)
Entry(a, wp, nth) == [addr |-> a, wp |-> wp, nth |-> nth]

Has(b, a) == \E i \in DOMAIN b.ins : b.ins[i].addr = a

(* pin__getBBhead closes a block: the executed instructions of its static   *)
(* block in the order of the static schedule, with an operation made up for *)
(* every one that was not executed, flagged as the front end stands now.    *)
rescheduleInsList(b) ==
    LET order == StaticBB[b.head]
        Made(a) == IF Has(b, a)
                   THEN b.ins[CHOOSE i \in DOMAIN b.ins : b.ins[i].addr = a]
                   ELSE Entry(a, g_wrong_path, None)
    IN IF b.head \in DOMAIN StaticBB
       THEN [i \in DOMAIN order |-> Made(order[i])]
       ELSE b.ins

(* Fault: only a branch ends a block. *)
startsBlock_AfterBranch(a) ==
    \/ g_br_detected \/ a \in bbHeadSet
    \/ openBB = None
    \/ Len(openBB.ins) > BBWinSize

startsBlock(a) ==
    \/ a \in DOMAIN StaticBB
    \/ g_br_detected \/ a \in bbHeadSet
    \/ openBB = None
    \/ Len(openBB.ins) > BBWinSize

(* pin__detectBB and pin__makeNewBBIns: in a block with a static schedule   *)
(* an address is entered once.  pin__getBrIns is for branches, calls and    *)
(* system calls; of these only a jump of type JMP ends no block.            *)
getOp(a, nth) ==
    LET e == Entry(a, g_wrong_path, nth)
    IN /\ IF startsBlock(a)
          THEN /\ openBB' = [head |-> a, ins |-> << e >>]
               /\ bbCache' = IF openBB = None THEN bbCache
                             ELSE Append(bbCache, rescheduleInsList(openBB))
          ELSE /\ openBB' = IF openBB.head \in DOMAIN StaticBB /\ Has(openBB, a)
                            THEN openBB ELSE [openBB EXCEPT !.ins = Append(@, e)]
               /\ UNCHANGED bbCache
       /\ bbHeadSet' = IF a \notin DOMAIN StaticBB /\ g_br_detected
                       THEN bbHeadSet \cup {a} ELSE bbHeadSet
       /\ g_br_detected' = (Kind[a] \in {"br", "call", "sys"})

----------------------------------------------------------------------------
(* Excursions: pars.cpp and memlog.cpp *)

(* Fault: the log keeps the last value a location had, not the first. *)
save_Last(x) == [y \in DOMAIN m_buf \cup {x} |-> IF y = x THEN mem[x] ELSE m_buf[y]]

(* memory_buffer::save keeps the first value. *)
save(x) == IF x \in DOMAIN m_buf THEN m_buf
           ELSE [y \in DOMAIN m_buf \cup {x} |-> IF y = x THEN mem[x] ELSE m_buf[y]]

(* read_mem_orig, for a store to location x or, x = None, to no location:   *)
(* what cannot be saved leaves a flag for HandleInst.  The flags are set    *)
(* here and nowhere reset but here.                                         *)
read_mem_orig(x) ==
    /\ g_invalid_size' = (Kind[pc] = "xsave")
    /\ g_invalid_addr' = IF Kind[pc] = "xsave" THEN g_invalid_addr ELSE x = None

saved(x) == IF IsStore(pc) /\ Kind[pc] # "xsave" /\ x # None THEN save(x) ELSE m_buf

(* recover, followed by PIN_ExecuteAt or a return to the saved context;     *)
(* log is g_log with what the current instruction has saved.                *)
recover(log) ==
    /\ g_wrong_path' = FALSE
    /\ g_was_wp' = FALSE
    /\ g_wrong_path_count' = 0
    /\ mem' = [x \in DOMAIN mem |-> IF x \in DOMAIN log THEN log[x] ELSE mem[x]]
    /\ m_buf' = << >>
    /\ pc' = g_context.pc
    /\ regs' = g_context.regs
    /\ UNCHANGED <<os, g_context>>

(* HandleInst, before the instruction executes.  Every return and call ends *)
(* an excursion, so the call depth it keeps decides nothing.                *)
endsExcursion ==
    \/ g_wrong_path_count + 1 >= BrMisspredDelay
    \/ g_invalid_size' \/ g_invalid_addr'
    \/ Kind[pc] \in {"sys", "exit", "call"}

(* An instruction of an excursion that is no branch.  Its registers may     *)
(* hold anything, so it stores anywhere; it may fault, and a signal handler *)
(* then recovers.                                                           *)
wrongPathIns ==
    /\ app = "run" /\ g_wrong_path
    /\ ~ IsBranch(pc)
    /\ \E x \in IF IsStore(pc) THEN App!Loc \cup {None} ELSE {None} :
         /\ IF IsStore(pc) THEN read_mem_orig(x) ELSE UNCHANGED invalid
         /\ getOp(pc, 0)
         /\ \/ recover(saved(x))        \* HandleInst ends it, or it faults
            \/ /\ ~ endsExcursion
               /\ g_wrong_path_count' = g_wrong_path_count + 1
               /\ m_buf' = saved(x)
               /\ mem' = App!Stored(mem, pc, x, regs + 1)
               /\ os' = App!Called(os, pc)
               /\ regs' = regs + 1
               /\ pc' = pc + 1
               /\ UNCHANGED <<g_wrong_path, g_was_wp, g_context>>
    /\ UNCHANGED <<app, be, semVars, prediction, supplied>>

(* A branch of an excursion is not predicted: HandleBranch and              *)
(* HandleContext return at once.  It is traced after it executed; where it  *)
(* leads there may be nothing, which faults.                                *)
wrongPathBranch ==
    /\ app = "run" /\ g_wrong_path
    /\ IsBranch(pc)
    /\ UNCHANGED invalid
    /\ \/ /\ endsExcursion
          /\ recover(m_buf)
          /\ UNCHANGED trace
       \/ /\ ~ endsExcursion
          /\ getOp(pc, 0)
          /\ recover(m_buf)
       \/ /\ ~ endsExcursion
          /\ getOp(pc, 0)
          /\ g_wrong_path_count' = g_wrong_path_count + 1
          /\ regs' = regs + 1
          /\ \E o \in App!Outcomes(pc) : pc' = App!Successor(pc, o)
          /\ UNCHANGED <<mem, os, m_buf, g_wrong_path, g_was_wp, g_context>>
    /\ UNCHANGED <<app, be, semVars, prediction, supplied>>

(* An instruction of the right path that is no branch. *)
rightPathIns ==
    /\ app = "run" /\ ~ g_wrong_path
    /\ ~ IsBranch(pc) /\ Kind[pc] # "exit"
    /\ getOp(pc, regs + 1)
    /\ mem' = IF IsStore(pc) THEN App!Stored(mem, pc, EA[pc], regs + 1) ELSE mem
    /\ os' = App!Called(os, pc)
    /\ regs' = regs + 1
    /\ pc' = pc + 1
    /\ UNCHANGED <<app, be, semVars, excursion, invalid, prediction, supplied>>

(* A branch of the right path executes; HandleBranch hands it to the back   *)
(* end and waits.                                                           *)
HandleBranch ==
    /\ app = "run" /\ ~ g_wrong_path
    /\ IsBranch(pc)
    /\ \E o \in App!Allowed(pc, regs) :
         branch' = [pc |-> pc, taken |-> o.taken, tgt |-> o.tgt, fthru |-> pc + 1]
    /\ regs' = regs + 1
    /\ g_was_wp' = FALSE
    /\ semaphore0' = TRUE
    /\ app' = "wait"
    /\ UNCHANGED <<pc, mem, os, be, semaphore1, semaphoreFini, g_appEnd,
                   g_wrong_path, g_wrong_path_count, g_context, m_buf,
                   invalid, g_pred_eip, btb, trace, supplied>>

(* The back end is done: the branch is traced, and if it was mispredicted   *)
(* HandleContext saves the registers and jumps to the predicted path.       *)
HandleContext ==
    /\ app = "wait" /\ semaphore1
    /\ semaphore1' = FALSE
    /\ app' = "run"
    /\ getOp(pc, regs)
    /\ IF g_wrong_path
       THEN /\ g_was_wp' = TRUE
            /\ g_context' = [pc |-> Eip, regs |-> regs]
            /\ pc' = g_pred_eip
       ELSE /\ pc' = Eip
            /\ UNCHANGED <<g_was_wp, g_context>>
    /\ UNCHANGED <<regs, mem, os, be, semaphore0, semaphoreFini, g_appEnd,
                   g_wrong_path, g_wrong_path_count, m_buf, invalid, prediction,
                   supplied>>

----------------------------------------------------------------------------
(* The back end thread, and the end of the run *)

(* The loop condition of backEnd is read outside the semaphores. *)
backEndLoop ==
    /\ be = "loop"
    /\ be' = IF g_appEnd THEN "ended" ELSE "wait"
    /\ UNCHANGED <<appVars, app, semVars, excursion, invalid, prediction, trace, supplied>>

(* Fault: woken at the end of the run, the back end takes a turn. *)
woken_NoEndCheck == "turn"

woken == IF g_appEnd THEN "ended" ELSE "turn"

(* Waiting for a semaphore that is finished is undefined: the wait may      *)
(* return, or never do.                                                     *)
backEndWait ==
    /\ be = "wait"
    /\ semaphore0 \/ semaphoreFini
    /\ semaphore0' = FALSE
    /\ be' = woken
    /\ UNCHANGED <<appVars, app, semaphore1, semaphoreFini, g_appEnd, excursion,
                   invalid, prediction, trace, supplied>>

(* PredictAndUpdate, the direction left open: a branch the BTB does not     *)
(* hold is predicted not taken.  When only the target was wrong the BTB is  *)
(* updated with the target it already had.                                  *)
PredictAndUpdate ==
    \E pred \in IF btb[branch.pc] = None THEN {FALSE} ELSE BOOLEAN :
      LET pred_tgt == btb[branch.pc]
          mispred == pred # branch.taken
          wrongTarget == branch.taken /\ branch.tgt # pred_tgt
          tgt == IF ~ mispred /\ wrongTarget THEN pred_tgt ELSE branch.tgt
      IN /\ g_wrong_path' = (mispred \/ wrongTarget)
         /\ btb' = IF wrongTarget THEN [btb EXCEPT ![branch.pc] = tgt] ELSE btb
         /\ g_pred_eip' = IF pred THEN tgt ELSE branch.fthru

runsCore == openBB # None /\ Len(bbCache) + 1 >= BBCnt /\ ~ g_wrong_path'

(* The core takes blocks until the cache is nearly empty. *)
bbBkEndRun ==
    LET left == NearEmpty - 1
        taken == Len(bbCache) - left
    IN IF runsCore
       THEN /\ supplied' = supplied \o SubSeq(bbCache, 1, taken)
            /\ bbCache' = SubSeq(bbCache, taken + 1, Len(bbCache))
       ELSE UNCHANGED <<supplied, bbCache>>

backEndTurn ==
    /\ be = "turn"
    /\ PredictAndUpdate
    /\ bbBkEndRun
    /\ semaphore1' = TRUE
    /\ be' = "loop"
    /\ UNCHANGED <<appVars, app, semaphore0, semaphoreFini, g_appEnd, g_was_wp,
                   g_wrong_path_count, g_context, m_buf, invalid, branch,
                   openBB, g_br_detected, bbHeadSet>>

(* pin__doFinish, when the application exits: it announces the end, wakes   *)
(* whoever waits, finishes the semaphores and deletes what the back end     *)
(* uses, without waiting for its thread.                                    *)
announceEnd ==
    /\ app = "run" /\ ~ g_wrong_path
    /\ Kind[pc] = "exit"
    /\ g_appEnd' = TRUE
    /\ app' = "exit"
    /\ UNCHANGED <<appVars, be, semaphore0, semaphore1, semaphoreFini, excursion,
                   invalid, prediction, trace, supplied>>

wakeAll ==
    /\ app = "exit"
    /\ semaphore0' = TRUE
    /\ semaphore1' = TRUE
    /\ app' = "signal"
    /\ UNCHANGED <<appVars, be, semaphoreFini, g_appEnd, excursion, invalid,
                   prediction, trace, supplied>>

finish ==
    /\ app = "signal"
    /\ semaphoreFini' = TRUE
    /\ app' = "ended"
    /\ UNCHANGED <<appVars, be, semaphore0, semaphore1, g_appEnd, excursion, invalid,
                   prediction, trace, supplied>>

application ==
    \/ rightPathIns \/ wrongPathIns \/ wrongPathBranch
    \/ HandleBranch \/ HandleContext
    \/ announceEnd \/ wakeAll \/ finish

backEnd == backEndLoop \/ backEndWait \/ backEndTurn

Next == application \/ backEnd

Spec == Init /\ [][Next]_vars

(* Both threads are scheduled. *)
FairSpec == Spec /\ WF_vars(application) /\ WF_vars(backEnd)

----------------------------------------------------------------------------
(* Properties *)

(* Excursions leave no mark: with every excursion taken back, as recover    *)
(* would do it at that moment, what runs is the application by itself, its  *)
(* memory, registers and system calls included, and it runs to its end.     *)
ImplementsApplication == App!Spec

(* The two threads take turns: the back end predicts and runs the core only *)
(* while the application waits in HandleBranch, so never during pin__doFinish *)
(* or after it, and only between excursions, with nothing in the log.       *)
TurnsAlternate ==
    be = "turn" => /\ app = "wait"
                   /\ ~ g_wrong_path /\ ~ g_was_wp
                   /\ DOMAIN m_buf = {}

(* The blocks as the core has them and will get them. *)
blocks == supplied \o bbCache \o (IF openBB = None THEN << >> ELSE << openBB.ins >>)

Positions == UNION {{<<b, i>> : i \in DOMAIN blocks[b]} : b \in DOMAIN blocks}
At(p) == blocks[p[1]][p[2]]

(* The instructions of the right path traced by now: a branch is traced     *)
(* after the back end has seen it.                                          *)
tracedIns == IF app = "wait" THEN regs - 1 ELSE IF g_was_wp THEN g_context.regs ELSE regs

(* The core is given every instruction of the right path once, in blocks    *)
(* that follow each other in program order, and flagged wrong path only if  *)
(* it is a branch (the one that was mispredicted); what an excursion traced *)
(* is flagged without exception, however the excursion ended.               *)
RightPathTraced ==
    /\ \A n \in 1 .. tracedIns : Cardinality({p \in Positions : At(p).nth = n}) = 1
    /\ \A p \in Positions :
         /\ At(p).nth = 0 => At(p).wp
         /\ At(p).nth \notin {0, None} /\ At(p).wp => IsBranch(At(p).addr)
    /\ \A p, q \in Positions :
         p[1] < q[1] /\ At(p).nth \notin {0, None} /\ At(q).nth \notin {0, None}
            => At(p).nth < At(q).nth
=============================================================================
