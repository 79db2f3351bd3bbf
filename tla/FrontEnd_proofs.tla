--------------------------- MODULE FrontEnd_proofs ---------------------------
(***************************************************************************)
(* What the front end keeps, proved for every application, every static    *)
(* block list and every length of an excursion: the two threads take turns,*)
(* and with its excursions taken back the front end runs the application   *)
(* by itself, step by step.  What it traces is the right path, each        *)
(* instruction once and in order, and excursions, flagged.                 *)
(***************************************************************************)
EXTENDS FrontEnd, FiniteSetTheorems, SequenceTheorems, TLAPS

(* The semaphores: one token goes round between the threads while the      *)
(* application runs; at its end both are raised, and nobody takes a turn.  *)
OneToken ==
    /\ g_appEnd <=> app \in {"exit", "signal", "ended"}
    /\ semaphoreFini => app = "ended"
    /\ app = "run" => ~ semaphore0 /\ ~ semaphore1 /\ be # "turn"
    /\ app = "wait" => /\ semaphore0 => ~ semaphore1 /\ be # "turn"
                       /\ semaphore1 => be # "turn"
    /\ g_appEnd => be # "turn"

(* An excursion: the flag of the back end is seen by the application when  *)
(* it wakes; the saved context and the log belong to an excursion only.    *)
ExcursionKnown ==
    /\ app \in {"run", "wait", "exit", "signal", "ended"}
    /\ g_wrong_path \in BOOLEAN /\ g_was_wp \in BOOLEAN
    /\ app = "run" => (g_was_wp <=> g_wrong_path)
    /\ app = "wait" => ~ g_was_wp /\ (g_wrong_path => semaphore1)
    /\ app \in {"exit", "signal", "ended"} => ~ g_wrong_path /\ ~ g_was_wp
    /\ ~ g_was_wp => DOMAIN m_buf = {}

(* Memory is a function. *)
MemoryIsFunction == mem = [x \in DOMAIN mem |-> mem[x]]

IInv == OneToken /\ ExcursionKnown /\ MemoryIsFunction

(* The application as it stands with the excursion taken back. *)
AppPc == IF app = "wait" THEN Eip ELSE IF g_was_wp THEN g_context.pc ELSE pc
AppRegs == IF g_was_wp THEN g_context.regs ELSE regs
AppMem == [x \in DOMAIN mem |-> Original(x)]

-----------------------------------------------------------------------------
LEMMA EmptyLog == DOMAIN << >> = {}
  BY SMT

LEMMA InitHolds ==
    ASSUME Init
    PROVE  IInv
<1>1. OneToken
  BY DEF Init, OneToken
<1>2. ExcursionKnown
  BY EmptyLog DEF Init, ExcursionKnown
<1>3. MemoryIsFunction
  BY DEF Init, MemoryIsFunction
<1> QED
  BY <1>1, <1>2, <1>3 DEF IInv

(* The end of an excursion, with a log that extends the one kept: the      *)
(* application is where it was when the excursion began.                   *)
LEMMA RecoverUndoes ==
    ASSUME IInv, app = "run", app' = app, g_wrong_path,
           NEW log, recover(log),
           DOMAIN m_buf \subseteq DOMAIN log,
           \A x \in DOMAIN log :
             log[x] = IF x \in DOMAIN m_buf THEN m_buf[x] ELSE mem[x]
    PROVE  /\ UNCHANGED <<AppPc, AppRegs, AppMem, os>>
           /\ g_wrong_path' = FALSE /\ g_was_wp' = FALSE /\ DOMAIN m_buf' = {}
           /\ MemoryIsFunction'
<1>1. /\ g_wrong_path' = FALSE /\ g_was_wp' = FALSE /\ m_buf' = << >> /\ os' = os
      /\ mem' = [x \in DOMAIN mem |-> IF x \in DOMAIN log THEN log[x] ELSE mem[x]]
      /\ pc' = g_context.pc /\ regs' = g_context.regs
  BY DEF recover
<1>2. DOMAIN m_buf' = {}
  BY <1>1, EmptyLog
<1>3. g_was_wp
  BY DEF IInv, ExcursionKnown
<1>4. AppPc' = AppPc /\ AppRegs' = AppRegs
  BY <1>1, <1>3 DEF AppPc, AppRegs
<1>5. DOMAIN mem' = DOMAIN mem
  BY <1>1
<1>6. \A x \in DOMAIN mem : Original(x)' = Original(x)
  BY <1>1, <1>2 DEF Original
<1>7. AppMem' = AppMem
  BY <1>5, <1>6 DEF AppMem
<1>8. MemoryIsFunction'
  BY <1>1 DEF MemoryIsFunction
<1> QED
  BY <1>1, <1>2, <1>4, <1>7, <1>8

(* What an instruction of an excursion saves before it executes. *)
LEMMA SavedExtends ==
    ASSUME NEW x
    PROVE  /\ DOMAIN m_buf \subseteq DOMAIN saved(x)
           /\ \A y \in DOMAIN saved(x) :
                saved(x)[y] = IF y \in DOMAIN m_buf THEN m_buf[y] ELSE mem[y]
<1>1. CASE saved(x) = m_buf
  BY <1>1
<1>2. CASE saved(x) = save(x)
  <2>1. CASE x \in DOMAIN m_buf
    BY <1>2, <2>1 DEF save
  <2>2. CASE x \notin DOMAIN m_buf
    BY <1>2, <2>2 DEF save
  <2> QED
    BY <2>1, <2>2
<1> QED
  BY <1>1, <1>2 DEF saved

(* An instruction of an excursion that is no branch leaves the application *)
(* alone, whether it ends the excursion or goes on with it.                *)
LEMMA WrongPathInsUndone ==
    ASSUME IInv, wrongPathIns
    PROVE  UNCHANGED <<AppPc, AppRegs, AppMem, os>> /\ IInv'
<1>i. OneToken /\ ExcursionKnown /\ MemoryIsFunction /\ g_was_wp
  BY DEF IInv, ExcursionKnown, wrongPathIns
<1>u. /\ app = "run" /\ g_wrong_path
      /\ UNCHANGED <<app, be, semaphore0, semaphore1, semaphoreFini, g_appEnd, branch>>
  BY DEF wrongPathIns, semVars, prediction
<1>1. PICK x \in IF IsStore(pc) THEN App!Loc \cup {None} ELSE {None} :
         /\ IF IsStore(pc) THEN read_mem_orig(x) ELSE UNCHANGED invalid
         /\ \/ recover(saved(x))
            \/ /\ ~ endsExcursion
               /\ m_buf' = saved(x)
               /\ mem' = App!Stored(mem, pc, x, regs + 1)
               /\ os' = App!Called(os, pc)
               /\ UNCHANGED <<g_wrong_path, g_was_wp, g_context>>
  BY DEF wrongPathIns
<1>2. OneToken'
  BY <1>i, <1>u DEF OneToken
<1>3. CASE recover(saved(x))
  <2>1. /\ UNCHANGED <<AppPc, AppRegs, AppMem, os>>
        /\ g_wrong_path' = FALSE /\ g_was_wp' = FALSE /\ DOMAIN m_buf' = {}
        /\ MemoryIsFunction'
    BY <1>u, <1>3, SavedExtends, RecoverUndoes
  <2>2. ExcursionKnown'
    BY <1>u, <2>1 DEF ExcursionKnown
  <2> QED
    BY <1>2, <2>1, <2>2 DEF IInv
<1>4. CASE /\ ~ endsExcursion
           /\ m_buf' = saved(x)
           /\ mem' = App!Stored(mem, pc, x, regs + 1)
           /\ os' = App!Called(os, pc)
           /\ UNCHANGED <<g_wrong_path, g_was_wp, g_context>>
  <2>1. os' = os
    BY <1>4 DEF endsExcursion, App!Called
  <2>2. IsStore(pc) => Kind[pc] # "xsave" /\ x # None
    BY <1>1, <1>4 DEF read_mem_orig, endsExcursion
  <2>3. IsStore(pc) => m_buf' = save(x)
    BY <1>4, <2>2 DEF saved
  <2>4. ~ IsStore(pc) => m_buf' = m_buf /\ mem' = mem
    BY <1>4 DEF saved, App!Stored, IsStore
  <2>5. IsStore(pc) => mem' = [mem EXCEPT ![x] = regs + 1]
    BY <1>4 DEF App!Stored, IsStore
  <2>6. DOMAIN mem' = DOMAIN mem /\ MemoryIsFunction'
    BY <1>i, <2>4, <2>5 DEF MemoryIsFunction
  <2>7. ASSUME NEW y \in DOMAIN mem PROVE Original(y)' = Original(y)
    <3>1. CASE ~ IsStore(pc)
      BY <2>4, <3>1 DEF Original
    <3>2. CASE IsStore(pc) /\ y # x
      <4>1. mem'[y] = mem[y]
        BY <2>5, <3>2
      <4>2. y \in DOMAIN m_buf' <=> y \in DOMAIN m_buf
        BY <2>3, <3>2 DEF save
      <4>3. y \in DOMAIN m_buf => m_buf'[y] = m_buf[y]
        BY <2>3, <3>2 DEF save
      <4> QED
        BY <4>1, <4>2, <4>3 DEF Original
    <3>3. CASE IsStore(pc) /\ y = x
      <4>1. y \in DOMAIN m_buf' /\ m_buf'[y] = IF y \in DOMAIN m_buf THEN m_buf[y] ELSE mem[y]
        BY <2>3, <3>3 DEF save
      <4> QED
        BY <4>1 DEF Original
    <3> QED
      BY <3>1, <3>2, <3>3
  <2>8. AppMem' = AppMem
    BY <2>6, <2>7 DEF AppMem
  <2>9. AppPc' = AppPc /\ AppRegs' = AppRegs
    BY <1>i, <1>u, <1>4 DEF AppPc, AppRegs
  <2>10. ExcursionKnown'
    BY <1>i, <1>u, <1>4 DEF ExcursionKnown
  <2> QED
    BY <1>2, <2>1, <2>6, <2>8, <2>9, <2>10 DEF IInv
<1> QED
  BY <1>1, <1>3, <1>4

(* Nor does a branch of an excursion, which is neither predicted nor       *)
(* handed to the back end.                                                 *)
LEMMA WrongPathBranchUndone ==
    ASSUME IInv, wrongPathBranch
    PROVE  UNCHANGED <<AppPc, AppRegs, AppMem, os>> /\ IInv'
<1>i. OneToken /\ ExcursionKnown /\ MemoryIsFunction /\ g_was_wp
  BY DEF IInv, ExcursionKnown, wrongPathBranch
<1>u. /\ app = "run" /\ g_wrong_path
      /\ UNCHANGED <<app, be, semaphore0, semaphore1, semaphoreFini, g_appEnd, branch>>
  BY DEF wrongPathBranch, semVars, prediction
<1>1. OneToken'
  BY <1>i, <1>u DEF OneToken
<1>2. CASE recover(m_buf)
  <2>1. /\ UNCHANGED <<AppPc, AppRegs, AppMem, os>>
        /\ g_wrong_path' = FALSE /\ g_was_wp' = FALSE /\ DOMAIN m_buf' = {}
        /\ MemoryIsFunction'
    BY <1>u, <1>2, RecoverUndoes
  <2>2. ExcursionKnown'
    BY <1>u, <2>1 DEF ExcursionKnown
  <2> QED
    BY <1>1, <2>1, <2>2 DEF IInv
<1>3. CASE UNCHANGED <<mem, os, m_buf, g_wrong_path, g_was_wp, g_context>>
  <2>1. UNCHANGED <<AppPc, AppRegs>>
    BY <1>i, <1>u, <1>3 DEF AppPc, AppRegs
  <2>2. AppMem' = AppMem
    BY <1>3 DEF AppMem, Original
  <2>3. ExcursionKnown' /\ MemoryIsFunction'
    BY <1>i, <1>u, <1>3 DEF ExcursionKnown, MemoryIsFunction
  <2> QED
    BY <1>1, <1>3, <2>1, <2>2, <2>3 DEF IInv
<1> QED
  BY <1>2, <1>3 DEF wrongPathBranch

-----------------------------------------------------------------------------
(* On the right path the log is empty, so memory is the application's.     *)
LEMMA NothingSaved ==
    ASSUME IInv, ~ g_was_wp
    PROVE  AppMem = mem /\ AppRegs = regs
<1>1. DOMAIN m_buf = {} /\ MemoryIsFunction
  BY DEF IInv, ExcursionKnown
<1>2. \A x \in DOMAIN mem : Original(x) = mem[x]
  BY <1>1 DEF Original
<1> QED
  BY <1>1, <1>2 DEF AppMem, AppRegs, MemoryIsFunction

(* An instruction of the right path is a step of the application. *)
LEMMA RightPathInsExecutes ==
    ASSUME IInv, rightPathIns
    PROVE  App!Execute /\ IInv'
<1>i. OneToken /\ ExcursionKnown /\ MemoryIsFunction /\ ~ g_was_wp /\ app = "run"
  BY DEF IInv, ExcursionKnown, rightPathIns
<1>u. /\ UNCHANGED <<app, be, semaphore0, semaphore1, semaphoreFini, g_appEnd,
                     g_wrong_path, g_was_wp, g_context, m_buf>>
      /\ ~ IsBranch(pc) /\ Kind[pc] # "exit"
      /\ mem' = IF IsStore(pc) THEN App!Stored(mem, pc, EA[pc], regs + 1) ELSE mem
      /\ os' = App!Called(os, pc) /\ regs' = regs + 1 /\ pc' = pc + 1
  BY DEF rightPathIns, semVars, excursion
<1>1. OneToken' /\ ExcursionKnown'
  BY <1>i, <1>u DEF OneToken, ExcursionKnown
<1>2. MemoryIsFunction'
  <2>1. CASE IsStore(pc)
    BY <1>u, <2>1 DEF IsStore, App!Stored, MemoryIsFunction
  <2>2. CASE ~ IsStore(pc)
    BY <1>i, <1>u, <2>2 DEF MemoryIsFunction
  <2> QED
    BY <2>1, <2>2
<1>3. IInv'
  BY <1>1, <1>2 DEF IInv
<1>4. AppMem = mem /\ AppRegs = regs /\ AppPc = pc
  BY <1>i, NothingSaved DEF AppPc
<1>5. AppMem' = mem' /\ AppRegs' = regs' /\ AppPc' = pc'
  <2>1. AppRegs' = regs' /\ AppPc' = pc'
    BY <1>i, <1>u DEF AppRegs, AppPc
  <2>2. DOMAIN m_buf' = {}
    BY <1>i, <1>u DEF ExcursionKnown
  <2>3. \A x \in DOMAIN mem' : Original(x)' = mem'[x]
    BY <2>2 DEF Original
  <2>4. AppMem' = mem'
    BY <1>2, <2>3 DEF AppMem, MemoryIsFunction
  <2> QED
    BY <2>1, <2>4
<1>6. App!Execute <=>
        /\ Kind[AppPc] # "exit"
        /\ AppRegs' = AppRegs + 1
        /\ AppMem' = IF Kind[AppPc] \in App!Stores
                     THEN App!Stored(AppMem, AppPc, EA[AppPc], AppRegs + 1) ELSE AppMem
        /\ os' = App!Called(os, AppPc)
        /\ IF Kind[AppPc] \in App!Branches
           THEN \E o \in App!Allowed(AppPc, AppRegs) : AppPc' = App!Successor(AppPc, o)
           ELSE AppPc' = AppPc + 1
  BY DEF App!Execute, AppPc, AppRegs, AppMem
<1> QED
  BY <1>3, <1>4, <1>5, <1>6, <1>u DEF IsStore, IsBranch

(* A branch of the right path is one too: where it leads is decided when   *)
(* it executes, and kept for the back end and the way back.                *)
LEMMA HandleBranchExecutes ==
    ASSUME IInv, HandleBranch
    PROVE  App!Execute /\ IInv'
<1>i. OneToken /\ ExcursionKnown /\ MemoryIsFunction /\ ~ g_was_wp /\ app = "run"
      /\ ~ g_wrong_path
  BY DEF IInv, ExcursionKnown, HandleBranch
<1>u. /\ UNCHANGED <<pc, mem, os, be, semaphore1, semaphoreFini, g_appEnd,
                     g_wrong_path, m_buf>>
      /\ IsBranch(pc) /\ app' = "wait" /\ regs' = regs + 1
      /\ semaphore0' = TRUE /\ g_was_wp' = FALSE
  BY DEF HandleBranch
<1>1. PICK o \in App!Allowed(pc, regs) :
         branch' = [pc |-> pc, taken |-> o.taken, tgt |-> o.tgt, fthru |-> pc + 1]
  BY DEF HandleBranch
<1>2. OneToken' /\ ExcursionKnown' /\ MemoryIsFunction'
  BY <1>i, <1>u DEF OneToken, ExcursionKnown, MemoryIsFunction
<1>3. IInv'
  BY <1>2 DEF IInv
<1>4. AppMem = mem /\ AppRegs = regs /\ AppPc = pc
  BY <1>i, NothingSaved DEF AppPc
<1>5. AppPc' = App!Successor(pc, o)
  BY <1>u, <1>1 DEF AppPc, Eip, App!Successor
<1>6. AppRegs' = AppRegs + 1 /\ AppMem' = AppMem
  BY <1>u, <1>4 DEF AppRegs, AppMem, Original
<1>7. App!Execute <=>
        /\ Kind[AppPc] # "exit"
        /\ AppRegs' = AppRegs + 1
        /\ AppMem' = IF Kind[AppPc] \in App!Stores
                     THEN App!Stored(AppMem, AppPc, EA[AppPc], AppRegs + 1) ELSE AppMem
        /\ os' = App!Called(os, AppPc)
        /\ IF Kind[AppPc] \in App!Branches
           THEN \E n \in App!Allowed(AppPc, AppRegs) : AppPc' = App!Successor(AppPc, n)
           ELSE AppPc' = AppPc + 1
  BY DEF App!Execute, AppPc, AppRegs, AppMem
<1>8. Kind[pc] \in {"br", "jmp", "call"}
  BY <1>u DEF IsBranch, App!Branches
<1>9. Kind[pc] # "exit" /\ Kind[pc] \notin App!Stores /\ os' = App!Called(os, pc)
      /\ Kind[pc] \in App!Branches
  BY <1>u, <1>8 DEF App!Stores, App!Called, App!Branches
<1> QED
  BY <1>3, <1>4, <1>5, <1>6, <1>7, <1>9

(* The way back of a branch: what was to be the next instruction becomes   *)
(* it, or is saved at the start of an excursion.                           *)
LEMMA HandleContextStutters ==
    ASSUME IInv, HandleContext
    PROVE  UNCHANGED <<AppPc, AppRegs, AppMem, os>> /\ IInv'
<1>i. OneToken /\ ExcursionKnown /\ MemoryIsFunction /\ ~ g_was_wp /\ app = "wait"
      /\ semaphore1
  BY DEF IInv, ExcursionKnown, HandleContext
<1>u. /\ semaphore1' = FALSE /\ app' = "run"
      /\ UNCHANGED <<regs, mem, os, be, semaphore0, semaphoreFini, g_appEnd,
                     g_wrong_path, m_buf, branch>>
  BY DEF HandleContext, prediction
<1>1. CASE g_wrong_path /\ g_was_wp' = TRUE /\ g_context' = [pc |-> Eip, regs |-> regs]
  <2>1. AppPc' = AppPc /\ AppRegs' = AppRegs
    BY <1>i, <1>u, <1>1 DEF AppPc, AppRegs
  <2>2. ExcursionKnown'
    BY <1>i, <1>u, <1>1 DEF ExcursionKnown
  <2> QED
    BY <1>i, <1>u, <2>1, <2>2 DEF IInv, AppMem, Original, OneToken, MemoryIsFunction
<1>2. CASE ~ g_wrong_path /\ pc' = Eip /\ UNCHANGED <<g_was_wp, g_context>>
  <2>1. AppPc' = AppPc /\ AppRegs' = AppRegs
    BY <1>i, <1>u, <1>2 DEF AppPc, AppRegs
  <2>2. ExcursionKnown'
    BY <1>i, <1>u, <1>2 DEF ExcursionKnown
  <2> QED
    BY <1>i, <1>u, <2>1, <2>2 DEF IInv, AppMem, Original, OneToken, MemoryIsFunction
<1> QED
  BY <1>1, <1>2 DEF HandleContext

(* The end of the run, and the back end, leave the application alone. *)
LEMMA EndStutters ==
    ASSUME IInv, announceEnd \/ wakeAll \/ finish
    PROVE  UNCHANGED <<AppPc, AppRegs, AppMem, os>> /\ IInv'
<1>i. OneToken /\ ExcursionKnown /\ MemoryIsFunction
  BY DEF IInv
<1>u. /\ UNCHANGED <<pc, regs, mem, os, be, g_wrong_path, g_was_wp, g_context, m_buf, branch>>
      /\ app # "wait" /\ app' \in {"exit", "signal", "ended"}
  BY DEF announceEnd, wakeAll, finish, appVars, excursion, prediction
<1>1. UNCHANGED <<AppPc, AppRegs, AppMem, os>>
  BY <1>u DEF AppPc, AppRegs, AppMem, Original
<1>2. OneToken'
  <2>1. CASE announceEnd
    BY <1>i, <2>1 DEF announceEnd, OneToken
  <2>2. CASE wakeAll
    BY <1>i, <2>2 DEF wakeAll, OneToken
  <2>3. CASE finish
    BY <1>i, <2>3 DEF finish, OneToken
  <2> QED
    BY <2>1, <2>2, <2>3
<1>3. ~ g_wrong_path /\ ~ g_was_wp
  BY <1>i DEF announceEnd, wakeAll, finish, ExcursionKnown
<1>4. ExcursionKnown' /\ MemoryIsFunction'
  BY <1>i, <1>u, <1>3 DEF ExcursionKnown, MemoryIsFunction
<1> QED
  BY <1>1, <1>2, <1>4 DEF IInv

LEMMA BackEndStutters ==
    ASSUME IInv, backEnd
    PROVE  UNCHANGED <<AppPc, AppRegs, AppMem, os>> /\ IInv'
<1>i. OneToken /\ ExcursionKnown /\ MemoryIsFunction
  BY DEF IInv
<1>u. UNCHANGED <<pc, regs, mem, os, app, g_was_wp, g_context, m_buf, branch,
                  semaphoreFini, g_appEnd>>
  BY DEF backEnd, backEndLoop, backEndWait, backEndTurn, appVars, semVars,
         excursion, prediction
<1>1. UNCHANGED <<AppPc, AppRegs, AppMem, os>>
  BY <1>u DEF AppPc, AppRegs, AppMem, Original, Eip
<1>2. CASE backEndLoop
  BY <1>i, <1>u, <1>1, <1>2
     DEF backEndLoop, semVars, excursion, IInv, OneToken, ExcursionKnown, MemoryIsFunction
<1>3. CASE backEndWait
  <2>1. OneToken'
    BY <1>i, <1>u, <1>3 DEF backEndWait, woken, OneToken, ExcursionKnown
  <2> QED
    BY <1>i, <1>u, <1>1, <1>3, <2>1
       DEF backEndWait, excursion, IInv, ExcursionKnown, MemoryIsFunction
<1>4. CASE backEndTurn
  <2>1. /\ be = "turn" /\ be' = "loop" /\ semaphore1' = TRUE /\ semaphore0' = semaphore0
        /\ g_wrong_path' \in BOOLEAN
    BY <1>4 DEF backEndTurn, PredictAndUpdate
  <2>2. app = "wait"
    BY <1>i, <2>1 DEF OneToken, ExcursionKnown
  <2>3. OneToken' /\ ExcursionKnown' /\ MemoryIsFunction'
    BY <1>i, <1>u, <2>1, <2>2 DEF OneToken, ExcursionKnown, MemoryIsFunction
  <2> QED
    BY <1>1, <2>3 DEF IInv
<1> QED
  BY <1>2, <1>3, <1>4 DEF backEnd

-----------------------------------------------------------------------------
(* Every step of the front end executes an instruction of the application  *)
(* or leaves it alone, and keeps the invariant.                            *)
LEMMA StepImplements ==
    ASSUME IInv, [Next]_vars
    PROVE  (App!Execute \/ UNCHANGED <<AppPc, AppRegs, AppMem, os>>) /\ IInv'
<1>1. CASE rightPathIns
  BY <1>1, RightPathInsExecutes
<1>2. CASE wrongPathIns
  BY <1>2, WrongPathInsUndone
<1>3. CASE wrongPathBranch
  BY <1>3, WrongPathBranchUndone
<1>4. CASE HandleBranch
  BY <1>4, HandleBranchExecutes
<1>5. CASE HandleContext
  BY <1>5, HandleContextStutters
<1>6. CASE announceEnd \/ wakeAll \/ finish
  BY <1>6, EndStutters
<1>7. CASE backEnd
  BY <1>7, BackEndStutters
<1>8. CASE UNCHANGED vars
  BY <1>8 DEF vars, appVars, semVars, excursion, prediction, IInv, OneToken,
              ExcursionKnown, MemoryIsFunction, AppPc, AppRegs, AppMem, Original, Eip
<1> QED
  BY <1>1, <1>2, <1>3, <1>4, <1>5, <1>6, <1>7, <1>8 DEF Next, application

(* The invariant holds throughout. *)
THEOREM Inductive == Spec => []IInv
<1>1. IInv /\ [Next]_vars => IInv'
  BY StepImplements
<1> QED
  BY InitHolds, <1>1, PTL DEF Spec

(* The back end predicts and runs the core only while the application      *)
(* waits in HandleBranch, between excursions and with nothing in the log   *)
(* (backEnd, HandleBranch, pin__doFinish).                                 *)
THEOREM ThreadsTakeTurns == Spec => []TurnsAlternate
<1>1. IInv => TurnsAlternate
  BY DEF IInv, OneToken, ExcursionKnown, TurnsAlternate
<1> QED
  BY <1>1, Inductive, PTL

(* Excursions leave no mark: with every excursion taken back as recover    *)
(* would do it, the front end starts as the application does, and each of  *)
(* its steps is an instruction of the application or none.                 *)
THEOREM ExcursionsLeaveNoMark == Spec => App!SafeSpec
<1>1. Init => App!Init
  <2> SUFFICES ASSUME Init PROVE App!Init
    OBVIOUS
  <2>1. ~ g_was_wp /\ IInv /\ app = "run" /\ pc = 1 /\ regs = 0 /\ os = 0
        /\ mem = [x \in App!Loc |-> 0]
    BY InitHolds DEF Init
  <2>2. AppPc = 1 /\ AppRegs = 0 /\ AppMem = [x \in App!Loc |-> 0]
    BY <2>1, NothingSaved DEF AppPc
  <2> QED
    BY <2>1, <2>2 DEF App!Init, AppPc, AppRegs, AppMem
<1>2. IInv /\ [Next]_vars => [App!Execute]_(App!vars)
  <2> SUFFICES ASSUME IInv, [Next]_vars, ~ App!Execute
               PROVE  UNCHANGED App!vars
    OBVIOUS
  <2>1. UNCHANGED <<AppPc, AppRegs, AppMem, os>>
    BY StepImplements
  <2> QED
    BY <2>1 DEF App!vars, AppPc, AppRegs, AppMem
<1> QED
  BY <1>1, <1>2, Inductive, PTL DEF Spec, App!SafeSpec

-----------------------------------------------------------------------------
(* What is traced.  The blocks and the open one are sequences of entries;  *)
(* of each block only the set of its right-path numbers matters.           *)
Heads == DOMAIN StaticBB
BranchAddr == {a \in Addr : IsBranch(a)}
Nths(b) == {b[i].nth : i \in DOMAIN b} \ {0, None}

Flagged(e) ==
    /\ e.nth = 0 => e.wp
    /\ e.nth \notin {0, None} /\ e.wp => IsBranch(e.addr)

(* A block has each number once and its flags are right. *)
GoodBlock(b) ==
    /\ \A i, j \in DOMAIN b : b[i].nth = b[j].nth => i = j \/ b[i].nth \in {0, None}
    /\ \A i \in DOMAIN b : Flagged(b[i])

(* Blocks B hold the instructions 1 .. n of the right path, ascending from *)
(* block to block.                                                         *)
Numbered(B, n) ==
    /\ \A k \in 1 .. Len(B) : GoodBlock(B[k]) /\ Nths(B[k]) \subseteq 1 .. n
    /\ \A m \in 1 .. n : \E k \in 1 .. Len(B) : m \in Nths(B[k])
    /\ \A k, l \in 1 .. Len(B) :
         k < l => \A m \in Nths(B[k]), p \in Nths(B[l]) : m < p

(* In an open block with a static schedule every entry is listed, once,    *)
(* and if the instruction at a starts no block it follows on.              *)
Listed(o) ==
    o.head \in Heads =>
      /\ \A i, j \in DOMAIN o.ins : o.ins[i].addr = o.ins[j].addr => i = j
      /\ \A i \in DOMAIN o.ins : o.ins[i].addr \in Range(StaticBB[o.head])
Straight(o, a) ==
    o.head \in Heads /\ a \notin Heads =>
      /\ o.head <= a /\ \A b \in o.head + 1 .. a : b \notin Heads
      /\ \A i \in DOMAIN o.ins : o.ins[i].addr < a

TraceTypes ==
    /\ supplied \in Seq(Seq(Ops)) /\ bbCache \in Seq(Seq(Ops))
    /\ openBB \in OpenBlocks \cup {None}

OpenBlock == openBB # None => Listed(openBB) /\ Straight(openBB, pc)

(* Wherever control goes other than to the next instruction, a block       *)
(* starts there.                                                           *)
Landing ==
    /\ pc \in Addr
    /\ btb \in [BranchAddr -> Heads \cup {None}]
    /\ app = "wait" => /\ pc \in BranchAddr /\ branch.pc = pc
                       /\ branch.tgt \in Heads /\ branch.fthru \in Heads
    /\ g_wrong_path => g_pred_eip \in Heads
    /\ g_was_wp => g_context.pc \in Heads

Counting ==
    /\ regs \in Nat /\ g_context.regs \in Nat
    /\ app = "wait" => regs > 0
    /\ Numbered(blocks, tracedIns)

TraceInv == IInv /\ TraceTypes /\ OpenBlock /\ Landing /\ Counting

-----------------------------------------------------------------------------
(* Code. *)

LEMMA Code ==
  /\ Addr \in SUBSET Nat /\ 1 \in Addr /\ Heads \in SUBSET Addr
  /\ None \notin Nat /\ None \notin OpenBlocks
  /\ \A a \in Addr : Kind[a] # "exit" => a + 1 \in Addr
  /\ \A a \in BranchAddr : Target[a] \subseteq Heads /\ a + 1 \in Heads
<1>1. \A a \in Addr : IsBranch(a) => Kind[a] \in {"br", "jmp", "call"}
  BY DEF IsBranch, App!Branches
<1> QED BY <1>1, ApplicationAssumption, StaticBBAssumption, NoneAssumption
       DEF Addr, Heads, BranchAddr

(* Where a branch may lead. *)
LEMMA Leads ==
  ASSUME NEW a \in BranchAddr, NEW o \in App!Outcomes(a)
  PROVE  o.tgt \in Heads /\ App!Successor(a, o) \in Heads
<1>1. o.tgt \in Target[a]
  BY DEF App!Outcomes
<1> QED BY <1>1, Code DEF App!Successor

(* An instruction that starts no block is listed in the one it is part of. *)
LEMMA FollowsOn ==
  ASSUME openBB \in OpenBlocks, openBB.head \in Heads, NEW a \in Addr, a \notin Heads,
         Listed(openBB), Straight(openBB, a)
  PROVE  a \in Range(StaticBB[openBB.head]) /\ ~ Has(openBB, a)
<1>1. openBB.head <= a /\ \A b \in openBB.head + 1 .. a : b \notin Heads
  BY DEF Straight
<1>2. a \in Range(StaticBB[openBB.head])
  BY <1>1, StaticBBAssumption DEF Heads, Addr
<1>3. \A i \in DOMAIN openBB.ins : openBB.ins[i].addr < a
  BY DEF Straight
<1>4. a \in Nat
  BY Code
<1> QED BY <1>2, <1>3, <1>4 DEF Has

-----------------------------------------------------------------------------
(* Blocks. *)

LEMMA OpsType ==
  ASSUME NEW b \in Seq(Ops)
  PROVE  /\ DOMAIN b = 1 .. Len(b) /\ Len(b) \in Nat
         /\ \A i \in DOMAIN b : b[i] \in Ops
         /\ Nths(b) \subseteq Nat \ {0}
<1>1. DOMAIN b = 1 .. Len(b) /\ Len(b) \in Nat /\ \A i \in DOMAIN b : b[i] \in Ops
  OBVIOUS
<1>2. \A i \in DOMAIN b : b[i].nth \in Nat \cup {None}
  BY <1>1 DEF Ops
<1> QED BY <1>1, <1>2 DEF Nths

(* An entry is added to a block. *)
LEMMA EntryAdded ==
  ASSUME NEW b \in Seq(Ops), GoodBlock(b), NEW e \in Ops, Flagged(e),
         e.nth \in {0, None} \/ e.nth \notin Nths(b)
  PROVE  /\ Append(b, e) \in Seq(Ops) /\ GoodBlock(Append(b, e))
         /\ Nths(Append(b, e)) = Nths(b) \cup ({e.nth} \ {0, None})
<1> DEFINE c == Append(b, e)
<1>1. /\ c \in Seq(Ops) /\ Len(c) = Len(b) + 1 /\ Len(b) \in Nat
      /\ DOMAIN c = 1 .. Len(b) + 1 /\ DOMAIN b = 1 .. Len(b)
      /\ c[Len(b) + 1] = e /\ \A i \in 1 .. Len(b) : c[i] = b[i]
  OBVIOUS
<1> HIDE DEF c
<1>2. Nths(c) = Nths(b) \cup ({e.nth} \ {0, None})
  <2>1. ASSUME NEW m PROVE (\E i \in DOMAIN c : c[i].nth = m)
                           <=> m = e.nth \/ \E i \in DOMAIN b : b[i].nth = m
    BY <1>1, SMTT(30)
  <2> QED BY <2>1 DEF Nths
<1>3. GoodBlock(c)
  <2>1. \A i \in DOMAIN c : Flagged(c[i])
    BY <1>1 DEF GoodBlock
  <2>2. ASSUME NEW i \in DOMAIN c, NEW j \in DOMAIN c, c[i].nth = c[j].nth,
               c[i].nth \notin {0, None}
        PROVE  i = j
    <3>1. \A k \in DOMAIN b : b[k].nth \notin {0, None} => b[k].nth \in Nths(b)
      BY DEF Nths
    <3>2. CASE i \in DOMAIN b /\ j \in DOMAIN b
      BY <1>1, <2>2, <3>2 DEF GoodBlock
    <3>3. CASE i \notin DOMAIN b /\ j \in DOMAIN b
      BY <1>1, <2>2, <3>1, <3>3
    <3>4. CASE i \in DOMAIN b /\ j \notin DOMAIN b
      BY <1>1, <2>2, <3>1, <3>4
    <3>5. CASE i \notin DOMAIN b /\ j \notin DOMAIN b
      BY <1>1, <3>5
    <3> QED BY <3>2, <3>3, <3>4, <3>5
  <2> QED BY <2>1, <2>2 DEF GoodBlock
<1> QED BY <1>1, <1>2, <1>3 DEF c

(* The first entry of a block. *)
LEMMA EntryAlone ==
  ASSUME NEW e \in Ops, Flagged(e)
  PROVE  /\ << e >> \in Seq(Ops) /\ GoodBlock(<< e >>)
         /\ Nths(<< e >>) = {e.nth} \ {0, None}
<1>1. << e >> \in Seq(Ops) /\ DOMAIN << e >> = {1} /\ << e >>[1] = e
  OBVIOUS
<1> DEFINE b == << e >>
<1>2. b \in Seq(Ops) /\ DOMAIN b = {1} /\ b[1] = e
  BY <1>1
<1> HIDE DEF b
<1>3. GoodBlock(b) /\ Nths(b) = {e.nth} \ {0, None}
  BY <1>2 DEF GoodBlock, Nths
<1> QED BY <1>2, <1>3 DEF b

(* pin__getBBhead makes of an open block one in the order of the static    *)
(* schedule, with the same right-path instructions.                        *)
LEMMA Rescheduled ==
  ASSUME openBB \in OpenBlocks, Listed(openBB), GoodBlock(openBB.ins),
         g_wrong_path \in BOOLEAN
  PROVE  /\ rescheduleInsList(openBB) \in Seq(Ops)
         /\ GoodBlock(rescheduleInsList(openBB))
         /\ Nths(rescheduleInsList(openBB)) = Nths(openBB.ins)
<1> DEFINE ins == openBB.ins
           order == StaticBB[openBB.head]
           at(a) == CHOOSE i \in DOMAIN ins : ins[i].addr = a
           Made(a) == IF Has(openBB, a) THEN ins[at(a)] ELSE Entry(a, g_wrong_path, None)
           c == rescheduleInsList(openBB)
<1>1. ins \in Seq(Ops) /\ DOMAIN ins = 1 .. Len(ins) /\ \A i \in DOMAIN ins : ins[i] \in Ops
  <2>1. ins \in Seq(Ops)
    BY DEF OpenBlocks
  <2> QED BY <2>1, OpsType
<1>2. CASE openBB.head \notin Heads
  BY <1>1, <1>2 DEF rescheduleInsList, Heads
<1>3. CASE openBB.head \in Heads
  <2>1. order \in Seq(Nat) /\ IsInjective(order) /\ DOMAIN order = 1 .. Len(order)
        /\ Len(order) \in Nat
    BY <1>3, StaticBBAssumption DEF Heads
  <2>2. c = [i \in DOMAIN order |-> Made(order[i])]
    BY <1>3 DEF rescheduleInsList, Heads
  <2>3. /\ \A i, j \in DOMAIN ins : ins[i].addr = ins[j].addr => i = j
        /\ \A i \in DOMAIN ins : ins[i].addr \in Range(order)
    BY <1>3 DEF Listed
  <2>4. \A a : Has(openBB, a) => at(a) \in DOMAIN ins /\ ins[at(a)].addr = a
    BY DEF Has
  <2>5. \A i \in DOMAIN ins : Has(openBB, ins[i].addr) /\ at(ins[i].addr) = i
    BY <2>3, <2>4 DEF Has
  <2>6. \A a \in Nat : Made(a) \in Ops
    BY <1>1, <2>4 DEF Ops, Entry
  <2>7. \A a : Made(a).nth \notin {0, None} \/ Made(a).nth = 0
               => Has(openBB, a) /\ Made(a) = ins[at(a)]
    <3>1. None # 0
      BY Code
    <3> QED BY <3>1 DEF Entry
  <2> HIDE DEF at
  <2>8. \A i \in DOMAIN order : order[i] \in Nat
    BY <2>1
  <2>9. \A i \in DOMAIN order : Made(order[i]) \in Ops
    BY <2>6, <2>8
  <2> HIDE DEF Made, order, ins
  <2>10. c \in Seq(Ops) /\ DOMAIN c = DOMAIN order /\ \A i \in DOMAIN c : c[i] = Made(order[i])
    BY <2>1, <2>2, <2>9
  <2> HIDE DEF c
  <2>11. Nths(c) = Nths(ins)
    <3>1. ASSUME NEW m \in Nths(c) PROVE m \in Nths(ins)
      <4>1. PICK i \in DOMAIN c : c[i].nth = m /\ m \notin {0, None}
        BY <3>1 DEF Nths
      <4>2. c[i] = Made(order[i])
        BY <2>10
      <4>3. at(order[i]) \in DOMAIN ins /\ ins[at(order[i])].nth = m
        BY <4>1, <4>2, <2>4, <2>7
      <4> QED BY <4>1, <4>3 DEF Nths
    <3>2. ASSUME NEW m \in Nths(ins) PROVE m \in Nths(c)
      <4>1. PICK i \in DOMAIN ins : ins[i].nth = m /\ m \notin {0, None}
        BY <3>2 DEF Nths
      <4>2. PICK k \in DOMAIN order : order[k] = ins[i].addr
        BY <2>3 DEF Range
      <4>3. c[k] = ins[i]
        BY <2>5, <2>10, <4>2 DEF Made, ins
      <4> QED BY <2>10, <4>1, <4>2, <4>3 DEF Nths
    <3> QED BY <3>1, <3>2
  <2>12. GoodBlock(c)
    <3>1. ASSUME NEW i \in DOMAIN c PROVE Flagged(c[i])
      <4>1. c[i] = Made(order[i])
        BY <2>10
      <4>2. CASE c[i].nth = None
        BY <4>2, Code DEF Flagged
      <4>3. CASE c[i].nth # None
        <5>1. c[i] = ins[at(order[i])] /\ at(order[i]) \in DOMAIN ins
          BY <2>4, <2>7, <4>1, <4>3
        <5> QED BY <5>1 DEF GoodBlock, ins
      <4> QED BY <4>2, <4>3
    <3>2. ASSUME NEW i \in DOMAIN c, NEW j \in DOMAIN c, c[i].nth = c[j].nth,
                 c[i].nth \notin {0, None}
          PROVE  i = j
      <4>1. c[i] = Made(order[i]) /\ c[j] = Made(order[j])
        BY <2>10
      <4>2. /\ at(order[i]) \in DOMAIN ins /\ ins[at(order[i])].nth = c[i].nth
            /\ ins[at(order[i])].addr = order[i]
            /\ at(order[j]) \in DOMAIN ins /\ ins[at(order[j])].nth = c[j].nth
            /\ ins[at(order[j])].addr = order[j]
        BY <2>4, <2>7, <3>2, <4>1
      <4>3. at(order[i]) = at(order[j])
        BY <3>2, <4>2 DEF GoodBlock, ins
      <4>4. order[i] = order[j]
        BY <4>2, <4>3
      <4> QED BY <2>1, <2>10, <4>4 DEF IsInjective
    <3> QED BY <3>1, <3>2 DEF GoodBlock
  <2> QED BY <2>10, <2>11, <2>12 DEF c, ins
<1> QED BY <1>2, <1>3

(* Blocks that are numbered, with one more at the end. *)
LEMMA BlockAdded ==
  ASSUME NEW B \in Seq(Seq(Ops)), NEW n \in Nat, Numbered(B, n),
         NEW b \in Seq(Ops), GoodBlock(b),
         NEW m \in Nat, \/ Nths(b) = {} /\ m = n
                        \/ Nths(b) = {n + 1} /\ m = n + 1
  PROVE  Append(B, b) \in Seq(Seq(Ops)) /\ Numbered(Append(B, b), m)
<1> DEFINE C == Append(B, b)
<1>1. /\ C \in Seq(Seq(Ops)) /\ Len(C) = Len(B) + 1 /\ Len(B) \in Nat
      /\ C[Len(B) + 1] = b /\ \A k \in 1 .. Len(B) : C[k] = B[k]
  OBVIOUS
<1> HIDE DEF C
<1>2. ASSUME NEW k \in 1 .. Len(C)
      PROVE  GoodBlock(C[k]) /\ Nths(C[k]) \subseteq 1 .. m
  <2>1. CASE k \in 1 .. Len(B)
    <3>1. GoodBlock(B[k]) /\ Nths(B[k]) \subseteq 1 .. n /\ C[k] = B[k]
      BY <1>1, <2>1 DEF Numbered
    <3>2. 1 .. n \subseteq 1 .. m
      OBVIOUS
    <3> QED BY <3>1, <3>2
  <2>2. CASE k = Len(B) + 1
    <3>1. C[k] = b
      BY <1>1, <2>2
    <3>2. Nths(b) \subseteq 1 .. m
      OBVIOUS
    <3> QED BY <3>1, <3>2
  <2> QED BY <1>1, <2>1, <2>2
<1>3. ASSUME NEW p \in 1 .. m PROVE \E k \in 1 .. Len(C) : p \in Nths(C[k])
  <2>1. CASE p = n + 1
    <3>1. p \in Nths(b)
      BY <2>1
    <3>2. Len(B) + 1 \in 1 .. Len(C) /\ p \in Nths(C[Len(B) + 1])
      BY <1>1, <3>1
    <3> QED BY <3>2
  <2>2. CASE p # n + 1
    <3>1. PICK k \in 1 .. Len(B) : p \in Nths(B[k])
      BY <2>2 DEF Numbered
    <3>2. k \in 1 .. Len(C) /\ p \in Nths(C[k])
      BY <1>1, <3>1
    <3> QED BY <3>2
  <2> QED BY <2>1, <2>2
<1>4. ASSUME NEW k \in 1 .. Len(C), NEW l \in 1 .. Len(C), k < l,
             NEW p \in Nths(C[k]), NEW q \in Nths(C[l])
      PROVE  p < q
  <2>1. CASE l <= Len(B)
    <3>1. /\ k \in 1 .. Len(B) /\ l \in 1 .. Len(B)
          /\ p \in Nths(B[k]) /\ q \in Nths(B[l])
      BY <1>1, <1>4, <2>1, SMTT(30)
    <3> QED BY <1>4, <3>1 DEF Numbered
  <2>2. CASE l = Len(B) + 1
    <3>1. k \in 1 .. Len(B) /\ p \in Nths(B[k]) /\ q \in Nths(b)
      BY <1>1, <1>4, <2>2
    <3>2. p \in 1 .. n /\ q = n + 1
      BY <3>1 DEF Numbered
    <3> QED BY <3>2
  <2> QED BY <1>1, <2>1, <2>2
<1>5. Numbered(C, m)
  BY <1>2, <1>3, <1>4 DEF Numbered
<1> QED BY <1>1, <1>5 DEF C

(* The last one replaced by one with as many right-path instructions, or   *)
(* with one more.                                                          *)
LEMMA LastReplaced ==
  ASSUME NEW B \in Seq(Seq(Ops)), NEW n \in Nat, NEW b \in Seq(Ops),
         Numbered(Append(B, b), n),
         NEW c \in Seq(Ops), GoodBlock(c),
         NEW m \in Nat, \/ Nths(c) = Nths(b) /\ m = n
                        \/ Nths(c) = Nths(b) \cup {n + 1} /\ m = n + 1
  PROVE  Append(B, c) \in Seq(Seq(Ops)) /\ Numbered(Append(B, c), m)
<1> DEFINE C == Append(B, c)
           D == Append(B, b)
           L == Len(B) + 1
<1>1. /\ C \in Seq(Seq(Ops)) /\ Len(C) = L /\ Len(D) = L /\ Len(B) \in Nat
      /\ C[L] = c /\ \A k \in 1 .. Len(B) : C[k] = B[k]
      /\ D[L] = b /\ \A k \in 1 .. Len(B) : D[k] = B[k]
  OBVIOUS
<1>i. Numbered(D, n)
  OBVIOUS
<1> HIDE DEF C, D
<1>3. ASSUME NEW k \in 1 .. L, k # L PROVE Nths(C[k]) = Nths(D[k])
  <2>1. C[k] = D[k]
    <3>1. k \in 1 .. Len(B)
      BY <1>1, <1>3
    <3>2. C[k] = B[k] /\ D[k] = B[k]
      BY <1>1, <3>1
    <3> QED BY <3>2
  <2> QED BY <2>1
<1>2. ASSUME NEW k \in 1 .. L
      PROVE  \/ Nths(C[k]) = Nths(D[k])
             \/ Nths(C[k]) = Nths(D[k]) \cup {n + 1} /\ m = n + 1
  <2>1. CASE k = L
    <3>1. C[k] = c /\ D[k] = b
      BY <1>1, <2>1
    <3> QED BY <3>1
  <2> QED BY <1>3, <2>1
<1>4. \A k \in 1 .. L : GoodBlock(C[k]) /\ Nths(C[k]) \subseteq 1 .. m
  <2>1. \A k \in 1 .. L : Nths(D[k]) \subseteq 1 .. n
    BY <1>1, <1>i DEF Numbered
  <2>2. \A k \in 1 .. L : k # L => C[k] = D[k] /\ GoodBlock(D[k])
    BY <1>1, <1>i DEF Numbered
  <2>3. \A k \in 1 .. L : GoodBlock(C[k])
    BY <1>1, <2>2
  <2>4. m = n \/ m = n + 1
    OBVIOUS
  <2>5. ASSUME NEW k \in 1 .. L PROVE Nths(C[k]) \subseteq 1 .. m
    <3>1. Nths(D[k]) \subseteq 1 .. n /\ 1 .. n \subseteq 1 .. m
      BY <2>1, <2>4
    <3>2. CASE Nths(C[k]) = Nths(D[k])
      BY <3>1, <3>2
    <3>3. CASE Nths(C[k]) = Nths(D[k]) \cup {n + 1} /\ m = n + 1
      <4>1. n + 1 \in 1 .. m
        BY <3>3
      <4> QED BY <3>1, <3>3, <4>1
    <3> QED BY <1>2, <3>2, <3>3
  <2> QED BY <2>3, <2>5
<1>5. ASSUME NEW p \in 1 .. m PROVE \E k \in 1 .. L : p \in Nths(C[k])
  <2>1. CASE p = n + 1
    <3>1. p \in Nths(c)
      BY <2>1
    <3>2. L \in 1 .. L /\ C[L] = c
      BY <1>1
    <3>3. p \in Nths(C[L])
      BY <3>1, <3>2
    <3> QED BY <3>2, <3>3
  <2>2. CASE p # n + 1
    <3>1. PICK k \in 1 .. L : p \in Nths(D[k])
      BY <1>1, <1>i, <2>2 DEF Numbered
    <3> QED BY <1>2, <3>1
  <2> QED BY <2>1, <2>2
<1>6. ASSUME NEW k \in 1 .. L, NEW l \in 1 .. L, k < l,
             NEW p \in Nths(C[k]), NEW q \in Nths(C[l])
      PROVE  p < q
  <2>1. k # L /\ p \in Nths(D[k])
    BY <1>1, <1>3, <1>6, SMTT(30)
  <2>2. CASE q \in Nths(D[l])
    BY <1>1, <1>i, <1>6, <2>1, <2>2 DEF Numbered
  <2>3. CASE q = n + 1
    <3>1. p \in 1 .. n
      BY <1>1, <1>i, <2>1 DEF Numbered
    <3> QED BY <2>3, <3>1
  <2>4. q \in Nths(D[l]) \/ q = n + 1
    <3>1. \/ Nths(C[l]) = Nths(D[l])
          \/ Nths(C[l]) = Nths(D[l]) \cup {n + 1} /\ m = n + 1
      BY <1>2
    <3> QED BY <1>6, <3>1
  <2> QED BY <2>2, <2>3, <2>4
<1>7. Numbered(C, m)
  BY <1>1, <1>4, <1>5, <1>6 DEF Numbered
<1> QED BY <1>1, <1>7 DEF C

(* The blocks of the core and of the cache, without the open one. *)
LEMMA Closed ==
  ASSUME TraceTypes
  PROVE  /\ supplied \o bbCache \in Seq(Seq(Ops))
         /\ openBB = None => blocks = supplied \o bbCache
         /\ openBB # None => /\ openBB \in OpenBlocks /\ openBB.ins \in Seq(Ops)
                             /\ blocks = Append(supplied \o bbCache, openBB.ins)
<1>1. supplied \o bbCache \in Seq(Seq(Ops))
  BY DEF TraceTypes
<1>2. openBB = None => blocks = supplied \o bbCache
  BY <1>1 DEF blocks, TraceTypes
<1>3. ASSUME openBB # None
      PROVE  /\ openBB \in OpenBlocks /\ openBB.ins \in Seq(Ops)
             /\ blocks = Append(supplied \o bbCache, openBB.ins)
  <2>1. openBB \in OpenBlocks
    BY <1>3 DEF TraceTypes
  <2>2. openBB.ins \in Seq(Ops)
    BY <2>1 DEF OpenBlocks
  <2>3. blocks = (supplied \o bbCache) \o << openBB.ins >>
    BY <1>3 DEF blocks
  <2> QED BY <1>1, <2>1, <2>2, <2>3, AppendIsConcat
<1> QED BY <1>1, <1>2, <1>3

LEMMA ClosedNext ==
  ASSUME TraceTypes', UNCHANGED supplied, openBB' # None
  PROVE  blocks' = Append(supplied \o bbCache', openBB'.ins)
<1>1. supplied \o bbCache' \in Seq(Seq(Ops)) /\ openBB' \in OpenBlocks
  BY DEF TraceTypes
<1>2. openBB'.ins \in Seq(Ops)
  BY <1>1 DEF OpenBlocks
<1>3. blocks' = (supplied \o bbCache') \o << openBB'.ins >>
  BY DEF blocks
<1> QED BY <1>1, <1>2, <1>3, AppendIsConcat

-----------------------------------------------------------------------------
(* getOp adds the instruction at a to the open block or to a new one; the  *)
(* blocks stay numbered, and the next instruction may follow on.           *)
LEMMA Traced ==
  ASSUME TraceTypes, NEW a \in Addr,
         openBB # None => Listed(openBB) /\ Straight(openBB, a),
         NEW n \in Nat, Numbered(blocks, n),
         NEW nth \in {0, n + 1}, getOp(a, nth), UNCHANGED supplied,
         g_wrong_path \in BOOLEAN, nth = 0 => g_wrong_path,
         nth # 0 /\ g_wrong_path => IsBranch(a)
  PROVE  /\ TraceTypes' /\ openBB' # None
         /\ Listed(openBB') /\ Straight(openBB', a + 1)
         /\ Numbered(blocks', IF nth = 0 THEN n ELSE nth)
<1> DEFINE e == Entry(a, g_wrong_path, nth)
           v == {nth} \ {0, None}
           m == IF nth = 0 THEN n ELSE nth
<1>1. /\ a \in Nat /\ nth \in Nat /\ None \notin Nat /\ None \notin OpenBlocks
      /\ Heads \subseteq Nat
  BY Code
<1>2. e \in Ops /\ Flagged(e) /\ e.addr = a /\ e.nth = nth
  BY <1>1 DEF Entry, Ops, Flagged
<1>3. m \in Nat /\ ((v = {} /\ m = n) \/ (v = {n + 1} /\ m = n + 1))
  <2>1. CASE nth = 0
    <3>1. m = n /\ v = {}
      BY <2>1
    <3> QED BY <3>1
  <2>2. CASE nth = n + 1
    <3>1. nth # 0 /\ nth # None
      BY <1>1, <2>2
    <3> QED BY <2>2, <3>1
  <2> QED BY <2>1, <2>2
<1> HIDE DEF e
<1>4. CASE startsBlock(a)
  <2>1. /\ openBB' = [head |-> a, ins |-> << e >>]
        /\ bbCache' = IF openBB = None THEN bbCache
                      ELSE Append(bbCache, rescheduleInsList(openBB))
    BY <1>4 DEF getOp, e
  <2>2. << e >> \in Seq(Ops) /\ GoodBlock(<< e >>) /\ Nths(<< e >>) = v
    BY <1>2, EntryAlone
  <2>3. openBB' \in OpenBlocks /\ openBB' # None /\ openBB'.ins = << e >> /\ openBB'.head = a
    <3> DEFINE f == << e >>
    <3>1. f \in Seq(Ops) /\ openBB' = [head |-> a, ins |-> f]
      BY <2>1, <2>2
    <3> HIDE DEF f
    <3>2. openBB' \in OpenBlocks /\ openBB'.ins = f /\ openBB'.head = a
      BY <3>1 DEF OpenBlocks, Addr
    <3> QED BY <1>1, <3>2 DEF f
  <2>4. Listed(openBB')
    <3>1. a \in Heads => a \in Range(StaticBB[a])
      <4>1. a <= a /\ \A b \in a + 1 .. a : b \notin DOMAIN StaticBB
        BY <1>1
      <4> QED BY <4>1, StaticBBAssumption DEF Heads, Addr
    <3>2. DOMAIN << e >> = {1} /\ << e >>[1].addr = a
      BY <1>2
    <3> QED BY <2>3, <3>1, <3>2 DEF Listed
  <2>5. Straight(openBB', a + 1)
    <3>1. a <= a + 1 /\ \A b \in a + 1 .. a + 1 : b = a + 1
      BY <1>1
    <3>2. DOMAIN << e >> = {1} /\ << e >>[1].addr = a /\ a < a + 1
      BY <1>1, <1>2
    <3> QED BY <2>3, <3>1, <3>2 DEF Straight
  <2>6. bbCache' \in Seq(Seq(Ops)) /\ Numbered(supplied \o bbCache', n)
    <3>1. CASE openBB = None
      <4>1. bbCache' = bbCache /\ blocks = supplied \o bbCache
        BY <2>1, <3>1, Closed
      <4> QED BY <4>1 DEF TraceTypes
    <3>2. CASE openBB # None
      <4> DEFINE R == rescheduleInsList(openBB)
      <4>1. /\ openBB \in OpenBlocks /\ openBB.ins \in Seq(Ops)
            /\ blocks = Append(supplied \o bbCache, openBB.ins)
            /\ supplied \o bbCache \in Seq(Seq(Ops))
        BY <3>2, Closed
      <4>2. GoodBlock(openBB.ins)
        <5> DEFINE C == supplied \o bbCache
        <5>1. C \in Seq(Seq(Ops)) /\ blocks = Append(C, openBB.ins)
          BY <4>1
        <5> HIDE DEF C
        <5>2. Len(C) + 1 \in 1 .. Len(blocks) /\ blocks[Len(C) + 1] = openBB.ins
          BY <5>1
        <5> QED BY <5>2 DEF Numbered
      <4>3. R \in Seq(Ops) /\ GoodBlock(R) /\ Nths(R) = Nths(openBB.ins)
        BY <3>2, <4>1, <4>2, Rescheduled
      <4> HIDE DEF R
      <4>4. Numbered(Append(supplied \o bbCache, R), n)
        BY <4>1, <4>3, LastReplaced
      <4>5. bbCache' = Append(bbCache, R) /\ supplied \in Seq(Seq(Ops)) /\ bbCache \in Seq(Seq(Ops))
        BY <2>1, <3>2 DEF R, TraceTypes
      <4>6. supplied \o Append(bbCache, R) = Append(supplied \o bbCache, R)
        BY <4>3, <4>5, SMTT(30)
      <4> QED BY <4>3, <4>4, <4>5, <4>6
    <3> QED BY <3>1, <3>2
  <2>7. TraceTypes'
    BY <2>3, <2>6 DEF TraceTypes
  <2>8. blocks' = Append(supplied \o bbCache', << e >>)
    BY <2>3, <2>7, ClosedNext
  <2>9. supplied \o bbCache' \in Seq(Seq(Ops))
    BY <2>6 DEF TraceTypes
  <2>10. Numbered(blocks', m)
    BY <1>3, <2>2, <2>6, <2>8, <2>9, BlockAdded
  <2> QED BY <2>3, <2>4, <2>5, <2>7, <2>10
<1>5. CASE ~ startsBlock(a)
  <2>1. a \notin Heads /\ openBB # None
    BY <1>5 DEF startsBlock, Heads
  <2>2. /\ openBB \in OpenBlocks /\ openBB.ins \in Seq(Ops)
        /\ blocks = Append(supplied \o bbCache, openBB.ins)
        /\ supplied \o bbCache \in Seq(Seq(Ops))
    BY <2>1, Closed
  <2>3. openBB.head \in Heads => a \in Range(StaticBB[openBB.head]) /\ ~ Has(openBB, a)
    BY <2>1, <2>2, FollowsOn
  <2>4. openBB' = [openBB EXCEPT !.ins = Append(@, e)] /\ bbCache' = bbCache
    BY <1>5, <2>3 DEF getOp, e, Heads
  <2>5. openBB'.ins = Append(openBB.ins, e) /\ openBB'.head = openBB.head
    BY <2>2, <2>4 DEF OpenBlocks
  <2>6. GoodBlock(openBB.ins) /\ Nths(openBB.ins) \subseteq 1 .. n
    <3> DEFINE C == supplied \o bbCache
    <3>1. C \in Seq(Seq(Ops)) /\ blocks = Append(C, openBB.ins)
      BY <2>2
    <3> HIDE DEF C
    <3>2. Len(C) + 1 \in 1 .. Len(blocks) /\ blocks[Len(C) + 1] = openBB.ins
      BY <2>2, <3>1
    <3> QED BY <3>2 DEF Numbered
  <2>7. e.nth \in {0, None} \/ e.nth \notin Nths(openBB.ins)
    BY <1>2, <2>6
  <2>8. /\ openBB'.ins \in Seq(Ops) /\ GoodBlock(openBB'.ins)
        /\ Nths(openBB'.ins) = Nths(openBB.ins) \cup v
    BY <1>2, <2>2, <2>5, <2>6, <2>7, EntryAdded
  <2>9. openBB' \in OpenBlocks /\ openBB' # None
    BY <1>1, <2>2, <2>4, <2>5, <2>8 DEF OpenBlocks
  <2>10. /\ DOMAIN openBB'.ins = 1 .. Len(openBB.ins) + 1 /\ Len(openBB.ins) \in Nat
         /\ DOMAIN openBB.ins = 1 .. Len(openBB.ins)
         /\ openBB'.ins[Len(openBB.ins) + 1] = e
         /\ \A i \in DOMAIN openBB.ins : openBB'.ins[i] = openBB.ins[i]
    BY <1>2, <2>2, <2>5
  <2>11. Listed(openBB')
    <3> SUFFICES ASSUME openBB'.head \in Heads PROVE Listed(openBB')
      BY DEF Listed
    <3>1. a \in Range(StaticBB[openBB.head]) /\ \A i \in DOMAIN openBB.ins : openBB.ins[i].addr # a
      BY <2>3, <2>5 DEF Has
    <3>2. Listed(openBB)
      BY <2>1
    <3>3. \A i \in DOMAIN openBB'.ins : openBB'.ins[i].addr \in Range(StaticBB[openBB.head])
      BY <1>2, <2>5, <2>10, <3>1, <3>2 DEF Listed
    <3>4. ASSUME NEW i \in DOMAIN openBB'.ins, NEW j \in DOMAIN openBB'.ins,
                 openBB'.ins[i].addr = openBB'.ins[j].addr
          PROVE  i = j
      <4>1. CASE i \in DOMAIN openBB.ins /\ j \in DOMAIN openBB.ins
        BY <2>5, <2>10, <3>2, <3>4, <4>1, SMTT(30) DEF Listed
      <4>2. CASE i \notin DOMAIN openBB.ins /\ j \in DOMAIN openBB.ins
        BY <1>2, <2>10, <3>1, <3>4, <4>2, SMTT(30)
      <4>3. CASE i \in DOMAIN openBB.ins /\ j \notin DOMAIN openBB.ins
        BY <1>2, <2>10, <3>1, <3>4, <4>3, SMTT(30)
      <4>4. CASE i \notin DOMAIN openBB.ins /\ j \notin DOMAIN openBB.ins
        BY <2>10, <4>4
      <4> QED BY <4>1, <4>2, <4>3, <4>4
    <3> QED BY <2>5, <3>3, <3>4 DEF Listed
  <2>12. Straight(openBB', a + 1)
    <3> SUFFICES ASSUME openBB.head \in Heads, a + 1 \notin Heads
                 PROVE  /\ openBB.head <= a + 1
                        /\ \A b \in openBB.head + 1 .. a + 1 : b \notin Heads
                        /\ \A i \in DOMAIN openBB'.ins : openBB'.ins[i].addr < a + 1
      BY <2>5 DEF Straight
    <3>1. /\ openBB.head <= a /\ \A b \in openBB.head + 1 .. a : b \notin Heads
          /\ \A i \in DOMAIN openBB.ins : openBB.ins[i].addr < a
      BY <2>1 DEF Straight
    <3>2. openBB.head \in Nat /\ \A i \in DOMAIN openBB.ins : openBB.ins[i].addr \in Nat
      <4>1. \A i \in DOMAIN openBB.ins : openBB.ins[i] \in Ops
        BY <2>2, OpsType
      <4> QED BY <1>1, <4>1 DEF Ops
    <3>3. \A b \in openBB.head + 1 .. a + 1 : b \in openBB.head + 1 .. a \/ b = a + 1
      BY <1>1, <3>2
    <3>4. ASSUME NEW i \in DOMAIN openBB'.ins PROVE openBB'.ins[i].addr < a + 1
      <4>1. CASE i \in DOMAIN openBB.ins
        <5>1. openBB'.ins[i] = openBB.ins[i] /\ openBB.ins[i].addr \in Nat /\ openBB.ins[i].addr < a
          BY <2>10, <3>1, <3>2, <4>1
        <5> QED BY <1>1, <5>1
      <4>2. CASE i \notin DOMAIN openBB.ins
        <5>1. openBB'.ins[i] = e
          BY <2>10, <4>2
        <5> QED BY <1>1, <1>2, <5>1
      <4> QED BY <4>1, <4>2
    <3> QED BY <1>1, <3>1, <3>2, <3>3, <3>4
  <2>13. TraceTypes'
    BY <2>4, <2>9 DEF TraceTypes
  <2>14. blocks' = Append(supplied \o bbCache, openBB'.ins)
    BY <2>4, <2>9, <2>13, ClosedNext
  <2>15. Numbered(blocks', m)
    <3>1. Numbered(Append(supplied \o bbCache, openBB.ins), n)
      BY <2>2
    <3> QED BY <1>3, <2>2, <2>8, <2>14, <3>1, LastReplaced
  <2> QED BY <2>9, <2>11, <2>12, <2>13, <2>15
<1> QED BY <1>4, <1>5

-----------------------------------------------------------------------------
(* One lemma for each step. *)

LEMMA TraceInit ==
  ASSUME Init
  PROVE  TraceInv
<1>1. IInv
  BY InitHolds
<1>2. TraceTypes /\ OpenBlock /\ blocks = << >>
  BY DEF Init, TraceTypes, OpenBlock, blocks
<1>3. Landing
  BY Code DEF Init, Landing, BranchAddr
<1>4. tracedIns = 0 /\ regs \in Nat /\ g_context.regs \in Nat /\ app # "wait"
  BY DEF Init, tracedIns
<1>5. Numbered(<< >>, 0)
  BY DEF Numbered
<1> QED BY <1>1, <1>2, <1>3, <1>4, <1>5 DEF TraceInv, Counting

LEMMA RightPathInsTraced ==
  ASSUME TraceInv, rightPathIns
  PROVE  TraceInv'
<1>1. /\ IInv /\ TraceTypes /\ Landing /\ Counting /\ OpenBlock
      /\ app = "run" /\ ~ g_wrong_path /\ ~ g_was_wp /\ pc \in Addr
  BY DEF TraceInv, IInv, ExcursionKnown, rightPathIns, Landing
<1>2. /\ getOp(pc, regs + 1) /\ regs' = regs + 1 /\ pc' = pc + 1 /\ Kind[pc] # "exit"
      /\ UNCHANGED <<app, g_wrong_path, g_was_wp, g_context, branch, g_pred_eip, btb,
                     supplied>>
  BY DEF rightPathIns, excursion, prediction
<1>3. regs \in Nat /\ Numbered(blocks, regs)
  BY <1>1 DEF Counting, tracedIns
<1>4. /\ TraceTypes' /\ Listed(openBB') /\ Straight(openBB', pc + 1)
      /\ Numbered(blocks', IF regs + 1 = 0 THEN regs ELSE regs + 1)
  <2>1. openBB # None => Listed(openBB) /\ Straight(openBB, pc)
    BY <1>1 DEF OpenBlock
  <2>2. regs + 1 \in {0, regs + 1} /\ regs + 1 # 0 /\ g_wrong_path \in BOOLEAN
        /\ UNCHANGED supplied
    BY <1>1, <1>2, <1>3 DEF IInv, ExcursionKnown
  <2> QED BY <1>1, <1>2, <1>3, <2>1, <2>2, Traced
<1>5. OpenBlock'
  BY <1>2, <1>4 DEF OpenBlock
<1>6. Landing'
  <2>1. pc' \in Addr
    BY <1>1, <1>2, Code
  <2> QED BY <1>1, <1>2, <2>1 DEF Landing
<1>7. Counting'
  <2>1. tracedIns' = regs + 1
    BY <1>1, <1>2 DEF tracedIns
  <2> QED BY <1>1, <1>2, <1>3, <1>4, <2>1 DEF Counting
<1>8. IInv'
  BY <1>1, RightPathInsExecutes
<1> QED BY <1>4, <1>5, <1>6, <1>7, <1>8 DEF TraceInv

(* Recovery goes back to where a block starts. *)
LEMMA RecoveredTrace ==
  ASSUME TraceInv, IInv', app = "run", g_wrong_path, NEW log, recover(log),
         UNCHANGED <<app, btb, supplied>>, TraceTypes',
         openBB' # None => Listed(openBB'),
         Numbered(blocks', tracedIns)
  PROVE  TraceInv'
<1>1. /\ Landing /\ Counting /\ g_was_wp
      /\ g_wrong_path' = FALSE /\ g_was_wp' = FALSE
      /\ pc' = g_context.pc /\ regs' = g_context.regs /\ g_context' = g_context
  BY DEF TraceInv, IInv, ExcursionKnown, recover
<1>2. pc' \in Heads /\ pc' \in Addr
  BY <1>1, Code DEF Landing
<1>3. OpenBlock'
  BY <1>2 DEF OpenBlock, Straight
<1>4. Landing'
  BY <1>1, <1>2 DEF Landing
<1>5. tracedIns = g_context.regs /\ tracedIns' = g_context.regs
  BY <1>1 DEF tracedIns
<1>6. Counting'
  BY <1>1, <1>5 DEF Counting
<1> QED BY <1>3, <1>4, <1>6 DEF TraceInv

(* What an excursion traces is flagged and leaves the numbers alone. *)
LEMMA ExcursionTraced ==
  ASSUME TraceInv, app = "run", g_wrong_path, getOp(pc, 0), UNCHANGED supplied
  PROVE  /\ TraceTypes' /\ Listed(openBB') /\ Straight(openBB', pc + 1)
         /\ Numbered(blocks', tracedIns)
<1>1. /\ TraceTypes /\ pc \in Addr /\ g_wrong_path \in BOOLEAN /\ g_was_wp
      /\ openBB # None => Listed(openBB) /\ Straight(openBB, pc)
  BY DEF TraceInv, IInv, ExcursionKnown, Landing, OpenBlock
<1>2. tracedIns \in Nat /\ Numbered(blocks, tracedIns)
  BY <1>1 DEF TraceInv, Counting, tracedIns
<1>3. 0 \in {0, tracedIns + 1} /\ ~ (0 # 0) /\ 0 = 0
  OBVIOUS
<1> HIDE DEF tracedIns
<1> QED BY <1>1, <1>2, <1>3, Traced

LEMMA WrongPathInsTraced ==
  ASSUME TraceInv, wrongPathIns
  PROVE  TraceInv'
<1>1. /\ app = "run" /\ g_wrong_path /\ g_was_wp /\ IInv /\ IInv' /\ pc \in Addr
      /\ UNCHANGED <<app, branch, g_pred_eip, btb, supplied>>
  BY WrongPathInsUndone
     DEF TraceInv, IInv, ExcursionKnown, wrongPathIns, prediction, Landing
<1>2. getOp(pc, 0)
  BY DEF wrongPathIns
<1>3. /\ TraceTypes' /\ Listed(openBB') /\ Straight(openBB', pc + 1)
      /\ Numbered(blocks', tracedIns)
  BY <1>1, <1>2, ExcursionTraced
<1>4. ASSUME NEW x, recover(saved(x)) PROVE TraceInv'
  BY <1>1, <1>3, <1>4, RecoveredTrace
<1>5. ASSUME ~ endsExcursion, regs' = regs + 1, pc' = pc + 1,
             UNCHANGED <<g_wrong_path, g_was_wp, g_context>>
      PROVE  TraceInv'
  <2>1. pc' \in Addr
    BY <1>1, <1>5, Code DEF endsExcursion
  <2>2. Landing'
    BY <1>1, <1>5, <2>1 DEF TraceInv, Landing
  <2>3. OpenBlock'
    BY <1>3, <1>5 DEF OpenBlock
  <2>4. tracedIns' = tracedIns
    BY <1>1, <1>5 DEF tracedIns
  <2>5. Counting'
    BY <1>1, <1>3, <1>5, <2>4 DEF TraceInv, Counting
  <2> QED BY <1>1, <1>3, <2>2, <2>3, <2>5 DEF TraceInv
<1> QED BY <1>4, <1>5 DEF wrongPathIns

LEMMA WrongPathBranchTraced ==
  ASSUME TraceInv, wrongPathBranch
  PROVE  TraceInv'
<1>1. /\ app = "run" /\ g_wrong_path /\ g_was_wp /\ IInv /\ IInv' /\ pc \in BranchAddr
      /\ UNCHANGED <<app, branch, g_pred_eip, btb, supplied>>
  BY WrongPathBranchUndone
     DEF TraceInv, IInv, ExcursionKnown, wrongPathBranch, prediction, Landing, BranchAddr
<1>2. CASE recover(m_buf) /\ UNCHANGED trace
  <2>1. TraceTypes' /\ (openBB' # None => Listed(openBB')) /\ blocks' = blocks
    BY <1>1, <1>2 DEF trace, TraceInv, TraceTypes, OpenBlock, blocks
  <2>2. Numbered(blocks', tracedIns)
    BY <2>1 DEF TraceInv, Counting
  <2> QED BY <1>1, <1>2, <2>1, <2>2, RecoveredTrace
<1>3. CASE getOp(pc, 0) /\ recover(m_buf)
  <2>1. TraceTypes' /\ Listed(openBB') /\ Numbered(blocks', tracedIns)
    BY <1>1, <1>3, ExcursionTraced
  <2> QED BY <1>1, <1>3, <2>1, RecoveredTrace
<1>4. CASE /\ getOp(pc, 0) /\ regs' = regs + 1
           /\ \E o \in App!Outcomes(pc) : pc' = App!Successor(pc, o)
           /\ UNCHANGED <<g_wrong_path, g_was_wp, g_context>>
  <2>1. TraceTypes' /\ Listed(openBB') /\ Numbered(blocks', tracedIns)
    BY <1>1, <1>4, ExcursionTraced
  <2>2. pc' \in Heads /\ pc' \in Addr
    BY <1>1, <1>4, Leads, Code
  <2>3. Landing'
    BY <1>1, <1>4, <2>2 DEF TraceInv, Landing
  <2>4. OpenBlock'
    BY <2>1, <2>2 DEF OpenBlock, Straight
  <2>5. tracedIns' = tracedIns
    BY <1>1, <1>4 DEF tracedIns
  <2>6. Counting'
    BY <1>1, <1>4, <2>1, <2>5 DEF TraceInv, Counting
  <2> QED BY <1>1, <2>1, <2>3, <2>4, <2>6 DEF TraceInv
<1> QED BY <1>2, <1>3, <1>4 DEF wrongPathBranch

LEMMA HandleBranchTraced ==
  ASSUME TraceInv, HandleBranch
  PROVE  TraceInv'
<1>1. /\ app = "run" /\ ~ g_wrong_path /\ ~ g_was_wp /\ IInv /\ IInv' /\ pc \in BranchAddr
      /\ UNCHANGED <<pc, g_wrong_path, g_context, g_pred_eip, btb, supplied, bbCache, openBB>>
      /\ regs' = regs + 1 /\ app' = "wait" /\ g_was_wp' = FALSE
  BY HandleBranchExecutes
     DEF TraceInv, IInv, ExcursionKnown, HandleBranch, trace, Landing, BranchAddr
<1>2. PICK o \in App!Allowed(pc, regs) :
         branch' = [pc |-> pc, taken |-> o.taken, tgt |-> o.tgt, fthru |-> pc + 1]
  BY DEF HandleBranch
<1>3. o \in App!Outcomes(pc)
  BY DEF App!Allowed
<1>4. branch'.pc = pc /\ branch'.tgt \in Heads /\ branch'.fthru \in Heads
  BY <1>1, <1>2, <1>3, Leads, Code
<1>5. Landing'
  BY <1>1, <1>4 DEF TraceInv, Landing
<1>6. TraceTypes' /\ OpenBlock' /\ blocks' = blocks
  BY <1>1 DEF TraceInv, TraceTypes, OpenBlock, blocks
<1>7. regs \in Nat /\ g_context.regs \in Nat /\ Numbered(blocks, regs)
  BY <1>1 DEF TraceInv, Counting, tracedIns
<1>8. tracedIns' = regs
  BY <1>1, <1>7 DEF tracedIns
<1>9. Counting'
  BY <1>1, <1>6, <1>7, <1>8 DEF Counting
<1> QED BY <1>1, <1>5, <1>6, <1>9 DEF TraceInv

LEMMA HandleContextTraced ==
  ASSUME TraceInv, HandleContext
  PROVE  TraceInv'
<1>1. /\ app = "wait" /\ ~ g_was_wp /\ g_wrong_path \in BOOLEAN /\ IInv /\ IInv'
      /\ pc \in BranchAddr /\ getOp(pc, regs) /\ app' = "run"
      /\ UNCHANGED <<regs, g_wrong_path, branch, g_pred_eip, btb, supplied>>
  BY HandleContextStutters
     DEF TraceInv, IInv, ExcursionKnown, HandleContext, prediction, Landing
<1>2. Eip \in Heads
  BY <1>1 DEF TraceInv, Landing, Eip
<1>3. regs \in Nat /\ regs > 0 /\ Numbered(blocks, regs - 1) /\ g_context.regs \in Nat
  BY <1>1 DEF TraceInv, Counting, tracedIns
<1>4. TraceTypes' /\ Listed(openBB') /\ Numbered(blocks', regs)
  <2>1. regs - 1 \in Nat /\ regs \in {0, (regs - 1) + 1} /\ regs # 0
    BY <1>3
  <2>2. TraceTypes /\ (openBB # None => Listed(openBB) /\ Straight(openBB, pc))
        /\ pc \in Addr /\ IsBranch(pc)
    BY <1>1 DEF TraceInv, OpenBlock, BranchAddr
  <2>3. /\ TraceTypes' /\ Listed(openBB')
        /\ Numbered(blocks', IF regs = 0 THEN regs - 1 ELSE regs)
    BY <1>1, <1>3, <2>1, <2>2, Traced
  <2> QED BY <2>1, <2>3
<1>5. pc' \in Heads /\ pc' \in Addr /\ (g_was_wp' => g_context'.pc \in Heads)
      /\ tracedIns' = regs /\ g_context'.regs \in Nat
  <2>1. CASE g_wrong_path
    <3>1. g_was_wp' = TRUE /\ g_context' = [pc |-> Eip, regs |-> regs] /\ pc' = g_pred_eip
      BY <2>1 DEF HandleContext
    <3>2. g_pred_eip \in Heads
      BY <2>1 DEF TraceInv, Landing
    <3> QED BY <1>1, <1>2, <1>3, <3>1, <3>2, Code DEF tracedIns
  <2>2. CASE ~ g_wrong_path
    <3>1. pc' = Eip /\ g_was_wp' = g_was_wp /\ g_context' = g_context
      BY <2>2 DEF HandleContext
    <3> QED BY <1>1, <1>2, <1>3, <3>1, Code DEF tracedIns
  <2> QED BY <2>1, <2>2
<1>6. Landing'
  BY <1>1, <1>5 DEF TraceInv, Landing
<1>7. OpenBlock'
  BY <1>4, <1>5 DEF OpenBlock, Straight
<1>8. Counting'
  BY <1>1, <1>3, <1>4, <1>5 DEF Counting
<1> QED BY <1>1, <1>4, <1>6, <1>7, <1>8 DEF TraceInv

(* The end of the run and the waits of the back end trace nothing. *)
LEMMA TraceStays ==
  ASSUME TraceInv, IInv',
         UNCHANGED <<pc, regs, g_wrong_path, g_was_wp, g_context, branch, g_pred_eip, btb,
                     bbCache, openBB, supplied>>,
         app' = app \/ (app # "wait" /\ app' # "wait")
  PROVE  TraceInv'
<1>1. TraceTypes' /\ OpenBlock' /\ blocks' = blocks /\ tracedIns' = tracedIns
  BY DEF TraceInv, TraceTypes, OpenBlock, blocks, tracedIns
<1>2. Landing' /\ Counting'
  BY <1>1 DEF TraceInv, Landing, Counting
<1> QED BY <1>1, <1>2 DEF TraceInv

(* Blocks that change queues stay in order. *)
LEMMA Regrouped ==
  \A s, u, v \in Seq(Seq(Ops)) : (s \o u) \o v = s \o (u \o v)
<1> TAKE s, u, v \in Seq(Seq(Ops))
<1> QED BY SMTT(30)

(* The back end moves blocks from the cache to the core and predicts where *)
(* a block starts.                                                         *)
LEMMA BackEndTurnTraced ==
  ASSUME TraceInv, backEndTurn
  PROVE  TraceInv'
<1>1. /\ app = "wait" /\ ~ g_wrong_path /\ ~ g_was_wp /\ IInv'
      /\ UNCHANGED <<pc, regs, app, g_was_wp, g_context, branch, openBB>>
  <2>1. IInv /\ backEnd
    BY DEF TraceInv, backEnd
  <2> QED BY <2>1, BackEndStutters
        DEF backEndTurn, IInv, OneToken, ExcursionKnown, appVars
<1>2. supplied' \o bbCache' = supplied \o bbCache /\ TraceTypes'
  <2>1. supplied \in Seq(Seq(Ops)) /\ bbCache \in Seq(Seq(Ops))
    BY DEF TraceInv, TraceTypes
  <2>2. CASE runsCore
    <3> DEFINE t == Len(bbCache) - (NearEmpty - 1)
    <3>1. /\ supplied' = supplied \o SubSeq(bbCache, 1, t)
          /\ bbCache' = SubSeq(bbCache, t + 1, Len(bbCache))
      BY <2>2 DEF backEndTurn, bbBkEndRun
    <3>2. t \in 0 .. Len(bbCache)
      <4>1. NearEmpty \in Nat /\ NearEmpty > 0 /\ BBCnt \in Nat /\ BBCnt > NearEmpty
        BY FrontEndAssumption
      <4>2. Len(bbCache) + 1 >= BBCnt /\ Len(bbCache) \in Nat
        BY <2>1, <2>2 DEF runsCore
      <4> QED BY <4>1, <4>2
    <3> HIDE DEF t
    <3> DEFINE x == SubSeq(bbCache, 1, t)
               y == SubSeq(bbCache, t + 1, Len(bbCache))
    <3>3. x \in Seq(Seq(Ops)) /\ y \in Seq(Seq(Ops)) /\ x \o y = bbCache
      <4>1. /\ 1 \in Int /\ t \in Int /\ t + 1 \in Int /\ Len(bbCache) \in Int
            /\ \A i \in 1 .. t : bbCache[i] \in Seq(Ops)
            /\ \A i \in t + 1 .. Len(bbCache) : bbCache[i] \in Seq(Ops)
        BY <2>1, <3>2
      <4>2. x \in Seq(Seq(Ops))
        BY <4>1, SubSeqProperties
      <4>3. y \in Seq(Seq(Ops))
        BY <4>1, SubSeqProperties
      <4>4. /\ 1 \in 1 .. Len(bbCache) + 1 /\ t \in 1 - 1 .. Len(bbCache)
            /\ Len(bbCache) \in t .. Len(bbCache)
        BY <2>1, <3>2
      <4>5. x \o y = SubSeq(bbCache, 1, Len(bbCache))
        BY <2>1, <4>4, ConcatAdjacentSubSeq
      <4>6. SubSeq(bbCache, 1, Len(bbCache)) = bbCache
        BY <2>1, SubSeqFull
      <4> QED BY <4>2, <4>3, <4>5, <4>6
    <3>4. PICK u \in Seq(Seq(Ops)), v \in Seq(Seq(Ops)) :
             u \o v = bbCache /\ supplied' = supplied \o u /\ bbCache' = v
      BY <3>1, <3>3
    <3> HIDE DEF x, y
    <3>5. (supplied \o u) \o v = supplied \o (u \o v)
      BY <2>1, Regrouped, Zenon
    <3>6. supplied \o u \in Seq(Seq(Ops))
      BY <2>1, ConcatProperties, SMTT(30)
    <3>7. TraceTypes'
      BY <1>1, <3>4, <3>6 DEF TraceInv, TraceTypes
    <3> QED BY <3>4, <3>5, <3>7
  <2>3. CASE ~ runsCore
    <3>1. supplied' = supplied /\ bbCache' = bbCache
      BY <2>3 DEF backEndTurn, bbBkEndRun
    <3> QED BY <1>1, <3>1 DEF TraceInv, TraceTypes
  <2> QED BY <2>2, <2>3
<1>3. blocks' = blocks /\ tracedIns' = tracedIns
  BY <1>1, <1>2 DEF blocks, tracedIns
<1>4. OpenBlock' /\ Counting'
  BY <1>1, <1>3 DEF TraceInv, OpenBlock, Counting
<1>5. btb' \in [BranchAddr -> Heads \cup {None}] /\ (g_wrong_path' => g_pred_eip' \in Heads)
  <2>1. /\ branch.pc \in BranchAddr /\ branch.tgt \in Heads /\ branch.fthru \in Heads
        /\ btb \in [BranchAddr -> Heads \cup {None}]
    BY <1>1 DEF TraceInv, Landing
  <2> DEFINE pt == btb[branch.pc]
             wt == branch.taken /\ branch.tgt # pt
             tgt(p) == IF ~ (p # branch.taken) /\ wt THEN pt ELSE branch.tgt
  <2>2. PICK pred \in IF pt = None THEN {FALSE} ELSE BOOLEAN :
           /\ btb' = IF wt THEN [btb EXCEPT ![branch.pc] = tgt(pred)] ELSE btb
           /\ g_pred_eip' = IF pred THEN tgt(pred) ELSE branch.fthru
    BY DEF backEndTurn, PredictAndUpdate
  <2>3. pt \in Heads \cup {None} /\ tgt(pred) \in Heads \cup {None}
    BY <2>1
  <2>4. pred => pt # None
    BY <2>2
  <2>5. pred => tgt(pred) \in Heads
    BY <2>1, <2>3, <2>4
  <2> HIDE DEF tgt, pt, wt
  <2> QED BY <2>1, <2>2, <2>3, <2>5
<1>6. Landing'
  BY <1>1, <1>5 DEF TraceInv, Landing
<1> QED BY <1>1, <1>2, <1>4, <1>6 DEF TraceInv

LEMMA TraceStep ==
  ASSUME TraceInv, [Next]_vars
  PROVE  TraceInv'
<1>0. IInv /\ IInv'
  BY StepImplements DEF TraceInv
<1>1. CASE rightPathIns
  BY <1>1, RightPathInsTraced
<1>2. CASE wrongPathIns
  BY <1>2, WrongPathInsTraced
<1>3. CASE wrongPathBranch
  BY <1>3, WrongPathBranchTraced
<1>4. CASE HandleBranch
  BY <1>4, HandleBranchTraced
<1>5. CASE HandleContext
  BY <1>5, HandleContextTraced
<1>6. CASE announceEnd \/ wakeAll \/ finish
  <2>1. /\ UNCHANGED <<pc, regs, g_wrong_path, g_was_wp, g_context, branch, g_pred_eip, btb,
                       bbCache, openBB, supplied>>
        /\ app # "wait" /\ app' # "wait"
    BY <1>6 DEF announceEnd, wakeAll, finish, appVars, excursion, prediction, trace
  <2> QED BY <1>0, <2>1, TraceStays
<1>7. CASE backEndLoop \/ backEndWait
  <2>1. /\ UNCHANGED <<pc, regs, g_wrong_path, g_was_wp, g_context, branch, g_pred_eip, btb,
                       bbCache, openBB, supplied>>
        /\ app' = app
    BY <1>7 DEF backEndLoop, backEndWait, appVars, excursion, prediction, trace
  <2> QED BY <1>0, <2>1, TraceStays
<1>8. CASE backEndTurn
  BY <1>8, BackEndTurnTraced
<1>9. CASE UNCHANGED vars
  <2>1. /\ UNCHANGED <<pc, regs, g_wrong_path, g_was_wp, g_context, branch, g_pred_eip, btb,
                       bbCache, openBB, supplied>>
        /\ app' = app
    BY <1>9 DEF vars, appVars, excursion, prediction, trace
  <2> QED BY <1>0, <2>1, TraceStays
<1> QED
  BY <1>1, <1>2, <1>3, <1>4, <1>5, <1>6, <1>7, <1>8, <1>9 DEF Next, application, backEnd

(* The trace invariant holds throughout. *)
THEOREM TraceInductive == Spec => []TraceInv
<1>1. TraceInv /\ [Next]_vars => TraceInv'
  BY TraceStep
<1> QED BY TraceInit, <1>1, PTL DEF Spec

(* The core is given every instruction of the right path once, in blocks   *)
(* in program order, and all that an excursion traced is flagged (getOp,   *)
(* pin__getBBhead, HandleContext).                                         *)
THEOREM RightPathIsTraced == Spec => []RightPathTraced
<1>1. TraceInv => RightPathTraced
  <2> SUFFICES ASSUME TraceInv PROVE RightPathTraced
    OBVIOUS
  <2>1. /\ Numbered(blocks, tracedIns) /\ tracedIns \in Nat /\ None \notin Nat
        /\ blocks \in Seq(Seq(Ops))
    <3>1. tracedIns \in Nat
      BY DEF TraceInv, Counting, tracedIns, IInv, ExcursionKnown
    <3>2. blocks \in Seq(Seq(Ops))
      <4>1. TraceTypes
        BY DEF TraceInv
      <4>2. CASE openBB = None
        BY <4>1, <4>2, Closed
      <4>3. CASE openBB # None
        <5>1. /\ supplied \o bbCache \in Seq(Seq(Ops)) /\ openBB.ins \in Seq(Ops)
              /\ blocks = Append(supplied \o bbCache, openBB.ins)
          BY <4>1, <4>3, Closed
        <5> QED BY <5>1
      <4> QED BY <4>2, <4>3
    <3> QED BY <3>1, <3>2, Code DEF TraceInv, Counting
  <2>2. /\ DOMAIN blocks = 1 .. Len(blocks) /\ Len(blocks) \in Nat
        /\ \A k \in DOMAIN blocks : GoodBlock(blocks[k])
    BY <2>1 DEF Numbered
  <2>3. \A p : p \in Positions <=>
           \E k \in DOMAIN blocks : \E i \in DOMAIN blocks[k] : p = <<k, i>>
    BY DEF Positions
  <2>4. ASSUME NEW p \in Positions
        PROVE  /\ p[1] \in DOMAIN blocks /\ p[2] \in DOMAIN blocks[p[1]]
               /\ p = <<p[1], p[2]>>
               /\ Flagged(At(p))
               /\ At(p).nth \notin {0, None} => At(p).nth \in Nths(blocks[p[1]])
    <3>1. PICK k \in DOMAIN blocks : \E i \in DOMAIN blocks[k] : p = <<k, i>>
      BY <2>3
    <3>2. PICK i \in DOMAIN blocks[k] : p = <<k, i>>
      BY <3>1
    <3>3. p[1] = k /\ p[2] = i /\ At(p) = blocks[k][i]
      BY <3>2 DEF At
    <3>4. Flagged(blocks[k][i])
      BY <2>2 DEF GoodBlock
    <3>5. blocks[k][i].nth \notin {0, None} => blocks[k][i].nth \in Nths(blocks[k])
      BY DEF Nths
    <3> QED BY <3>2, <3>3, <3>4, <3>5
  <2>5. ASSUME NEW p \in Positions, NEW q \in Positions, p[1] < q[1],
               At(p).nth \notin {0, None}, At(q).nth \notin {0, None}
        PROVE  At(p).nth < At(q).nth
    <3>1. /\ p[1] \in 1 .. Len(blocks) /\ q[1] \in 1 .. Len(blocks)
          /\ At(p).nth \in Nths(blocks[p[1]]) /\ At(q).nth \in Nths(blocks[q[1]])
      BY <2>2, <2>4, <2>5
    <3> QED BY <2>1, <2>5, <3>1 DEF Numbered
  <2>6. ASSUME NEW n \in 1 .. tracedIns
        PROVE  Cardinality({p \in Positions : At(p).nth = n}) = 1
    <3>1. PICK k \in 1 .. Len(blocks) : n \in Nths(blocks[k])
      BY <2>1 DEF Numbered
    <3>2. PICK i \in DOMAIN blocks[k] : blocks[k][i].nth = n
      BY <3>1 DEF Nths
    <3>3. <<k, i>> \in Positions /\ At(<<k, i>>).nth = n
      BY <2>2, <2>3, <3>1, <3>2 DEF At
    <3>4. n \notin {0, None}
      BY <2>1
    <3>5. ASSUME NEW p \in Positions, At(p).nth = n PROVE p = <<k, i>>
      <4>1. p[1] \in 1 .. Len(blocks) /\ p[2] \in DOMAIN blocks[p[1]] /\ p = <<p[1], p[2]>>
        BY <2>2, <2>4
      <4>2. ~ (p[1] < k)
        BY <2>1, <2>5, <3>2, <3>3, <3>4, <3>5
      <4>3. ~ (k < p[1])
        BY <2>1, <2>5, <3>2, <3>3, <3>4, <3>5
      <4>4. p[1] = k
        BY <2>2, <4>1, <4>2, <4>3
      <4>5. blocks[k][p[2]].nth = n
        BY <3>5, <4>4 DEF At
      <4>6. p[2] = i
        BY <2>2, <3>1, <3>2, <3>4, <4>1, <4>4, <4>5 DEF GoodBlock
      <4> QED BY <4>1, <4>4, <4>6
    <3>6. {p \in Positions : At(p).nth = n} = {<<k, i>>}
      BY <3>3, <3>5
    <3> QED BY <3>6, FS_Singleton
  <2> QED BY <2>4, <2>5, <2>6 DEF RightPathTraced, Flagged
<1> QED BY <1>1, TraceInductive, PTL
=============================================================================
