--------------------------- MODULE CacheHierarchy ---------------------------
(***************************************************************************)
(* The cache hierarchy (src/src/backend/cache) that says how long a memory *)
(* access takes: controllers in a chain, each with one port, a queue of    *)
(* timed actions and a list of the requests it has under way, above a      *)
(* DRAM controller.                                                        *)
(*                                                                         *)
(* A memory stage makes one request at a time and lets the hierarchy run   *)
(* until the reply (Driver::request); the clock stands still in between.   *)
(* What a request leaves behind, the write-backs of the lines it displaced *)
(* and the insertions that found a port taken, goes on during later ones.  *)
(*                                                                         *)
(* A step executes one action of the queues that is due, with everything   *)
(* it calls; time passes to the next one that is.  A cache is one set, and *)
(* a line's address its tag.  The caches hold no data: "fresh" says beside *)
(* each copy of a line whether a memory with data would have the last      *)
(* write there.                                                            *)
(***************************************************************************)
EXTENDS Naturals, FiniteSets, FiniteSetsExt, SequencesExt, TLC

CONSTANTS
    Tags,           \* the lines of memory that are accessed
    NumCaches,      \* cache controllers, from the level 1 data cache down
    Ways,           \* ways of a set, in each cache
    Latencies       \* the latencies to try: one per cache, then DRAM

Cpu == 0
Cache == 1 .. NumCaches
Dram == NumCaches + 1
Way == 1 .. Ways
Empty == 0          \* the tag of a line that was never filled

(* With one way the NRU policy finds nothing to replace, and asserts. *)
ASSUME CachesAssumption ==
    /\ Empty \notin Tags
    /\ NumCaches \in Nat \ {0} /\ Ways \in Nat \ {0, 1}
    /\ Latencies \subseteq [Cache \cup {Dram} -> Nat \ {0}]

VARIABLES
    latency,    \* latency of each cache and of DRAM
    hier,       \* the controllers, see HierarchyOK
    request,    \* the access the core waits for, or Nothing
    waited,     \* numcycles of the request, or of the last one
    answer      \* whether the last one was answered with the last write

vars == <<latency, hier, request, waited, answer>>

Nothing == << >>
Types == {"READ", "WRITE", "UPDATE"}

(* A QueueEntry: who asks, for what, and whether the line that comes with  *)
(* an update is the last write.                                            *)
Entry == [from : {Cpu} \cup Cache, type : Types, fresh : BOOLEAN]
writes(e) == e.type \in {"WRITE", "UPDATE"}

Line == [tag : Tags \cup {Empty}, state : {"INVALID", "VALID", "MODIFIED"},
         fresh : BOOLEAN]

(* An action of a timeActionMap, due so many cycles from now. *)
Action == [do : {"access", "hit", "miss", "insert", "evict", "reply"},
           tag : Tags, way : Way \cup {0}, e : Entry, due : Nat]

-----------------------------------------------------------------------------
(* Lines and the replacement policy of a set. *)

holding(s, c, tag) ==
    {w \in Way : s.lines[c][w].tag = tag /\ s.lines[c][w].state # "INVALID"}

(* When all ways are used they are all forgotten but the last. *)
setNRU(bits, w) ==
    LET used == [bits EXCEPT ![w] = TRUE]
    IN  IF \A v \in Way : used[v] THEN [v \in Way |-> v = w] ELSE used

getRepl(bits) == Min({w \in Way : ~bits[w]})

(* Fault: a write-back that hits leaves the line clean. *)
update_line_state_Write(state, e) ==
    IF e.type = "WRITE" THEN "MODIFIED" ELSE IF state = "INVALID" THEN "VALID" ELSE state

update_line_state(state, e) ==
    IF writes(e) THEN "MODIFIED" ELSE IF state = "INVALID" THEN "VALID" ELSE state

init_line_state(e) == IF writes(e) THEN "MODIFIED" ELSE "VALID"

(* One access in a cycle.  last_accessed_cycle is not initialised: if it   *)
(* happens to be the cycle of the first access, that is turned away.       *)
Port == {"free", "taken", "uninitialised"}
get_port(s, c) == s.port[c] = "free"

schedule(s, c, do, tag, way, e, due) ==
    [s EXCEPT !.queue[c] = Append(@, [do |-> do, tag |-> tag, way |-> way,
                                      e |-> e, due |-> due])]

(* The core has written the line: every other copy is an old one. *)
overwritten(s, tag) ==
    LET old(e) == [e EXCEPT !.fresh = FALSE]
    IN  [s EXCEPT
          !.lines = [c \in Cache |-> [w \in Way |->
                        IF @[c][w].tag = tag THEN old(@[c][w]) ELSE @[c][w]]],
          !.queue = [c \in Cache \cup {Dram} |-> [n \in DOMAIN @[c] |->
                        IF @[c][n].tag = tag THEN [@[c][n] EXCEPT !.e = old(@)]
                        ELSE @[c][n]]],
          !.original = [c \in Cache |-> [t \in DOMAIN @[c] |->
                        IF t = tag THEN old(@[c][t]) ELSE @[c][t]]],
          !.memory[tag] = FALSE]
isStore(e) == e.from = Cpu /\ e.type = "WRITE"

-----------------------------------------------------------------------------
(* Requests. *)

AccessAction(s, c, tag, e) ==
    LET found == holding(s, c, tag)
        taken == [s EXCEPT !.port[c] = "taken"]
    IN  IF ~get_port(s, c) THEN schedule(taken, c, "access", tag, 0, e, 1)
        ELSE IF found = {} THEN schedule(taken, c, "miss", tag, 0, e, latency[c])
        ELSE LET w == Min(found)
             IN  schedule([taken EXCEPT !.nru[c] = setNRU(@, w)],
                          c, "hit", tag, w, e, latency[c])

(* A write-back that finds the line under way makes the request for it a   *)
(* write, unless that is an update, which must not be replied to.          *)
merged(o, e) ==
    IF ~writes(e) THEN o
    ELSE [o EXCEPT !.type = IF o.type = "UPDATE" THEN o.type ELSE "WRITE",
                   !.fresh = e.fresh]

request_cb(s, c, tag, e) ==
    IF c = Dram
    THEN IF e.type = "UPDATE" THEN [s EXCEPT !.memory[tag] = e.fresh]
         ELSE schedule(s, c, "reply", tag, 0, e, latency[c])
    ELSE IF tag \in DOMAIN s.original[c]
    THEN [s EXCEPT !.deps[c][tag] = Append(@, e), !.original[c][tag] = merged(@, e)]
    ELSE [AccessAction(s, c, tag, e) EXCEPT !.original[c] = @ @@ (tag :> e),
                                            !.deps[c] = @ @@ (tag :> << >>)]

-----------------------------------------------------------------------------
(* Insertion and write-back. *)

InsertAction(s, c, tag, e) ==
    LET found == holding(s, c, tag)
        w == IF found # {} THEN Min(found) ELSE getRepl(s.nru[c])
        out == s.lines[c][w]
        evicting == IF out.state # "MODIFIED" THEN s
                    ELSE schedule(s, c, "evict", out.tag, 0,
                                  [from |-> c, type |-> "UPDATE", fresh |-> out.fresh],
                                  latency[c])
    IN  IF ~get_port(s, c)
        THEN schedule([s EXCEPT !.port[c] = "taken"], c, "insert", tag, 0, e, 1)
        ELSE [evicting EXCEPT
                !.port[c] = "taken",
                !.nru[c] = setNRU(@, w),
                !.lines[c][w] = [tag |-> tag, fresh |-> e.fresh,
                                 state |-> init_line_state(e)]]

-----------------------------------------------------------------------------
(* Replies; got says whether what comes back is the last write. *)

RECURSIVE RequestReplyAction(_, _, _, _)

(* Fault: the requests that depend on this one are forgotten. *)
handle_deps_Forget(s, c, tag, got) ==
    [s EXCEPT !.original[c] = [t \in DOMAIN @ \ {tag} |-> @[t]],
              !.deps[c] = [t \in DOMAIN @ \ {tag} |-> @[t]]]

handle_deps(s, c, tag, got) ==
    LET replied == FoldLeft(LAMBDA x, e : RequestReplyAction(x, tag, e, got),
                            s, s.deps[c][tag])
    IN  [replied EXCEPT !.original[c] = [t \in DOMAIN @ \ {tag} |-> @[t]],
                        !.deps[c] = [t \in DOMAIN @ \ {tag} |-> @[t]]]

MissReplyAction(s, c, tag, got) ==
    LET e == s.original[c][tag]
        now == IF isStore(e) THEN TRUE ELSE IF writes(e) THEN e.fresh ELSE got
        heard == [IF isStore(e) THEN overwritten(s, tag) ELSE s
                  EXCEPT !.waitingq[c] = @ \ {tag}]
        inserted == InsertAction(heard, c, tag, [e EXCEPT !.fresh = now])
    IN  handle_deps(RequestReplyAction(inserted, tag, e, now), c, tag, now)

RequestReplyAction(s, tag, e, got) ==
    IF e.type = "UPDATE" THEN s
    ELSE IF e.from = Cpu THEN [s EXCEPT !.done = <<got>>]
    ELSE IF tag \in s.waitingq[e.from] THEN MissReplyAction(s, e.from, tag, got)
    ELSE s

HitAction(s, c, tag, w) ==
    LET e == s.original[c][tag]
        before == IF isStore(e) THEN overwritten(s, tag) ELSE s
        line == before.lines[c][w]
        now == IF isStore(e) THEN TRUE ELSE IF writes(e) THEN e.fresh ELSE line.fresh
        used == [line EXCEPT !.fresh = now, !.state = update_line_state(@, e)]
    IN  handle_deps(RequestReplyAction([before EXCEPT !.lines[c][w] = used], tag, e, now),
                    c, tag, now)

(* A miss asks the level below; an update that misses goes on down, and    *)
(* what depends on it is answered at once.                                 *)
MissAction(s, c, tag) ==
    LET e == s.original[c][tag]
        ask == [from |-> c, type |-> "READ", fresh |-> FALSE]
    IN  IF e.type = "UPDATE"
        THEN handle_deps(request_cb(s, c + 1, tag, [e EXCEPT !.from = c]),
                         c, tag, e.fresh)
        ELSE [request_cb(s, c + 1, tag, ask) EXCEPT !.waitingq[c] = @ \cup {tag}]

perform(s, c, a) ==
    CASE a.do = "access" -> AccessAction(s, c, a.tag, a.e)
      [] a.do = "hit"    -> HitAction(s, c, a.tag, a.way)
      [] a.do = "miss"   -> MissAction(s, c, a.tag)
      [] a.do = "insert" -> InsertAction(s, c, a.tag, a.e)
      [] a.do = "evict"  -> request_cb(s, c + 1, a.tag, a.e)
      [] a.do = "reply"  -> RequestReplyAction(s, a.tag, a.e, s.memory[a.tag])

-----------------------------------------------------------------------------
(* The driver and the clock. *)

Init ==
    /\ latency \in Latencies
    /\ \E port \in [Cache -> {"free", "uninitialised"}] :
         hier = [lines |-> [c \in Cache |-> [w \in Way |->
                              [tag |-> Empty, state |-> "INVALID", fresh |-> FALSE]]],
                 nru |-> [c \in Cache |-> [w \in Way |-> FALSE]],
                 port |-> port,
                 queue |-> [c \in Cache \cup {Dram} |-> << >>],
                 original |-> [c \in Cache |-> << >>],
                 deps |-> [c \in Cache |-> << >>],
                 waitingq |-> [c \in Cache |-> {}],
                 memory |-> [t \in Tags |-> TRUE],
                 done |-> << >>]
    /\ request = Nothing /\ waited = 0 /\ answer = Nothing

access ==
    /\ request = Nothing
    /\ \E type \in {"READ", "WRITE"}, tag \in Tags :
         /\ request' = <<type, tag>>
         /\ hier' = request_cb([hier EXCEPT !.done = << >>], 1, tag,
                               [from |-> Cpu, type |-> type, fresh |-> FALSE])
    /\ waited' = 0
    /\ UNCHANGED <<latency, answer>>

due(c) == {n \in DOMAIN hier.queue[c] : hier.queue[c][n].due = 0}
dueAt == {c \in DOMAIN hier.queue : due(c) # {}}

(* The controllers are clocked from the top down. *)
clock ==
    /\ request # Nothing /\ dueAt # {}
    /\ LET c == Min(dueAt)
           n == Min(due(c))
       IN  hier' = perform([hier EXCEPT !.queue[c] = RemoveAt(@, n)],
                           c, hier.queue[c][n])
    /\ UNCHANGED <<latency, request, waited, answer>>

pass(s, d) ==
    [s EXCEPT !.port = [c \in Cache |-> IF @[c] = "taken" THEN "free" ELSE @[c]],
              !.queue = [c \in DOMAIN @ |-> [n \in DOMAIN @[c] |->
                            [@[c][n] EXCEPT !.due = @ - d]]]]

(* Time passes up to the next action, or by the cycle of the reply. *)
tick ==
    /\ request # Nothing /\ dueAt = {} /\ hier.done = << >>
    /\ LET dues == UNION {{hier.queue[c][n].due : n \in DOMAIN hier.queue[c]} :
                             c \in DOMAIN hier.queue}
       IN  /\ dues # {}
           /\ hier' = pass(hier, Min(dues))
           /\ waited' = waited + Min(dues)
    /\ UNCHANGED <<latency, request, answer>>

return ==
    /\ request # Nothing /\ dueAt = {} /\ hier.done # << >>
    /\ hier' = pass(hier, 1)
    /\ request' = Nothing
    /\ answer' = hier.done
    /\ waited' = waited + 1
    /\ UNCHANGED latency

Next == access \/ clock \/ tick \/ return

Spec == Init /\ [][Next]_vars

-----------------------------------------------------------------------------
(* Properties. *)

HierarchyOK ==
    /\ latency \in Latencies
    /\ hier.lines \in [Cache -> [Way -> Line]]
    /\ hier.nru \in [Cache -> [Way -> BOOLEAN]]
    /\ hier.port \in [Cache -> Port]
    /\ \A c \in Cache \cup {Dram} : hier.queue[c] \in Seq(Action)
    /\ \A c \in Cache :
         /\ DOMAIN hier.original[c] = DOMAIN hier.deps[c]
         /\ hier.waitingq[c] \subseteq DOMAIN hier.original[c]
         /\ \A t \in DOMAIN hier.original[c] :
              hier.original[c][t] \in Entry /\ hier.deps[c][t] \in Seq(Entry)
    /\ hier.memory \in [Tags -> BOOLEAN]
    /\ request \in {Nothing} \cup ({"READ", "WRITE"} \X Tags) /\ waited \in Nat
    /\ {hier.done, answer} \subseteq {Nothing, <<TRUE>>, <<FALSE>>}

(* The actions of one kind that are queued, with their controllers. *)
Queued(do) ==
    UNION {{<<c, a>> : a \in {b \in ToSet(hier.queue[c]) : b.do = do}} :
              c \in DOMAIN hier.queue}

Carries(e) == writes(e) /\ e.fresh

(* The last write of a line is never dropped: it is in DRAM, in a modified *)
(* line, in a request under way or in a queued insertion or write-back     *)
(* (InsertAction, EvictAction, the dependants of a request under way).     *)
LastWriteKept ==
    \A t \in Tags :
        \/ hier.memory[t]
        \/ \E c \in Cache :
             \/ \E w \in holding(hier, c, t) :
                  hier.lines[c][w].state = "MODIFIED" /\ hier.lines[c][w].fresh
             \/ t \in DOMAIN hier.original[c] /\ Carries(hier.original[c][t])
        \/ \E q \in Queued("evict") \cup Queued("insert") :
             q[2].tag = t /\ Carries(q[2].e)

(* A hit finds the line it was promised, though it is executed a latency   *)
(* after the probe that handed it the line (AccessAction, HitAction).      *)
HitsFindTheirLine ==
    \A q \in Queued("hit") : hier.lines[q[1]][q[2].way].tag = q[2].tag

(* A write is neither lost between the levels nor missed by a later access,*)
(* whichever level answers it and whatever write-backs are still under way *)
(* (the actions of simpleCacheActions.cpp).                                *)
LastWriteFound ==
    /\ LastWriteKept
    /\ HitsFindTheirLine
    /\ answer # <<FALSE>>

(* Who will answer requester c about line tag: the entries for it at the   *)
(* level below, which are the original and its dependants, or DRAM.        *)
Answering(c, tag) ==
    IF c = NumCaches THEN Cardinality({q \in Queued("reply") : q[2].tag = tag})
    ELSE IF tag \notin DOMAIN hier.original[c + 1] THEN 0
    ELSE Len(SelectSeq(<<hier.original[c + 1][tag]>> \o hier.deps[c + 1][tag],
                       LAMBDA e : e.from = c /\ e.type # "UPDATE"))

Waits(c, tag) ==
    IF c = Cpu THEN request # Nothing /\ request[2] = tag /\ hier.done = << >>
    ELSE tag \in hier.waitingq[c]

(* Each requester that waits for a line has exactly one answer to come, and*)
(* nobody else has one: message_received_cb asserts that a reply finds its *)
(* waiter, and a lost reply would hang Driver::request.                    *)
OneAnswerEach ==
    \A c \in Cpu .. NumCaches, t \in Tags :
        Answering(c, t) = IF Waits(c, t) THEN 1 ELSE 0

(* The core is never kept longer than a miss in every cache takes, a cycle *)
(* for each port that was taken and the cycle of the reply: Driver::request*)
(* asserts a limit and takes what is beyond it for a deadlock.             *)
AnsweredInTime == waited <= FoldFunction(+, 0, latency) + NumCaches + 1

(* Replies: one for each waiter, none for anybody else, and all in time.   *)
RepliesExact == HierarchyOK /\ OneAnswerEach /\ AnsweredInTime
=============================================================================
