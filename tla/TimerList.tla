------------------------------ MODULE TimerList ------------------------------
(***************************************************************************)
(* timer::add(), timer::remove() and the handler at the level of their     *)
(* loads and stores to the doubly linked list, composed with the guards    *)
(* of IntGuard: the main flow can be interrupted between any two           *)
(* statements where its guard does not prevent it, and freed addresses are *)
(* given out again.  Each statement of add() is a step.  The handler and   *)
(* its callbacks run masked, so that an iteration of its loop is one step  *)
(* while the calls that callbacks make are as fine as those of main.       *)
(*                                                                         *)
(* Left to Timer: add() with interval 0 and a heap that is exhausted.      *)
(***************************************************************************)
EXTENDS IntGuard, Sequences, FiniteSets, Functions

CONSTANTS
  Nodes,       \* the addresses that operator new can return
  Intervals,   \* the intervals that callers ask for
  Width,       \* the counters' modulus
  NULL

\* Memory is finite, NULL is the address of no object; add() has refused 0.
ASSUME ListAssumption ==
  /\ IsFiniteSet(Nodes) /\ NULL \notin Nodes
  /\ Width \in Nat \ {0}
  /\ Intervals \subseteq 1 .. Width - 1

VARIABLES
  system_tick,
  timer_head,
  node,        \* the heap: address -> timer_callback_node_t
  cur,         \* the handler's cursor
  at,          \* where the handler is
  stmt,        \* per context: the statement of add() or remove() to execute
  ptr          \* per context: the local ptr of add()

listVars == <<system_tick, timer_head, node, cur, at>>
apiVars == <<stmt, ptr>>
allVars == <<vars, listVars, apiVars>>

Pointers == Nodes \cup {NULL}

Word == 0 .. Width - 1

\* "since" is Timer's history variable.
Node == [allocated : BOOLEAN, interval : Word, trigger_count : Word,
         count_down : Word, deleted : BOOLEAN, since : Word,
         prev : Pointers, next : Pointers]

\* What operator new with () returns; also stands for memory given back.
Zero == [allocated |-> FALSE, interval |-> 0, trigger_count |-> 0,
         count_down |-> 0, deleted |-> FALSE, since |-> 0,
         prev |-> NULL, next |-> NULL]

\* "out": not in the API; "in": the guard is constructed or being so;
\* "next" to "head": the assignments of add(); "done": before the guard's end
Stmts == {"out", "in", "next", "back", "fill", "head", "done"}

ListTypeOK ==
  /\ TypeOK
  /\ system_tick \in Word
  /\ timer_head \in Pointers
  /\ node \in [Nodes -> Node]
  /\ cur \in Pointers
  /\ at \in {"idle", "enter", "walk", "call", "exit"}
  /\ stmt \in [Ctx -> Stmts]
  /\ ptr \in [Ctx -> Pointers]

ListInit ==
  /\ Init
  /\ system_tick = 0
  /\ timer_head = NULL
  /\ node = [n \in Nodes |-> Zero]
  /\ cur = NULL
  /\ at = "idle"
  /\ stmt = [c \in Ctx |-> "out"]
  /\ ptr = [c \in Ctx |-> NULL]

----------------------------------------------------------------------------
(* add() and remove(), in the main flow or in a callback                   *)

\* Outside cli() and sti(): the guard's constructor has returned, say.
Running(c) == ctx = c /\ pc[c] = "run"

Proceed(c, here, there) ==
  /\ stmt[c] = here
  /\ stmt' = [stmt EXCEPT ![c] = there]

\* int_guard guard;
Enter(c) ==
  /\ c = "irq" => at = "call"
  /\ Proceed(c, "out", "in")
  /\ Construct(c)
  /\ UNCHANGED <<listVars, ptr>>

\* cli() and sti() on their way, in either context.
GuardStep(c) ==
  /\ Progress(c)
  /\ UNCHANGED <<listVars, apiVars>>

\* ptr = new timer_callback_node_t(): any address not in use.
New(c) ==
  /\ Running(c)
  /\ Proceed(c, "in", "next")
  /\ \E n \in Nodes :
       /\ ~node[n].allocated
       /\ node' = [node EXCEPT ![n] = [Zero EXCEPT !.allocated = TRUE]]
       /\ ptr' = [ptr EXCEPT ![c] = n]
  /\ UNCHANGED <<vars, system_tick, timer_head, cur, at>>

\* deleted, prev and next: the first read of timer_head.
LinkNext(c) ==
  /\ Running(c)
  /\ Proceed(c, "next", "back")
  /\ node' = [node EXCEPT ![ptr[c]].next = timer_head]
  /\ UNCHANGED <<vars, system_tick, timer_head, cur, at, ptr>>

Mut_LinkBack(c) ==
  /\ Running(c)
  /\ Proceed(c, "back", "fill")
  /\ UNCHANGED <<vars, listVars, ptr>>

\* if (timer_head != NULL) timer_head->prev = ptr: the second one.
LinkBack(c) ==
  /\ Running(c)
  /\ Proceed(c, "back", "fill")
  /\ node' = IF timer_head # NULL
               THEN [node EXCEPT ![timer_head].prev = ptr[c]]
               ELSE node
  /\ UNCHANGED <<vars, system_tick, timer_head, cur, at, ptr>>

Fill(c) ==
  /\ Running(c)
  /\ Proceed(c, "fill", "head")
  /\ \E i \in Intervals :
       node' = [node EXCEPT ![ptr[c]].interval = i, ![ptr[c]].count_down = i,
                            ![ptr[c]].since = system_tick]
  /\ UNCHANGED <<vars, system_tick, timer_head, cur, at, ptr>>

\* timer_head = ptr: now the handler can see the node.
LinkHead(c) ==
  /\ Running(c)
  /\ Proceed(c, "head", "done")
  /\ timer_head' = ptr[c]
  /\ UNCHANGED <<vars, system_tick, node, cur, at, ptr>>

\* remove() of a timer not yet freed.
Remove(c) ==
  /\ Running(c)
  /\ Proceed(c, "in", "done")
  /\ \E n \in Nodes :
       /\ node[n].allocated
       /\ node' = [node EXCEPT ![n].deleted = TRUE]
  /\ UNCHANGED <<vars, system_tick, timer_head, cur, at, ptr>>

\* The end of the guard's scope.
Leave(c) ==
  /\ Proceed(c, "done", "out")
  /\ ptr' = [ptr EXCEPT ![c] = NULL]
  /\ Destroy(c)
  /\ UNCHANGED listVars

Api(c) ==
  \/ Enter(c) \/ GuardStep(c) \/ Leave(c)
  \/ New(c) \/ LinkNext(c) \/ LinkBack(c) \/ Fill(c) \/ LinkHead(c)
  \/ Remove(c)

----------------------------------------------------------------------------
(* IRQ 0 and its handler                                                   *)

RaiseIrq ==
  /\ Raise
  /\ UNCHANGED <<listVars, apiVars>>

TimerIrq ==
  /\ Interrupt
  /\ at' = "enter"
  /\ UNCHANGED <<system_tick, timer_head, node, cur, apiVars>>

\* handler() between its own statements: no callback is inside the API.
InHandler(here) ==
  /\ Running("irq") /\ stmt["irq"] = "out"
  /\ at = here
  /\ UNCHANGED <<vars, apiVars>>

Tick ==
  /\ InHandler("enter")
  /\ system_tick' = (system_tick + 1) % Width
  /\ cur' = timer_head
  /\ at' = "walk"
  /\ UNCHANGED <<timer_head, node>>

Visiting == InHandler("walk") /\ cur # NULL

Counted == (node[cur].count_down - 1) % Width

CountNode ==
  /\ Visiting /\ ~node[cur].deleted /\ Counted # 0
  /\ node' = [node EXCEPT ![cur].count_down = Counted]
  /\ cur' = node[cur].next
  /\ UNCHANGED <<system_tick, timer_head, at>>

Call ==
  /\ Visiting /\ ~node[cur].deleted /\ Counted = 0
  /\ node' = [node EXCEPT ![cur].count_down = 0]
  /\ at' = "call"
  /\ UNCHANGED <<system_tick, timer_head, cur>>

Return ==
  /\ InHandler("call")
  /\ node' = [node EXCEPT ![cur].trigger_count = (@ + 1) % Width,
                          ![cur].count_down = node[cur].interval]
  /\ cur' = node[cur].next
  /\ at' = "walk"
  /\ UNCHANGED <<system_tick, timer_head>>

\* The three tests of the unlinking, on the links before the node is freed.
Bypassed(n, m) ==
  [node[m] EXCEPT !.next = IF m = node[n].prev THEN node[n].next ELSE @,
                  !.prev = IF m = node[n].next THEN node[n].prev ELSE @]

Unlink ==
  /\ Visiting /\ node[cur].deleted
  /\ timer_head' = IF timer_head = cur THEN node[cur].next ELSE timer_head
  /\ node' = [m \in Nodes |-> IF m = cur THEN Zero ELSE Bypassed(cur, m)]
  /\ cur' = node[cur].next
  /\ UNCHANGED <<system_tick, at>>

Done ==
  /\ InHandler("walk") /\ cur = NULL
  /\ at' = "exit"
  /\ UNCHANGED <<system_tick, timer_head, node, cur>>

HandlerReturn ==
  /\ at = "exit"
  /\ InterruptReturn
  /\ at' = "idle"
  /\ UNCHANGED <<system_tick, timer_head, node, cur, apiVars>>

Handler ==
  \/ Tick \/ CountNode \/ Call \/ Return \/ Unlink \/ Done
  \/ HandlerReturn

ListNext ==
  \/ \E c \in Ctx : Api(c)
  \/ RaiseIrq \/ TimerIrq \/ Handler

ListSpec == ListInit /\ [][ListNext]_allVars

----------------------------------------------------------------------------
(* The Timer module it implements                                          *)

\* The nodes of a heap found by following next from p; the bound ends a cycle.
ListFrom(heap, p) ==
  LET nth[i \in 1 .. Cardinality(Nodes)] ==
        IF i = 1 THEN p
        ELSE IF nth[i - 1] = NULL THEN NULL ELSE heap[nth[i - 1]].next
  IN Restrict(nth, {i \in DOMAIN nth : nth[i] # NULL})

List == ListFrom(node, timer_head)

InWalk == at \in {"walk", "call"}

Ahead == IF InWalk THEN ListFrom(node, cur) ELSE <<>>

Passed == SubSeq(List, 1, Len(List) - Len(Ahead))

Where == IF InWalk THEN at ELSE "main"

Shown(r) ==
  [allocated |-> TRUE, interval |-> r.interval, trigger_count |-> r.trigger_count,
   count_down |-> r.count_down, deleted |-> r.deleted, since |-> r.since]

\* A heap without the links, and without the node that an add() has under way.
View(heap, s) ==
  LET linked == Range(s)
  IN [n \in Nodes |-> IF n \in linked THEN Shown(heap[n]) ELSE [allocated |-> FALSE]]

Heap == View(node, List)

TheTimer == INSTANCE Timer WITH
  node <- Heap, passed <- Passed, ahead <- Ahead, pc <- Where, up <- TRUE

----------------------------------------------------------------------------
(* Properties                                                              *)

\* Whoever executes outside the assignments of an add() finds the two chains
\* inverse to each other and the list to be all that is allocated: a handler
\* never meets a half-linked node.
WellLinked ==
  stmt[ctx] \in {"out", "in", "done"} =>
    /\ Range(List) = {n \in Nodes : node[n].allocated}
    /\ timer_head # NULL => node[timer_head].prev = NULL
    /\ \A m, n \in Range(List) : node[m].next = n <=> node[n].prev = m

\* No pointer that the code may follow leads to freed memory.
NoDangling ==
  LET Valid(p) == p = NULL \/ node[p].allocated
  IN /\ Valid(timer_head)
     /\ \A n \in Nodes : node[n].allocated => Valid(node[n].next) /\ Valid(node[n].prev)
     /\ InWalk => Valid(cur)

\* Both at once, at every statement at which an interrupt may come.
ListWhole == WellLinked /\ NoDangling

\* Statement by statement, under its guard, the linked list does what Timer
\* says in one step: add() takes effect with its last store.
ImplementsTimer == TheTimer!Spec

=============================================================================
