-------------------------------- MODULE Timer --------------------------------
(***************************************************************************)
(* The programmable timers (krnl/timer.cc): a list of heap nodes, new ones *)
(* at its head, that the handler of IRQ 0 walks on every tick.  A callback *)
(* that the walk makes may itself add and remove timers, its own included; *)
(* remove() only marks a node, the next walk that meets it frees it.       *)
(*                                                                         *)
(* add() and remove() are single steps against the handler because they    *)
(* hold an int_guard; the IntGuard and TimerList modules discharge that.   *)
(*                                                                         *)
(* The walk splits the list at its cursor.  From timer_head on it reads    *)
(* passed \o ahead, and "cur" is the first node of ahead, NULL if none.    *)
(***************************************************************************)
EXTENDS Integers, Sequences, Functions

CONSTANTS
  Nodes,       \* the addresses that operator new can return
  Intervals,   \* the intervals that callers ask for
  Width        \* the counters' modulus, 2^64 in the code

ASSUME TimerAssumption ==
  /\ Width \in Nat \ {0}
  /\ Intervals \subseteq 0 .. Width - 1

Free == [allocated |-> FALSE]

VARIABLES
  system_tick,  \* static uint64_t system_tick
  node,         \* the heap: address -> timer_callback_node_t or Free
  passed,       \* the nodes before the cursor
  ahead,        \* the cursor and the nodes after it
  pc,           \* "main": no handler; "walk": in its loop; "call": in a callback
  up            \* FALSE once panic() has halted the machine

vars == <<system_tick, node, passed, ahead, pc, up>>

Word == 0 .. Width - 1

\* "since" is not in the code: the tick at which add() made the node.
Node == [allocated : {TRUE}, interval : Intervals \ {0}, trigger_count : Word,
         count_down : Word, deleted : BOOLEAN, since : Word]

TypeOK ==
  /\ system_tick \in Word
  /\ node \in [Nodes -> Node \cup {Free}]
  /\ passed \in Seq(Nodes) /\ ahead \in Seq(Nodes)
  /\ pc \in {"main", "walk", "call"}
  /\ up \in BOOLEAN

cur == Head(ahead)

Init ==
  /\ system_tick = 0
  /\ node = [n \in Nodes |-> Free]
  /\ passed = <<>> /\ ahead = <<>>
  /\ pc = "main"
  /\ up = TRUE

----------------------------------------------------------------------------
(* handler()                                                               *)

\* The entry of the handler: the cursor starts at timer_head.
Tick ==
  /\ up /\ pc = "main"
  /\ system_tick' = (system_tick + 1) % Width
  /\ passed' = <<>> /\ ahead' = passed
  /\ pc' = "walk"
  /\ UNCHANGED <<node, up>>

Visiting == up /\ pc = "walk" /\ ahead # <<>>

Counted == (node[cur].count_down - 1) % Width

Mut_Advance ==
  /\ passed' = <<>>
  /\ ahead' = passed \o ahead

\* cur = cur->next.
Advance ==
  /\ passed' = Append(passed, cur)
  /\ ahead' = Tail(ahead)

\* A marked node is not called but unlinked and freed.
Unlink ==
  /\ Visiting /\ node[cur].deleted
  /\ node' = [node EXCEPT ![cur] = Free]
  /\ ahead' = Tail(ahead)
  /\ UNCHANGED <<system_tick, passed, pc, up>>

CountDown ==
  /\ Visiting /\ ~node[cur].deleted /\ Counted # 0
  /\ node' = [node EXCEPT ![cur].count_down = Counted]
  /\ Advance
  /\ UNCHANGED <<system_tick, pc, up>>

Call ==
  /\ Visiting /\ ~node[cur].deleted /\ Counted = 0
  /\ node' = [node EXCEPT ![cur].count_down = 0]
  /\ pc' = "call"
  /\ UNCHANGED <<system_tick, passed, ahead, up>>

Mut_Return ==
  /\ up /\ pc = "call"
  /\ node' = [node EXCEPT ![cur].trigger_count = (@ + 1) % Width,
                          ![cur].count_down = node[cur].interval]
  /\ passed' = passed \o ahead /\ ahead' = <<>>
  /\ pc' = "walk"
  /\ UNCHANGED <<system_tick, up>>

\* should_remove was read before the call: a timer that its own callback has
\* removed is kept, with its count reloaded, for the next walk to free.
Return ==
  /\ up /\ pc = "call"
  /\ node' = [node EXCEPT ![cur].trigger_count = (@ + 1) % Width,
                          ![cur].count_down = node[cur].interval]
  /\ Advance
  /\ pc' = "walk"
  /\ UNCHANGED <<system_tick, up>>

\* cur == NULL: the handler returns.
Done ==
  /\ up /\ pc = "walk" /\ ahead = <<>>
  /\ pc' = "main"
  /\ UNCHANGED <<system_tick, node, passed, ahead, up>>

----------------------------------------------------------------------------
(* add() and remove(), by the main flow or by the callback of cur           *)

Caller == up /\ pc \in {"main", "call"}

Mut_Accepts(i) == TRUE
\* An interval of zero is refused before anything is done.
Accepts(i) == i # 0

NewNode(i) ==
  [allocated |-> TRUE, interval |-> i, trigger_count |-> 0,
   count_down |-> i, deleted |-> FALSE, since |-> system_tick]

Mut_Add(n, i) ==
  /\ Caller /\ Accepts(i)
  /\ node[n] = Free
  /\ node' = [node EXCEPT ![n] = NewNode(i)]
  /\ IF pc = "main"
       THEN passed' = Append(passed, n) /\ UNCHANGED ahead
       ELSE ahead' = Append(ahead, n) /\ UNCHANGED passed
  /\ UNCHANGED <<system_tick, pc, up>>

\* The new node becomes timer_head, behind the cursor of a running walk.
Add(n, i) ==
  /\ Caller /\ Accepts(i)
  /\ node[n] = Free
  /\ node' = [node EXCEPT ![n] = NewNode(i)]
  /\ passed' = <<n>> \o passed
  /\ UNCHANGED <<system_tick, ahead, pc, up>>

\* The heap is exhausted: operator new does not return NULL, it panics.
AddFails ==
  /\ Caller
  /\ up' = FALSE
  /\ UNCHANGED <<system_tick, node, passed, ahead, pc>>

Mut_Remove(n) ==
  /\ Caller
  /\ node[n] # Free
  /\ node' = [node EXCEPT ![n] = Free]
  /\ UNCHANGED <<system_tick, passed, ahead, pc, up>>

\* The caller's handle is of a node not yet freed.  The second remove() of a
\* node returns false and changes nothing.
Remove(n) ==
  /\ Caller
  /\ node[n] # Free
  /\ node' = [node EXCEPT ![n].deleted = TRUE]
  /\ UNCHANGED <<system_tick, passed, ahead, pc, up>>

----------------------------------------------------------------------------

Visit == Unlink \/ CountDown \/ Call

Handler == Visit \/ Return \/ Done

Api ==
  \/ AddFails
  \/ \E n \in Nodes : Remove(n) \/ \E i \in Intervals : Add(n, i)

Next == Tick \/ Handler \/ Api

Spec == Init /\ [][Next]_vars

\* The PIT ticks for ever and main leaves its guards (IntGuard!Delivery); the
\* handler's code goes on, and callbacks return.
Fairness == WF_vars(Tick) /\ WF_vars(Handler)

FairSpec == Spec /\ Fairness

----------------------------------------------------------------------------
(* The service it implements                                               *)

Linked == Range(passed) \cup Range(ahead)

Live == {n \in Linked : ~node[n].deleted}

\* The tick that runs is still to be counted for the nodes ahead of the walk;
\* a timer being called has its next call a whole interval away.
Left(n) ==
  IF n \notin Range(ahead) THEN node[n].count_down
  ELSE IF pc = "call" /\ n = cur THEN node[n].interval
  ELSE node[n].count_down - 1

Fired(n) ==
  IF pc = "call" /\ n = cur
    THEN (node[n].trigger_count + 1) % Width
    ELSE node[n].trigger_count

Entry(n) ==
  [interval |-> node[n].interval, left |-> Left(n),
   count |-> Fired(n), since |-> node[n].since]

Timers == [n \in Live |-> Entry(n)]

Current ==
  IF pc = "call"
    THEN [busy |-> TRUE, handle |-> cur, count |-> node[cur].trigger_count]
    ELSE [busy |-> FALSE]

Service == INSTANCE TimerService WITH
  Handles <- Nodes,
  Intervals <- Intervals \ {0},
  tick <- system_tick,
  timers <- Timers,
  call <- Current

----------------------------------------------------------------------------
(* Properties                                                              *)

\* The list survives what callbacks do to it: it is linked without repetition,
\* the cursor's node has not been freed under it, and the heap holds exactly
\* the nodes that are linked, so none leaks and none is used after free.
ListSound ==
  /\ IsInjective(passed) /\ IsInjective(ahead)
  /\ Range(passed) \cap Range(ahead) = {}
  /\ Linked = {n \in Nodes : node[n] # Free}
  /\ pc = "main" => ahead = <<>>
  /\ pc = "call" => ahead # <<>>

\* The unsigned count_down never wraps: only the node being called is at zero.
CountDownInRange ==
  \A n \in Linked :
    \/ node[n].count_down \in 1 .. node[n].interval
    \/ pc = "call" /\ n = cur

\* A removed timer's node is given back to the heap.
Reclaimed ==
  \A n \in Nodes :
    node[n] # Free /\ node[n].deleted ~> node[n] = Free \/ ~up

\* Timers are called on their ticks, with their counts, and only while live.
ImplementsService == Service!Spec

\* The calls a timer has had are the whole intervals since its add(), and the
\* next one is never further away than an interval: count_down does not wrap.
\* A timer is due in the course of a walk only; no walk ends with one overdue.
OnSchedule ==
  /\ Service!OnSchedule
  /\ pc = "main" => \A n \in Live : Left(n) > 0

\* No timer is starved by the others.
TimersFire == Service!EveryTimerFires

=============================================================================
