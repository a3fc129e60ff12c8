---------------------------- MODULE TimerService ----------------------------
(***************************************************************************)
(* What krnl/timer.cc promises to the code that uses it.  A timer added    *)
(* with interval i is called back on every i-th tick after the one that    *)
(* was current, with 0, 1, 2, ... as its count, until it is removed; all   *)
(* timers due on a tick are called, one after the other, before the next.  *)
(*                                                                         *)
(* Counters wrap at Width, as the uint64_t counters of the code wrap at    *)
(* 2^64: behaviours are endless though the states are finitely many.       *)
(***************************************************************************)
EXTENDS Integers, Functions

CONSTANTS
  Handles,     \* what add() can return
  Intervals,   \* the intervals that callers ask for, in 1 .. Width - 1
  Width        \* the counters' modulus

None == [busy |-> FALSE]

VARIABLES
  tick,     \* ticks so far
  timers,   \* the live timers: handle -> interval, left, count, since
  call,     \* the callback that runs, or None
  up        \* FALSE once the machine has halted

vars == <<tick, timers, call, up>>

\* "left" is the number of ticks to the next call, "since" the tick of add().
Timer == [interval : Intervals, left : 0 .. Width - 1,
          count : 0 .. Width - 1, since : 0 .. Width - 1]

Calls == {None} \cup [busy : {TRUE}, handle : Handles, count : 0 .. Width - 1]

TypeOK ==
  /\ tick \in 0 .. Width - 1
  /\ timers \in UNION {[H -> Timer] : H \in SUBSET Handles}
  /\ call \in Calls
  /\ up \in BOOLEAN

Live == DOMAIN timers

Init ==
  /\ tick = 0
  /\ timers = [h \in {} |-> None]
  /\ call = None
  /\ up = TRUE

\* A tick comes only when every timer due on the last one has been called.
Tick ==
  /\ up /\ call = None
  /\ \A h \in Live : timers[h].left > 0
  /\ tick' = (tick + 1) % Width
  /\ timers' = [h \in Live |-> [timers[h] EXCEPT !.left = @ - 1]]
  /\ UNCHANGED <<call, up>>

\* A timer after its call: a whole interval to go.
Called(t) ==
  [interval |-> t.interval, left |-> t.interval,
   count |-> (t.count + 1) % Width, since |-> t.since]

Fire(h) ==
  /\ up /\ call = None
  /\ h \in Live /\ timers[h].left = 0
  /\ call' = [busy |-> TRUE, handle |-> h, count |-> timers[h].count]
  /\ timers' = [timers EXCEPT ![h] = Called(@)]
  /\ UNCHANGED <<tick, up>>

Return ==
  /\ up /\ call # None
  /\ call' = None
  /\ UNCHANGED <<tick, timers, up>>

\* From a callback or not; a timer added on a tick is not due on that tick.
Add(h, i) ==
  /\ up /\ h \notin Live
  /\ timers' = [g \in Live \cup {h} |->
                  IF g = h
                    THEN [interval |-> i, left |-> i, count |-> 0, since |-> tick]
                    ELSE timers[g]]
  /\ UNCHANGED <<tick, call, up>>

Remove(h) ==
  /\ up /\ h \in Live
  /\ timers' = [g \in Live \ {h} |-> timers[g]]
  /\ UNCHANGED <<tick, call, up>>

\* No memory for a timer: panic().
Stop ==
  /\ up /\ up' = FALSE
  /\ UNCHANGED <<tick, timers, call>>

Next ==
  \/ Tick \/ Return \/ Stop
  \/ \E h \in Handles : Fire(h) \/ Remove(h) \/ \E i \in Intervals : Add(h, i)

Spec == Init /\ [][Next]_vars

\* Ticks keep coming, callbacks return, and due timers are called.
Fairness ==
  /\ WF_vars(Tick) /\ WF_vars(Return)
  /\ \A h \in Handles : WF_vars(Fire(h))

FairSpec == Spec /\ Fairness

----------------------------------------------------------------------------
(* Properties                                                              *)

\* The arithmetic of the promise: the ticks since add() are the whole periods
\* already called back and the part of the running one, modulo the width; and
\* the next call is at most one interval away, due on this tick if at zero.
OnSchedule ==
  \A h \in Live :
    LET t == timers[h]
    IN /\ t.left \in 0 .. t.interval
       /\ (tick - t.since) % Width = (t.count * t.interval + t.interval - t.left) % Width

\* A timer that stays is called.
EveryTimerFires ==
  \A h \in Handles :
    h \in Live ~> (call # None /\ call.handle = h) \/ h \notin Live \/ ~up

=============================================================================
