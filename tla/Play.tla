-------------------------------- MODULE Play --------------------------------
(***************************************************************************)
(* The animation (ba/main.cc and the playing part of ba/video.cc): three   *)
(* callbacks on top of Timer, each of which removes its own timer and adds *)
(* that of the next act while the handler walks the list.  Act one counts  *)
(* the seconds down, act two shows a frame per call, act three is a clock. *)
(*                                                                         *)
(* A callback is cut where it calls the timers: "todo" is what is left of  *)
(* it.  Interrupts are masked all along.                                   *)
(***************************************************************************)
EXTENDS Integers, FiniteSets

CONSTANTS
  Nodes,        \* as in Timer
  Width,        \* as in Timer
  MaxFrames     \* bound on the number of frames of the video

TIMER_TICK_PER_SECOND == 18
fps == 9

Second == TIMER_TICK_PER_SECOND
FrameTicks == TIMER_TICK_PER_SECOND \div fps

ASSUME PlayAssumption ==
  /\ Width \in Nat /\ Width > Second
  /\ MaxFrames \in Nat

VARIABLES
  system_tick, node, passed, ahead, pc, up,   \* of Timer
  lpfn,       \* the callback of a node
  todo,       \* the rest of the callback, or of play()
  count,      \* v.count
  cur_frame,  \* v.cur_frame
  frees,      \* how often v.pool was deleted
  silent,     \* the allocation log is off
  start       \* the tick at which play() added its timer (not in the code)

timerVars == <<system_tick, node, passed, ahead, pc, up>>
videoVars == <<count, cur_frame, frees, silent>>
vars == <<timerVars, lpfn, todo, videoVars, start>>

Timer == INSTANCE Timer WITH Intervals <- {Second, FrameTicks, 1}

Acts == {"countdown", "frame", "clock"}

TypeOK ==
  /\ Timer!TypeOK
  /\ lpfn \in [Nodes -> Acts]
  /\ todo \in {"play", "idle", "enter", "end", "add", "free"}
  /\ count \in 0 .. MaxFrames /\ cur_frame \in 0 .. count
  /\ frees \in 0 .. 1
  /\ silent \in BOOLEAN
  /\ start \in Timer!Word

Init ==
  /\ Timer!Init
  /\ lpfn = [n \in Nodes |-> "countdown"]
  /\ todo = "play"
  /\ count \in 0 .. MaxFrames /\ cur_frame = 0
  /\ frees = 0 /\ silent = FALSE
  /\ start = 0

cur == Timer!cur

\* timer::add(interval, f) and what follows it.
AddTimer(f, interval, next) ==
  /\ \E n \in Nodes :
       /\ Timer!Add(n, interval)
       /\ lpfn' = [lpfn EXCEPT ![n] = f]
  /\ todo' = next
  /\ UNCHANGED videoVars

Mut_RemoveSelf(next) ==
  /\ todo' = next
  /\ UNCHANGED <<timerVars, lpfn, count, cur_frame, frees, start>>

\* timer::remove(h) of the timer whose callback runs.
RemoveSelf(next) ==
  /\ Timer!Remove(cur)
  /\ todo' = next
  /\ UNCHANGED <<lpfn, count, cur_frame, frees, start>>

----------------------------------------------------------------------------

\* play(), in the main flow, from kinitialize().
Start ==
  /\ todo = "play" /\ pc = "main"
  /\ AddTimer("countdown", Second, "idle")
  /\ start' = system_tick

\* No memory for the timer of an act.
Fail ==
  /\ todo \in {"play", "add"} /\ (todo = "play" => pc = "main")
  /\ Timer!AddFails
  /\ UNCHANGED <<lpfn, todo, videoVars, start>>

InCallback(f, here) ==
  /\ up /\ pc = "call"
  /\ lpfn[cur] = f
  /\ todo = here

\* The argument of the callback that runs.
arg == node[cur].trigger_count

Mut_Waits == arg <= 3
Waits == arg < 3

\* "%d second(s) to go"
CountdownPrint ==
  /\ InCallback("countdown", "enter") /\ Waits
  /\ todo' = "end"
  /\ UNCHANGED <<timerVars, lpfn, videoVars, start>>

CountdownOver ==
  /\ InCallback("countdown", "enter") /\ ~Waits
  /\ RemoveSelf("add")
  /\ UNCHANGED silent

FilmStart ==
  /\ InCallback("countdown", "add")
  /\ AddTimer("frame", FrameTicks, "end")
  /\ UNCHANGED start

Mut2_HasNext == cur_frame + 1 < count
HasNext == cur_frame < count

\* v.next(): the frame at cur_frame is copied to the screen.
ShowFrame ==
  /\ InCallback("frame", "enter") /\ HasNext
  /\ cur_frame' = cur_frame + 1
  /\ todo' = "end"
  /\ UNCHANGED <<timerVars, lpfn, count, frees, silent, start>>

Mut_FilmOver ==
  /\ InCallback("frame", "enter") /\ ~HasNext
  /\ RemoveSelf("free")
  /\ UNCHANGED silent

FilmOver ==
  /\ InCallback("frame", "enter") /\ ~HasNext
  /\ silent' = TRUE
  /\ RemoveSelf("free")

\* v.free() and the screen of thanks.
FreePool ==
  /\ InCallback("frame", "free")
  /\ frees' = frees + 1
  /\ todo' = "add"
  /\ UNCHANGED <<timerVars, lpfn, count, cur_frame, silent, start>>

ClockStart ==
  /\ InCallback("frame", "add")
  /\ AddTimer("clock", 1, "end")
  /\ UNCHANGED start

ShowTime ==
  /\ InCallback("clock", "enter")
  /\ todo' = "end"
  /\ UNCHANGED <<timerVars, lpfn, videoVars, start>>

----------------------------------------------------------------------------

Tick ==
  /\ Timer!Tick
  /\ UNCHANGED <<lpfn, todo, videoVars, start>>

CallBack ==
  /\ Timer!Call
  /\ todo' = "enter"
  /\ UNCHANGED <<lpfn, videoVars, start>>

Return ==
  /\ todo = "end"
  /\ Timer!Return
  /\ todo' = "idle"
  /\ UNCHANGED <<lpfn, videoVars, start>>

OtherVisit ==
  /\ Timer!Unlink \/ Timer!CountDown \/ Timer!Done
  /\ UNCHANGED <<lpfn, todo, videoVars, start>>

Callback ==
  \/ CountdownPrint \/ CountdownOver \/ FilmStart
  \/ ShowFrame \/ FilmOver \/ FreePool \/ ClockStart
  \/ ShowTime

Handler == CallBack \/ Return \/ OtherVisit

Next == Start \/ Fail \/ Callback \/ Tick \/ Handler

Spec == Init /\ [][Next]_vars

\* Timer's fairness; and the main flow gets on between ticks 55 ms apart, so
\* that play() reaches its add() however often the handler runs.
FairSpec ==
  /\ Spec
  /\ SF_vars(Start) /\ WF_vars(Tick) /\ WF_vars(Callback) /\ WF_vars(Handler)

----------------------------------------------------------------------------
(* Properties                                                              *)

LiveTimers == Timer!Live

\* The acts follow one another: between callbacks one timer is live at most,
\* and with the one still to be freed two nodes of the heap do for them all.
OneActAtATime ==
  /\ pc # "call" => Cardinality(LiveTimers) <= 1
  /\ Cardinality(Timer!Linked) <= 2

\* The pool is freed once, after the last frame, and no timer that is left
\* reads it afterwards.
PoolOutlivesFilm ==
  /\ frees = 1 => cur_frame = count
  /\ \A n \in LiveTimers : lpfn[n] \in {"countdown", "frame"} => frees = 0

\* From the last frame on the allocation log no longer writes to the screen:
\* the film's own node is freed in silence.
QuietAfterFilm ==
  [][frees = 1 /\ node' # node => silent]_vars

\* Frame k is shown exactly 4 seconds and k + 1 periods after play(): handing
\* over from timer to timer inside the handler neither loses nor adds a tick.
FramesOnTime ==
  [][ShowFrame => (system_tick - start) % Width
                    = (4 * Second + FrameTicks * (cur_frame + 1)) % Width]_vars

\* The film ends, and the clock goes on for ever.
EndsInClock ==
  <>[](LiveTimers # {} /\ \A n \in LiveTimers : lpfn[n] = "clock" /\ frees = 1) \/ <>~up

=============================================================================
