----------------------------- MODULE PlayProofs -----------------------------
(***************************************************************************)
(* Proofs about Play, for any heap, any width of the counters above a      *)
(* second and any length of the film: which nodes are linked where at each *)
(* point of the hand-over from one act to the next, and how many ticks     *)
(* have passed since play().                                               *)
(***************************************************************************)
EXTENDS Play, Sequences, FiniteSetTheorems, SequenceTheorems, TLAPS

----------------------------------------------------------------------------
(* The inductive invariant                                                 *)

Interval(f) ==
  IF f = "countdown" THEN Second ELSE IF f = "frame" THEN FrameTicks ELSE 1

Elapsed(e) == e \in Nat /\ system_tick = (start + e) % Width

\* The call of timer n that its count belongs to is k ticks away.
Due(n, k) ==
  /\ lpfn[n] = "countdown" =>
       /\ node[n].trigger_count \in 0 .. 3 /\ cur_frame = 0
       /\ Elapsed(Second * (node[n].trigger_count + 1) - k)
  /\ lpfn[n] = "frame" => Elapsed(4 * Second + FrameTicks * (cur_frame + 1) - k)

Runs(n) ==
  /\ node[n] \in Timer!Node /\ ~node[n].deleted
  /\ node[n].interval = Interval(lpfn[n])
  /\ IF lpfn[n] = "clock" THEN frees = 1 /\ silent /\ cur_frame = count ELSE frees = 0

\* Visited in this tick, or still to be visited.
Waiting(n) ==
  /\ Runs(n)
  /\ node[n].count_down \in 1 .. node[n].interval /\ Due(n, node[n].count_down)
Visited(n) ==
  /\ Runs(n)
  /\ node[n].count_down \in 1 .. node[n].interval /\ Due(n, node[n].count_down - 1)
Called(n) ==
  /\ Runs(n)
  /\ todo = "enter" => Due(n, 0)
  /\ todo = "end" =>
       /\ Due(n, IF lpfn[n] = "frame" THEN FrameTicks ELSE 0)
       /\ lpfn[n] = "countdown" => node[n].trigger_count < 3

Fresh(n) == node[n].count_down = node[n].interval
Dead(n) == node[n] \in Timer!Node /\ node[n].deleted
Only(S) == \A n \in Nodes \ S : node[n] = Timer!Free
List(p, a) == passed = p /\ ahead = a
Between == pc \in {"main", "walk"} /\ todo = "idle"

\* No timer before play(); one; one and the former one that is marked; the
\* former one alone while its callback hands over.
Empty ==
  /\ pc \in {"main", "walk"} /\ todo = "play"
  /\ List(<<>>, <<>>) /\ Only({})
  /\ frees = 0 /\ cur_frame = 0
One(n) ==
  /\ Only({n})
  /\ \/ Between /\ List(<<n>>, <<>>) /\ Waiting(n)
     \/ Between /\ pc = "walk" /\ List(<<>>, <<n>>) /\ Visited(n)
     \/ pc = "call" /\ todo \in {"enter", "end"} /\ List(<<>>, <<n>>) /\ Called(n)
Two(n, d) ==
  /\ n # d /\ Only({n, d}) /\ Dead(d)
  /\ \/ Between /\ List(<<n, d>>, <<>>) /\ Waiting(n) /\ Fresh(n)
     \/ Between /\ pc = "walk" /\ List(<<>>, <<n, d>>) /\ Visited(n) /\ Fresh(n)
     \/ /\ pc = "call" /\ todo \in {"enter", "end"} /\ List(<<>>, <<n, d>>)
        /\ Called(n) /\ lpfn[n] = "clock"
     \/ Between /\ pc = "walk" /\ List(<<n>>, <<d>>) /\ Waiting(n)
     \/ pc = "call" /\ todo = "end" /\ List(<<n>>, <<d>>) /\ Waiting(n) /\ Fresh(n)
Handing(d) ==
  /\ Only({d}) /\ Dead(d)
  /\ pc = "call" /\ List(<<>>, <<d>>)
  /\ \/ /\ lpfn[d] = "countdown" /\ todo = "add"
        /\ frees = 0 /\ cur_frame = 0 /\ Elapsed(4 * Second)
     \/ /\ lpfn[d] = "frame" /\ todo \in {"free", "add"}
        /\ frees = (IF todo = "free" THEN 0 ELSE 1) /\ cur_frame = count /\ silent

Types ==
  /\ system_tick \in Timer!Word /\ start \in Timer!Word
  /\ node \in [Nodes -> Timer!Node \cup {Timer!Free}]
  /\ lpfn \in [Nodes -> Acts]
  /\ count \in Nat /\ cur_frame \in Nat /\ cur_frame <= count

PlayInv ==
  /\ Types
  /\ \/ Empty
     \/ \E n \in Nodes : One(n) \/ Handing(n) \/ \E d \in Nodes : Two(n, d)

----------------------------------------------------------------------------
(* Arithmetic and records                                                  *)

LEMMA Periods == Second = 18 /\ FrameTicks = 2 /\ Width \in Nat /\ Width > 18
BY PlayAssumption DEF Second, FrameTicks, TIMER_TICK_PER_SECOND, fps

LEMMA Division ==
  ASSUME NEW a \in Int, NEW w \in Nat \ {0}
  PROVE  /\ a \div w \in Int /\ a % w \in 0 .. w - 1
         /\ a = w * (a \div w) + (a % w)
OBVIOUS

LEMMA AtLeast ==
  ASSUME NEW w \in Nat \ {0}, NEW d \in Int
  PROVE  w * d \in Int /\ (d >= 1 => w * d >= w) /\ (d <= -1 => w * d <= -w)
OBVIOUS

LEMMA Distribute ==
  ASSUME NEW w \in Nat, NEW j \in Int, NEW k \in Int
  PROVE  w * (j - k) = w * j - w * k /\ w * j \in Int /\ w * k \in Int
OBVIOUS

LEMMA Unique ==
  ASSUME NEW w \in Nat \ {0}, NEW k \in Int, NEW j \in Int,
         NEW r \in 0 .. w - 1, NEW s \in 0 .. w - 1,
         w * k + r = w * j + s
  PROVE  r = s
<1>1. w * (j - k) = r - s /\ j - k \in Int
  BY Distribute
<1>2. j - k = 0 \/ j - k >= 1 \/ j - k <= -1
  OBVIOUS
<1>3. CASE j - k = 0
  BY <1>1, <1>3
<1>4. CASE j - k >= 1
  BY <1>1, <1>4, AtLeast
<1>5. CASE j - k <= -1
  BY <1>1, <1>5, AtLeast
<1> QED BY <1>2, <1>3, <1>4, <1>5

\* Full turns of a counter.
Turned(a, q, w) == a + w * q

LEMMA Remainder ==
  ASSUME NEW a \in Int, NEW q \in Int, NEW w \in Nat \ {0}
  PROVE  Turned(a, q, w) \in Int /\ Turned(a, q, w) % w = a % w
<1> DEFINE b == a + w * q
           k == a \div w
           j == b \div w
           r == a % w
           s == b % w
<1>0. w * q \in Int /\ b \in Int
  OBVIOUS
<1>1. k \in Int /\ r \in 0 .. w - 1 /\ a = w * k + r
  BY Division
<1>2. j \in Int /\ s \in 0 .. w - 1 /\ b = w * j + s
  BY Division, <1>0
<1>3. b = a + w * q
  OBVIOUS
<1> HIDE DEF k, j, r, s, b
<1>4. w * (k + q) = w * k + w * q /\ w * k \in Int /\ k + q \in Int
  BY <1>1
<1>5. w * (k + q) + r = w * j + s
  BY <1>0, <1>1, <1>2, <1>3, <1>4
<1>6. r = s
  BY <1>1, <1>2, <1>4, <1>5, Unique
<1> QED BY <1>0, <1>6 DEF r, s, b, Turned

LEMMA Quotient ==
  ASSUME NEW a \in Int, NEW w \in Nat \ {0}
  PROVE  \E q \in Int : a % w = Turned(a, q, w)
<1>1. -(a \div w) \in Int /\ w * (-(a \div w)) = -(w * (a \div w))
  BY Division
<1>2. a % w = a + w * (-(a \div w))
  BY <1>1, Division
<1>3. QED BY <1>1, <1>2 DEF Turned

LEMMA Moved ==
  ASSUME NEW a \in Int, NEW b \in Int, NEW q \in Int, NEW w \in Nat
  PROVE  Turned(a, q, w) + b = Turned(a + b, q, w)
<1>1. w * q \in Int
  OBVIOUS
<1>2. QED BY <1>1 DEF Turned

LEMMA NextTick ==
  ASSUME NEW a \in Nat
  PROVE  ((a % Width) + 1) % Width = (a + 1) % Width
<1>1. Width \in Nat \ {0} /\ a \in Int
  BY Periods
<1>2. PICK q \in Int : a % Width = Turned(a, q, Width)
  BY <1>1, Quotient, Zenon
<1>3. Turned(a, q, Width) + 1 = Turned(a + 1, q, Width)
  BY <1>1, Moved
<1>4. Turned(a + 1, q, Width) % Width = (a + 1) % Width
  BY <1>1, Remainder
<1>5. QED BY <1>2, <1>3, <1>4, Zenon

LEMMA SinceStart ==
  ASSUME NEW s \in Nat, NEW e \in Nat
  PROVE  (((s + e) % Width) - s) % Width = e % Width
<1>1. Width \in Nat \ {0} /\ s + e \in Int
  BY Periods
<1>2. PICK q \in Int : (s + e) % Width = Turned(s + e, q, Width)
  BY <1>1, Quotient, Zenon
<1>3. Turned(s + e, q, Width) - s = Turned(e, q, Width)
  <2>1. Turned(s + e, q, Width) + (-s) = Turned((s + e) + (-s), q, Width)
    BY <1>1, Moved
  <2>2. Turned(s + e, q, Width) \in Int /\ (s + e) + (-s) = e
    BY <1>1, Remainder
  <2>3. QED BY <2>1, <2>2
<1>4. Turned(e, q, Width) % Width = e % Width
  BY <1>1, Remainder
<1>5. QED BY <1>2, <1>3, <1>4, Zenon

LEMMA Small ==
  ASSUME NEW a \in Nat, a < Width
  PROVE  a % Width = a
BY Periods

LEMMA Later ==
  ASSUME NEW e, Elapsed(e), start \in Timer!Word,
         system_tick' = (system_tick + 1) % Width, start' = start
  PROVE  Elapsed(e + 1)'
<1>1. e \in Nat /\ start \in Nat /\ start + e \in Nat
  BY Periods DEF Elapsed, Timer!Word
<1>2. system_tick' = ((start + e) + 1) % Width
  BY <1>1, NextTick DEF Elapsed
<1>3. (start + e) + 1 = start + (e + 1)
  BY <1>1
<1>4. QED BY <1>1, <1>2, <1>3 DEF Elapsed

LEMMA NodeType ==
  Timer!Node = [allocated : {TRUE}, interval : {18, 2, 1}, trigger_count : Timer!Word,
                count_down : Timer!Word, deleted : BOOLEAN, since : Timer!Word]
<1>1. {Second, FrameTicks, 1} \ {0} = {18, 2, 1}
  BY Periods
<1>2. QED BY <1>1 DEF Timer!Node

LEMMA Fields ==
  ASSUME NEW r \in Timer!Node, NEW c \in Timer!Word
  PROVE  /\ [r EXCEPT !.count_down = c] \in Timer!Node
         /\ [r EXCEPT !.deleted = TRUE] \in Timer!Node
<1>1. [r EXCEPT !.count_down = c] \in Timer!Node
  BY NodeType
<1>2. [r EXCEPT !.deleted = TRUE] \in Timer!Node
  BY NodeType
<1>3. QED BY <1>1, <1>2

LEMMA FieldTypes ==
  ASSUME NEW r \in Timer!Node
  PROVE  /\ r.interval \in {18, 2, 1} /\ r.interval \in Timer!Word \ {0}
         /\ r.trigger_count \in Timer!Word /\ r.count_down \in Timer!Word
         /\ r # Timer!Free
<1>1. {Second, FrameTicks, 1} \ {0} = {18, 2, 1}
  BY Periods
<1>2. \A i \in {18, 2, 1} : i \in Timer!Word \ {0}
  BY Periods DEF Timer!Word
<1>3. Timer!Node = [allocated : {TRUE}, interval : {18, 2, 1}, trigger_count : Timer!Word,
                    count_down : Timer!Word, deleted : BOOLEAN, since : Timer!Word]
  BY <1>1 DEF Timer!Node
<1>4. /\ r.interval \in {18, 2, 1} /\ r.interval \in Timer!Word \ {0}
      /\ r.trigger_count \in Timer!Word /\ r.count_down \in Timer!Word
  BY <1>2, <1>3
<1>5. r # Timer!Free
  BY <1>3 DEF Timer!Free
<1>6. QED BY <1>4, <1>5

LEMMA Constants ==
  Timer!Word' = Timer!Word /\ Timer!Node' = Timer!Node /\ Timer!Free' = Timer!Free
BY DEF Timer!Word, Timer!Node, Timer!Free

\* What is said of a node depends on that node, the film and the clock.
LEMMA Same ==
  ASSUME NEW n, node'[n] = node[n], lpfn'[n] = lpfn[n],
         UNCHANGED <<count, cur_frame, frees, silent, system_tick, start>>
  PROVE  /\ Waiting(n) => Waiting(n)'
         /\ Visited(n) => Visited(n)'
         /\ Fresh(n) => Fresh(n)'
         /\ Dead(n) => Dead(n)'
         /\ todo' = todo /\ Called(n) => Called(n)'
<1>1. Runs(n) => Runs(n)'
  BY DEF Runs, Interval
<1>2. \A k : Due(n, k) => Due(n, k)'
  BY DEF Due, Elapsed
<1>3. QED
  BY <1>1, <1>2 DEF Waiting, Visited, Fresh, Dead, Called

LEMMA Lists ==
  ASSUME NEW n \in Nodes, NEW d \in Nodes
  PROVE  /\ Head(<<n>>) = n /\ Tail(<<n>>) = <<>> /\ Append(<<>>, n) = <<n>>
         /\ Head(<<n, d>>) = n /\ Tail(<<n, d>>) = <<d>> /\ Append(<<n>>, d) = <<n, d>>
         /\ <<n>> \o <<>> = <<n>>
         /\ <<n>> # <<>> /\ <<n, d>> # <<>>
<1>1. Head(<<n>>) = n /\ Tail(<<n>>) = <<>> /\ Append(<<>>, n) = <<n>>
  OBVIOUS
<1>2. Head(<<n, d>>) = n /\ Tail(<<n, d>>) = <<d>> /\ Append(<<n>>, d) = <<n, d>>
  <2>1. Head(<<n, d>>) = n
    OBVIOUS
  <2>2. Tail(<<n, d>>) = <<d>>
    <3> DEFINE s == <<n, d>>
               t == <<d>>
    <3>1. s \in Seq(Nodes) /\ t \in Seq(Nodes) /\ s # <<>> /\ Len(s) = 2 /\ Len(t) = 1
      OBVIOUS
    <3>2. s[2] = d /\ t[1] = d
      OBVIOUS
    <3> HIDE DEF s, t
    <3>3. /\ Tail(s) \in Seq(Nodes) /\ Len(Tail(s)) = 1
          /\ \A i \in 1 .. Len(Tail(s)) : Tail(s)[i] = s[i + 1]
      BY <3>1, HeadTailProperties
    <3>4. \A i \in 1 .. Len(Tail(s)) : Tail(s)[i] = t[i]
      BY <3>2, <3>3
    <3>5. Tail(s) = t
      BY <3>1, <3>3, <3>4, SeqEqual
    <3>6. QED BY <3>5 DEF s, t
  <2>3. Append(<<n>>, d) = <<n, d>>
    <3> DEFINE s == <<n>>
               t == <<n, d>>
    <3>1. s \in Seq(Nodes) /\ t \in Seq(Nodes) /\ Len(s) = 1 /\ Len(t) = 2
      OBVIOUS
    <3>2. s[1] = n /\ t[1] = n /\ t[2] = d
      OBVIOUS
    <3> HIDE DEF s, t
    <3>3. /\ Append(s, d) \in Seq(Nodes) /\ Len(Append(s, d)) = 2
          /\ Append(s, d)[1] = n /\ Append(s, d)[2] = d
      <4>1. /\ Append(s, d) \in Seq(Nodes) /\ Len(Append(s, d)) = Len(s) + 1
            /\ \A i \in 1 .. Len(s) : Append(s, d)[i] = s[i]
            /\ Append(s, d)[Len(s) + 1] = d
        <5>1. s \in Seq(Nodes) /\ d \in Nodes
          BY <3>1
        <5>2. QED BY <5>1, AppendProperties
      <4>2. QED BY <3>1, <3>2, <4>1
    <3>4. \A i \in 1 .. Len(t) : Append(s, d)[i] = t[i]
      BY <3>1, <3>2, <3>3
    <3>5. Append(s, d) = t
      BY <3>1, <3>3, <3>4, SeqEqual
    <3>6. QED BY <3>5 DEF s, t
  <2>4. QED BY <2>1, <2>2, <2>3
<1>3. <<n>> \o <<>> = <<n>>
  BY ConcatEmptySeq
<1>4. <<n>> # <<>> /\ <<n, d>> # <<>>
  OBVIOUS
<1>5. QED BY <1>1, <1>2, <1>3, <1>4

\* Where the cursor of a running walk can be.
LEMMA AtCursor ==
  ASSUME PlayInv, Timer!Visiting
  PROVE  \E n \in Nodes :
           /\ todo = "idle"
           /\ \/ Only({n}) /\ List(<<>>, <<n>>) /\ Visited(n)
              \/ \E d \in Nodes :
                   /\ n # d /\ Only({n, d}) /\ Dead(d)
                   /\ \/ List(<<>>, <<n, d>>) /\ Visited(n) /\ Fresh(n)
                      \/ List(<<n>>, <<d>>) /\ Waiting(n)
BY Lists DEF PlayInv, Timer!Visiting, Empty, One, Two, Handing, Between, List

----------------------------------------------------------------------------
(* The handler                                                             *)

LEMMA TickStep ==
  ASSUME PlayInv, Tick
  PROVE  PlayInv'
<1>1. /\ pc = "main" /\ pc' = "walk" /\ passed' = <<>> /\ ahead' = passed
      /\ system_tick' = (system_tick + 1) % Width
      /\ UNCHANGED <<node, lpfn, todo, count, cur_frame, frees, silent, start>>
  BY DEF Tick, Timer!Tick, videoVars
<1>2. Types'
  <2>1. system_tick' \in Timer!Word
    BY <1>1, Periods DEF PlayInv, Types, Timer!Word
  <2>2. QED BY <1>1, <2>1 DEF PlayInv, Types, Timer!Node, Timer!Word
<1>3. ASSUME NEW n \in Nodes, Waiting(n)
      PROVE  Visited(n)'
  <2>1. Runs(n)'
    BY <1>1, <1>3 DEF Waiting, Runs, Interval
  <2>2. node[n].count_down \in 1 .. node[n].interval /\ node[n].interval \in {18, 2, 1}
    BY <1>3, FieldTypes DEF Waiting, Runs, Interval
  <2> DEFINE k == node[n].count_down
  <2>3. ASSUME lpfn[n] = "countdown"
        PROVE  /\ node[n].trigger_count \in 0 .. 3 /\ cur_frame = 0
               /\ Elapsed(Second * (node[n].trigger_count + 1) - (k - 1))'
    <3>1. /\ node[n].trigger_count \in 0 .. 3 /\ cur_frame = 0
          /\ Elapsed(Second * (node[n].trigger_count + 1) - k)
      BY <1>3, <2>3 DEF Waiting, Due
    <3>2. PICK e \in Nat : e = Second * (node[n].trigger_count + 1) - k
      BY <3>1 DEF Elapsed
    <3>3. Elapsed(e + 1)'
      BY <1>1, <3>1, <3>2, Later DEF PlayInv, Types
    <3>4. e + 1 = Second * (node[n].trigger_count + 1) - (k - 1)
      BY <2>2, <3>1, <3>2, Periods
    <3>5. QED BY <1>1, <3>1, <3>3, <3>4 DEF Elapsed
  <2>4. ASSUME lpfn[n] = "frame"
        PROVE  Elapsed(4 * Second + FrameTicks * (cur_frame + 1) - (k - 1))'
    <3>1. Elapsed(4 * Second + FrameTicks * (cur_frame + 1) - k)
      BY <1>3, <2>4 DEF Waiting, Due
    <3>2. PICK e \in Nat : e = 4 * Second + FrameTicks * (cur_frame + 1) - k
      BY <3>1 DEF Elapsed
    <3>3. Elapsed(e + 1)'
      BY <1>1, <3>1, <3>2, Later DEF PlayInv, Types
    <3>4. e + 1 = 4 * Second + FrameTicks * (cur_frame + 1) - (k - 1)
      BY <2>2, <3>2, Periods DEF PlayInv, Types
    <3>5. QED BY <1>1, <3>3, <3>4 DEF Elapsed
  <2>5. QED
    BY <1>1, <2>1, <2>2, <2>3, <2>4 DEF Visited, Due
<1>4. ASSUME NEW n \in Nodes PROVE (Fresh(n) => Fresh(n)') /\ (Dead(n) => Dead(n)')
  BY <1>1 DEF Fresh, Dead, Timer!Node, Timer!Word
<1>5. CASE Empty
  BY <1>1, <1>2, <1>5 DEF PlayInv, Empty, List, Only, Timer!Free
<1>6. ASSUME NEW n \in Nodes, One(n)
      PROVE  PlayInv'
  <2>1. Only({n}) /\ Between /\ List(<<n>>, <<>>) /\ Waiting(n)
    BY <1>1, <1>6, Lists DEF One, Between, List
  <2>2. One(n)'
    BY <1>1, <1>3, <2>1 DEF One, Between, List, Only, Timer!Free
  <2>3. QED BY <1>2, <2>2 DEF PlayInv
<1>7. ASSUME NEW n \in Nodes, NEW d \in Nodes, Two(n, d)
      PROVE  PlayInv'
  <2>1. /\ n # d /\ Only({n, d}) /\ Dead(d)
        /\ Between /\ List(<<n, d>>, <<>>) /\ Waiting(n) /\ Fresh(n)
    BY <1>1, <1>7, Lists DEF Two, Between, List
  <2>2. Two(n, d)'
    BY <1>1, <1>3, <1>4, <2>1 DEF Two, Between, List, Only, Timer!Free
  <2>3. QED BY <1>2, <2>2 DEF PlayInv
<1>8. QED
  BY <1>1, <1>5, <1>6, <1>7 DEF PlayInv, Handing

LEMMA DoneStep ==
  ASSUME PlayInv, Timer!Done, UNCHANGED <<lpfn, todo, videoVars, start>>
  PROVE  PlayInv'
<1>1. /\ pc = "walk" /\ pc' = "main" /\ ahead = <<>>
      /\ UNCHANGED << system_tick, node, passed, ahead, lpfn, todo,
                      count, cur_frame, frees, silent, start >>
  BY DEF Timer!Done, videoVars
<1>2. Types'
  BY <1>1 DEF PlayInv, Types, Timer!Node, Timer!Word
<1>3. CASE Empty
  BY <1>1, <1>2, <1>3 DEF PlayInv, Empty, List, Only, Timer!Free
<1>4. ASSUME NEW n \in Nodes, One(n)
      PROVE  One(n)'
  <2>1. Only({n}) /\ Between /\ List(<<n>>, <<>>) /\ Waiting(n)
    BY <1>1, <1>4, Lists DEF One, Between, List
  <2>2. Waiting(n)'
    BY <1>1, <2>1, Same
  <2>3. QED BY <1>1, <2>1, <2>2 DEF One, Between, List, Only, Timer!Free
<1>5. ASSUME NEW n \in Nodes, NEW d \in Nodes, Two(n, d)
      PROVE  Two(n, d)'
  <2>1. /\ n # d /\ Only({n, d}) /\ Dead(d)
        /\ Between /\ List(<<n, d>>, <<>>) /\ Waiting(n) /\ Fresh(n)
    BY <1>1, <1>5, Lists DEF Two, Between, List
  <2>2. Waiting(n)' /\ Fresh(n)' /\ Dead(d)'
    BY <1>1, <2>1, Same
  <2>3. QED BY <1>1, <2>1, <2>2 DEF Two, Between, List, Only, Timer!Free
<1>6. QED
  BY <1>1, <1>2, <1>3, <1>4, <1>5 DEF PlayInv, Handing

\* A walk stops at a marked node only once the live one is behind it.
LEMMA UnlinkStep ==
  ASSUME PlayInv, Timer!Unlink, UNCHANGED <<lpfn, todo, videoVars, start>>
  PROVE  PlayInv'
<1>1. /\ pc = "walk" /\ Timer!Visiting /\ node[Head(ahead)].deleted
      /\ node' = [node EXCEPT ![Head(ahead)] = Timer!Free] /\ ahead' = Tail(ahead)
      /\ UNCHANGED << system_tick, passed, pc, lpfn, todo,
                      count, cur_frame, frees, silent, start >>
  BY DEF Timer!Unlink, Timer!Visiting, Timer!cur, videoVars
<1>2. PICK n \in Nodes, d \in Nodes :
        /\ todo = "idle" /\ n # d /\ Only({n, d}) /\ Dead(d)
        /\ List(<<n>>, <<d>>) /\ Waiting(n)
  BY <1>1, AtCursor, Lists DEF List, Visited, Waiting, Runs
<1>3. /\ node' = [node EXCEPT ![d] = Timer!Free] /\ ahead' = <<>> /\ passed' = <<n>>
      /\ DOMAIN node = Nodes
  BY <1>1, <1>2, Lists DEF List, PlayInv, Types
<1>4. Waiting(n)'
  BY <1>1, <1>2, <1>3, Same
<1>5. Only({n})'
  BY <1>2, <1>3 DEF Only, Timer!Free
<1>6. Types'
  BY <1>1, <1>3 DEF PlayInv, Types, Timer!Node, Timer!Word, Timer!Free
<1>7. One(n)'
  BY <1>1, <1>2, <1>3, <1>4, <1>5 DEF One, Between, List
<1>8. QED BY <1>6, <1>7 DEF PlayInv

\* The walk has come to the live node.
LEMMA AtLive ==
  ASSUME PlayInv, Timer!Visiting, ~node[Head(ahead)].deleted
  PROVE  \E n \in Nodes :
           /\ Head(ahead) = n /\ pc = "walk" /\ todo = "idle"
           /\ passed = <<>> /\ Visited(n)
           /\ node[n].count_down \in 1 .. node[n].interval
           /\ node[n].interval \in {18, 2, 1}
           /\ Timer!Counted = node[n].count_down - 1
           /\ \/ Only({n}) /\ ahead = <<n>>
              \/ \E d \in Nodes :
                   n # d /\ Only({n, d}) /\ Dead(d) /\ ahead = <<n, d>> /\ Fresh(n)
<1>1. PICK n \in Nodes :
        /\ todo = "idle"
        /\ \/ Only({n}) /\ List(<<>>, <<n>>) /\ Visited(n)
           \/ \E d \in Nodes :
                /\ n # d /\ Only({n, d}) /\ Dead(d)
                /\ \/ List(<<>>, <<n, d>>) /\ Visited(n) /\ Fresh(n)
                   \/ List(<<n>>, <<d>>) /\ Waiting(n)
  BY AtCursor
<1>2. ~\E d \in Nodes : Dead(d) /\ List(<<n>>, <<d>>)
  BY Lists DEF List, Dead
<1>3. /\ Head(ahead) = n /\ passed = <<>> /\ Visited(n)
      /\ \/ Only({n}) /\ ahead = <<n>>
         \/ \E d \in Nodes :
              n # d /\ Only({n, d}) /\ Dead(d) /\ ahead = <<n, d>> /\ Fresh(n)
  BY <1>1, <1>2, Lists DEF List
<1>4. node[n].count_down \in 1 .. node[n].interval /\ node[n].interval \in {18, 2, 1}
  BY <1>3, FieldTypes DEF Visited, Runs
<1>5. Timer!Counted = node[n].count_down - 1
  <2>1. Timer!Counted = (node[n].count_down - 1) % Width
    BY <1>3 DEF Timer!Counted, Timer!cur
  <2>2. node[n].count_down - 1 \in Nat /\ node[n].count_down - 1 < Width
    BY <1>4, Periods
  <2>3. QED BY <2>1, <2>2, Small
<1>6. QED
  BY <1>1, <1>3, <1>4, <1>5 DEF Timer!Visiting

\* Its count is not at its end yet.
LEMMA CountDownStep ==
  ASSUME PlayInv, Timer!CountDown, UNCHANGED <<lpfn, todo, videoVars, start>>
  PROVE  PlayInv'
<1>1. PICK n \in Nodes :
        /\ Head(ahead) = n /\ pc = "walk" /\ todo = "idle" /\ passed = <<>> /\ Visited(n)
        /\ node[n].count_down \in 1 .. node[n].interval /\ node[n].interval \in {18, 2, 1}
        /\ Timer!Counted = node[n].count_down - 1
        /\ \/ Only({n}) /\ ahead = <<n>>
           \/ \E d \in Nodes : n # d /\ Only({n, d}) /\ Dead(d) /\ ahead = <<n, d>> /\ Fresh(n)
  BY AtLive DEF Timer!CountDown, Timer!cur
<1>2. /\ Timer!Counted # 0
      /\ node' = [node EXCEPT ![n].count_down = Timer!Counted]
      /\ ahead' = Tail(ahead) /\ passed' = Append(passed, n)
      /\ UNCHANGED << system_tick, pc, lpfn, todo,
                      count, cur_frame, frees, silent, start >>
  BY <1>1 DEF Timer!CountDown, Timer!Advance, Timer!cur, videoVars
<1>3. node[n].count_down \in 1 .. node[n].interval /\ node[n].interval \in {18, 2, 1}
  BY <1>1
<1>4. Timer!Counted = node[n].count_down - 1
  BY <1>1
<1>5. /\ node' = [node EXCEPT ![n].count_down = node[n].count_down - 1]
      /\ node[n].count_down # 1 /\ DOMAIN node = Nodes
  BY <1>2, <1>3, <1>4 DEF PlayInv, Types
<1>6. /\ node'[n] = [node[n] EXCEPT !.count_down = node[n].count_down - 1]
      /\ \A m \in Nodes \ {n} : node'[m] = node[m]
  BY <1>1, <1>5
<1>7. node'[n] \in Timer!Node
  <2>1. node[n].count_down - 1 \in Timer!Word /\ node[n] \in Timer!Node
    BY <1>1, <1>3, Periods DEF Timer!Word, Visited, Runs
  <2>2. QED BY <1>6, <2>1, Fields
<1>8. /\ node'[n].count_down = node[n].count_down - 1
      /\ node'[n].interval = node[n].interval /\ node'[n].deleted = node[n].deleted
      /\ node'[n].trigger_count = node[n].trigger_count
  BY <1>1, <1>6 DEF Visited, Runs, Timer!Node
<1>9. Waiting(n)'
  <2>1. Runs(n)'
    BY <1>2, <1>1, <1>7, <1>8 DEF Visited, Runs, Interval
  <2>2. PICK k \in Nat : k = node[n].count_down - 1
    BY <1>3
  <2>3. Due(n, k)'
    BY <1>2, <1>1, <1>8, <2>2 DEF Visited, Due, Elapsed
  <2>4. QED
    BY <1>3, <1>5, <1>8, <2>1, <2>2, <2>3 DEF Waiting
<1>10. Types'
  BY <1>2, <1>5, <1>6, <1>7 DEF PlayInv, Types, Timer!Word, Timer!Free, Timer!Node
<1>11. CASE Only({n}) /\ ahead = <<n>>
  <2>1. One(n)'
    BY <1>2, <1>1, <1>6, <1>9, <1>11, Lists DEF One, Only, Between, List, Timer!Free
  <2>2. QED BY <1>1, <1>10, <2>1 DEF PlayInv
<1>12. ASSUME NEW d \in Nodes, n # d, Only({n, d}), Dead(d), ahead = <<n, d>>
       PROVE  Two(n, d)'
  <2>1. Dead(d)'
    BY <1>6, <1>12 DEF Dead, Timer!Node, Timer!Word
  <2>2. Only({n, d})'
    BY <1>6, <1>12 DEF Only, Timer!Free
  <2>3. passed' = <<n>> /\ ahead' = <<d>>
    BY <1>2, <1>1, <1>12, Lists
  <2>4. QED
    BY <1>2, <1>1, <1>9, <1>12, <2>1, <2>2, <2>3 DEF Two, Between, List
<1>13. QED BY <1>1, <1>10, <1>11, <1>12 DEF PlayInv

\* Its count is: a second timer would still have a tick to go, but for the
\* clock's, which comes every tick.
LEMMA CallStep ==
  ASSUME PlayInv, CallBack
  PROVE  PlayInv'
<1>1. PICK n \in Nodes :
        /\ Head(ahead) = n /\ pc = "walk" /\ todo = "idle" /\ passed = <<>> /\ Visited(n)
        /\ node[n].count_down \in 1 .. node[n].interval /\ node[n].interval \in {18, 2, 1}
        /\ Timer!Counted = node[n].count_down - 1
        /\ \/ Only({n}) /\ ahead = <<n>>
           \/ \E d \in Nodes : n # d /\ Only({n, d}) /\ Dead(d) /\ ahead = <<n, d>> /\ Fresh(n)
  BY AtLive DEF CallBack, Timer!Call, Timer!cur
<1>2. /\ Timer!Counted = 0 /\ pc' = "call" /\ todo' = "enter"
      /\ node' = [node EXCEPT ![n].count_down = 0]
      /\ UNCHANGED << system_tick, passed, ahead, lpfn,
                      count, cur_frame, frees, silent, start >>
  BY <1>1 DEF CallBack, Timer!Call, Timer!cur, videoVars
<1>3. node[n].count_down = 1 /\ DOMAIN node = Nodes
  BY <1>1, <1>2 DEF PlayInv, Types
<1>4. /\ node'[n] = [node[n] EXCEPT !.count_down = 0]
      /\ \A m \in Nodes \ {n} : node'[m] = node[m]
  BY <1>2, <1>3
<1>5. node'[n] \in Timer!Node
  <2>1. 0 \in Timer!Word /\ node[n] \in Timer!Node
    BY <1>1, Periods DEF Timer!Word, Visited, Runs
  <2>2. QED BY <1>4, <2>1, Fields
<1>6. /\ node'[n].interval = node[n].interval /\ node'[n].deleted = node[n].deleted
      /\ node'[n].trigger_count = node[n].trigger_count
  BY <1>1, <1>4 DEF Visited, Runs, Timer!Node
<1>7. Called(n)'
  <2>1. Runs(n)'
    BY <1>1, <1>2, <1>5, <1>6 DEF Visited, Runs, Interval
  <2>2. Due(n, 0)'
    BY <1>1, <1>2, <1>3, <1>6 DEF Visited, Due, Elapsed
  <2>3. QED BY <1>2, <2>1, <2>2 DEF Called
<1>8. Types'
  BY <1>2, <1>4, <1>5 DEF PlayInv, Types, Timer!Word, Timer!Free, Timer!Node
<1>9. CASE Only({n}) /\ ahead = <<n>>
  <2>1. One(n)'
    BY <1>1, <1>2, <1>4, <1>7, <1>9 DEF One, Only, List, Timer!Free
  <2>2. QED BY <1>8, <2>1 DEF PlayInv
<1>10. ASSUME NEW d \in Nodes, n # d, Only({n, d}), Dead(d), ahead = <<n, d>>, Fresh(n)
       PROVE  Two(n, d)'
  <2>1. Dead(d)'
    BY <1>4, <1>10 DEF Dead, Timer!Node, Timer!Word
  <2>2. Only({n, d})'
    BY <1>4, <1>10 DEF Only, Timer!Free
  <2>3. lpfn[n] = "clock"
    BY <1>1, <1>3, <1>10, Periods DEF Fresh, Visited, Runs, Interval, PlayInv, Types, Acts
  <2>4. QED
    BY <1>1, <1>2, <1>7, <1>10, <2>1, <2>2, <2>3 DEF Two, List
<1>11. QED BY <1>1, <1>8, <1>9, <1>10 DEF PlayInv

\* Its callback returns: the marked node, if it is the one that handed over,
\* stays linked behind the new one.
LEMMA ReturnStep ==
  ASSUME PlayInv, Return
  PROVE  PlayInv'
<1>1. /\ pc = "call" /\ todo = "end" /\ pc' = "walk" /\ todo' = "idle"
      /\ passed' = Append(passed, Head(ahead)) /\ ahead' = Tail(ahead)
      /\ UNCHANGED <<system_tick, lpfn, count, cur_frame, frees, silent, start>>
  BY DEF Return, Timer!Return, Timer!Advance, Timer!cur, videoVars
<1>2. PICK c \in Nodes :
        /\ Head(ahead) = c
        /\ \/ One(c) /\ List(<<>>, <<c>>) /\ Called(c)
           \/ \E d \in Nodes : Two(c, d) /\ List(<<>>, <<c, d>>) /\ Called(c)
           \/ \E n \in Nodes : Two(n, c) /\ List(<<n>>, <<c>>) /\ Waiting(n) /\ Fresh(n)
  <2>1. \E n \in Nodes : One(n) \/ \E d \in Nodes : Two(n, d)
    BY <1>1 DEF PlayInv, Empty, Handing
  <2>2. ASSUME NEW n \in Nodes, One(n)
        PROVE  Head(ahead) = n /\ List(<<>>, <<n>>) /\ Called(n)
    BY <1>1, <2>2, Lists DEF One, Between, List
  <2>3. ASSUME NEW n \in Nodes, NEW d \in Nodes, Two(n, d)
        PROVE  \/ Head(ahead) = n /\ List(<<>>, <<n, d>>) /\ Called(n)
               \/ Head(ahead) = d /\ List(<<n>>, <<d>>) /\ Waiting(n) /\ Fresh(n)
    BY <1>1, <2>3, Lists DEF Two, Between, List
  <2>4. QED BY <2>1, <2>2, <2>3
<1>3. node[c] \in Timer!Node /\ DOMAIN node = Nodes
  BY <1>2 DEF Called, Runs, Two, Dead, PlayInv, Types
<1> DEFINE t == (node[c].trigger_count + 1) % Width
<1>4. t \in Timer!Word /\ node[c].interval \in Timer!Word \ {0}
  BY <1>3, FieldTypes, Periods DEF Timer!Word
<1>5. /\ node'[c] = [node[c] EXCEPT !.trigger_count = t, !.count_down = node[c].interval]
      /\ \A m \in Nodes \ {c} : node'[m] = node[m]
      /\ DOMAIN node' = Nodes
  BY <1>2, <1>3 DEF Return, Timer!Return, Timer!cur
<1>6. node'[c] \in Timer!Node
  <2> HIDE DEF t
  <2>1. PICK r \in Timer!Node, i \in Timer!Word : r = node[c] /\ i = node[c].interval
    BY <1>3, <1>4
  <2>2. node'[c] = [r EXCEPT !.trigger_count = t, !.count_down = i]
    BY <1>5, <2>1
  <2>3. [r EXCEPT !.trigger_count = t, !.count_down = i] \in Timer!Node
    BY <1>4, NodeType
  <2>4. QED BY <2>2, <2>3
<1>7. /\ node'[c].interval = node[c].interval /\ node'[c].deleted = node[c].deleted
      /\ node'[c].trigger_count = t /\ node'[c].count_down = node[c].interval
  BY <1>3, <1>5 DEF Timer!Node
<1> HIDE DEF t
<1>8. Types'
  <2>1. node' \in [Nodes -> Timer!Node \cup {Timer!Free}]
    <3>1. node' = [m \in Nodes |-> node'[m]]
      BY <1>2, <1>3 DEF Return, Timer!Return, Timer!cur
    <3>2. \A m \in Nodes : node'[m] \in Timer!Node \cup {Timer!Free}
      BY <1>5, <1>6 DEF PlayInv, Types
    <3>3. QED BY <3>1, <3>2
  <2>2. QED
    BY <1>1, <2>1, Constants DEF PlayInv, Types
<1>9. ASSUME Called(c)
      PROVE  Waiting(c)' /\ Fresh(c)'
  <2>1. Runs(c)'
    BY <1>1, <1>6, <1>7, <1>9 DEF Called, Runs, Interval
  <2>2. PICK k \in {18, 2, 1} : k = node[c].interval /\ k = Interval(lpfn[c])
    BY <1>3, <1>9, FieldTypes DEF Called, Runs
  <2>3. ASSUME lpfn[c] = "countdown"
        PROVE  /\ node'[c].trigger_count \in 0 .. 3 /\ cur_frame' = 0
               /\ Elapsed(Second * (node[c].trigger_count + 1) - k)'
    <3>1. /\ node[c].trigger_count \in 0 .. 3 /\ node[c].trigger_count < 3 /\ cur_frame = 0
          /\ Elapsed(Second * (node[c].trigger_count + 1))
      BY <1>1, <1>9, <2>3, Periods DEF Called, Due, Elapsed
    <3>2. t = node[c].trigger_count + 1
      BY <3>1, Small, Periods DEF t
    <3>3. k = Second
      BY <2>2, <2>3 DEF Interval
    <3>4. PICK e \in Nat : e = Second * (node[c].trigger_count + 1) /\ Elapsed(e)
      BY <3>1 DEF Elapsed
    <3>5. e = Second * (node'[c].trigger_count + 1) - k
      BY <1>7, <3>1, <3>2, <3>3, <3>4, Periods
    <3>6. QED BY <1>1, <1>7, <3>1, <3>2, <3>4, <3>5 DEF Elapsed
  <2>4. ASSUME lpfn[c] = "frame"
        PROVE  Elapsed(4 * Second + FrameTicks * (cur_frame + 1) - k)'
    <3>1. k = FrameTicks
      BY <2>2, <2>4 DEF Interval
    <3>2. QED
      BY <1>1, <1>9, <2>4, <3>1 DEF Called, Due, Elapsed
  <2>5. Due(c, k)'
    BY <1>1, <2>3, <2>4 DEF Due
  <2>6. QED
    BY <1>7, <2>1, <2>2, <2>5 DEF Waiting, Fresh
<1>10. CASE One(c) /\ List(<<>>, <<c>>) /\ Called(c)
  <2>1. One(c)'
    BY <1>1, <1>2, <1>5, <1>9, <1>10, Lists DEF One, Only, Between, List, Timer!Free
  <2>2. QED BY <1>8, <2>1 DEF PlayInv
<1>11. ASSUME NEW d \in Nodes, Two(c, d), List(<<>>, <<c, d>>), Called(c)
       PROVE  Two(c, d)'
  <2>1. Dead(d)'
    BY <1>5, <1>11 DEF Two, Dead, Timer!Node, Timer!Word
  <2>2. Only({c, d})'
    BY <1>5, <1>11 DEF Two, Only, Timer!Free
  <2>3. passed' = <<c>> /\ ahead' = <<d>>
    BY <1>1, <1>2, <1>11, Lists DEF List
  <2>4. QED
    BY <1>1, <1>9, <1>11, <2>1, <2>2, <2>3 DEF Two, Between, List
<1>12. ASSUME NEW n \in Nodes, Two(n, c), List(<<n>>, <<c>>), Waiting(n), Fresh(n)
       PROVE  Two(n, c)'
  <2>1. n # c /\ Dead(c)
    BY <1>12 DEF Two
  <2>2. Dead(c)'
    BY <1>6, <1>7, <2>1 DEF Dead
  <2>3. Waiting(n)' /\ Fresh(n)'
    BY <1>1, <1>5, <1>12, <2>1, Same
  <2>4. Only({n, c})'
    BY <1>5, <1>12 DEF Two, Only, Timer!Free
  <2>5. passed' = <<n, c>> /\ ahead' = <<>>
    BY <1>1, <1>2, <1>12, Lists DEF List
  <2>6. QED
    BY <1>1, <2>1, <2>2, <2>3, <2>4, <2>5 DEF Two, Between, List
<1>13. QED BY <1>2, <1>8, <1>10, <1>11, <1>12 DEF PlayInv

----------------------------------------------------------------------------
(* The callbacks                                                           *)

\* At the entry of a callback.
LEMMA AtEnter ==
  ASSUME PlayInv, pc = "call", todo = "enter"
  PROVE  \E n \in Nodes :
           /\ Head(ahead) = n /\ Called(n)
           /\ \/ Only({n}) /\ List(<<>>, <<n>>)
              \/ \E d \in Nodes :
                   /\ n # d /\ Only({n, d}) /\ Dead(d) /\ List(<<>>, <<n, d>>)
                   /\ lpfn[n] = "clock"
<1>1. \E n \in Nodes : One(n) \/ \E d \in Nodes : Two(n, d)
  BY DEF PlayInv, Empty, Handing
<1>2. ASSUME NEW n \in Nodes, One(n)
      PROVE  Head(ahead) = n /\ Called(n) /\ Only({n}) /\ List(<<>>, <<n>>)
  BY <1>2, Lists DEF One, Between, List
<1>3. ASSUME NEW n \in Nodes, NEW d \in Nodes, Two(n, d)
      PROVE  /\ Head(ahead) = n /\ Called(n) /\ lpfn[n] = "clock"
             /\ n # d /\ Only({n, d}) /\ Dead(d) /\ List(<<>>, <<n, d>>)
  BY <1>3, Lists DEF Two, Between, List
<1>4. QED BY <1>1, <1>2, <1>3

\* Where it hands over.
LEMMA AtHanding ==
  ASSUME PlayInv, pc = "call", todo \in {"add", "free"}
  PROVE  \E d \in Nodes : Handing(d) /\ Head(ahead) = d
<1>1. \E d \in Nodes : Handing(d)
  BY DEF PlayInv, Empty, One, Two, Between
<1>2. QED BY <1>1, Lists DEF Handing, List

LEMMA PrintStep ==
  ASSUME PlayInv, CountdownPrint \/ ShowTime
  PROVE  PlayInv'
<1>1. /\ pc = "call" /\ todo = "enter" /\ todo' = "end"
      /\ UNCHANGED << system_tick, node, passed, ahead, pc, lpfn,
                      count, cur_frame, frees, silent, start >>
  BY DEF CountdownPrint, ShowTime, InCallback, timerVars, videoVars
<1>2. PICK n \in Nodes :
        /\ Head(ahead) = n /\ Called(n)
        /\ \/ Only({n}) /\ List(<<>>, <<n>>)
           \/ \E d \in Nodes :
                /\ n # d /\ Only({n, d}) /\ Dead(d) /\ List(<<>>, <<n, d>>)
                /\ lpfn[n] = "clock"
  BY <1>1, AtEnter
<1>3. \/ lpfn[n] = "countdown" /\ node[n].trigger_count < 3
      \/ lpfn[n] = "clock"
  BY <1>2 DEF CountdownPrint, ShowTime, InCallback, Waits, arg, cur, Timer!cur
<1>4. Called(n)'
  <2>1. Runs(n)'
    BY <1>1, <1>2, Constants DEF Called, Runs, Interval
  <2>2. Due(n, 0)'
    BY <1>1, <1>2 DEF Called, Due, Elapsed
  <2>3. QED BY <1>1, <1>3, <2>1, <2>2 DEF Called
<1>5. Types'
  BY <1>1, Constants DEF PlayInv, Types
<1>6. CASE Only({n}) /\ List(<<>>, <<n>>)
  <2>1. One(n)'
    BY <1>1, <1>4, <1>6, Constants DEF One, Only, List
  <2>2. QED BY <1>5, <2>1 DEF PlayInv
<1>7. ASSUME NEW d \in Nodes, n # d, Only({n, d}), Dead(d), List(<<>>, <<n, d>>),
             lpfn[n] = "clock"
      PROVE  Two(n, d)'
  BY <1>1, <1>4, <1>7, Constants DEF Two, Only, List, Dead
<1>8. QED BY <1>2, <1>5, <1>6, <1>7 DEF PlayInv

LEMMA ShowFrameStep ==
  ASSUME PlayInv, ShowFrame
  PROVE  PlayInv'
<1>1. /\ pc = "call" /\ todo = "enter" /\ todo' = "end" /\ lpfn[Head(ahead)] = "frame"
      /\ cur_frame < count /\ cur_frame' = cur_frame + 1
      /\ UNCHANGED << system_tick, node, passed, ahead, pc, lpfn,
                      count, frees, silent, start >>
  BY DEF ShowFrame, InCallback, HasNext, timerVars, cur, Timer!cur
<1>2. PICK n \in Nodes :
        Head(ahead) = n /\ Called(n) /\ lpfn[n] = "frame" /\ Only({n}) /\ List(<<>>, <<n>>)
  BY <1>1, AtEnter
<1>3. Called(n)'
  <2>1. Runs(n)'
    BY <1>1, <1>2, Constants DEF Called, Runs, Interval
  <2>2. PICK e \in Nat : Elapsed(e) /\ e = 4 * Second + FrameTicks * (cur_frame + 1) - 0
    BY <1>1, <1>2 DEF Called, Due, Elapsed
  <2>3. Elapsed(e)' /\ e = 4 * Second + FrameTicks * (cur_frame' + 1) - FrameTicks
    BY <1>1, <2>2, Periods DEF Elapsed, PlayInv, Types
  <2>4. QED BY <1>1, <1>2, <2>1, <2>3 DEF Called, Due
<1>4. Types'
  BY <1>1, Constants DEF PlayInv, Types
<1>5. One(n)'
  BY <1>1, <1>2, <1>3, Constants DEF One, Only, List
<1>6. QED BY <1>4, <1>5 DEF PlayInv

\* What remove(h) does to the node whose callback runs.
LEMMA Marked ==
  ASSUME PlayInv, NEW n \in Nodes, node[n] \in Timer!Node,
         node' = [node EXCEPT ![n].deleted = TRUE]
  PROVE  /\ Dead(n)'
         /\ \A m \in Nodes \ {n} : node'[m] = node[m]
         /\ node' \in [Nodes -> Timer!Node \cup {Timer!Free}]
<1>1. node \in [Nodes -> Timer!Node \cup {Timer!Free}]
  BY DEF PlayInv, Types
<1>2. node'[n] = [node[n] EXCEPT !.deleted = TRUE]
  BY <1>1
<1>3. PICK r \in Timer!Node : r = node[n]
  OBVIOUS
<1>4. [r EXCEPT !.deleted = TRUE] \in Timer!Node /\ [r EXCEPT !.deleted = TRUE].deleted
  BY NodeType
<1>5. node'[n] \in Timer!Node /\ node'[n].deleted
  BY <1>2, <1>3, <1>4, Zenon
<1>6. QED BY <1>1, <1>5, Constants DEF Dead

LEMMA CountdownOverStep ==
  ASSUME PlayInv, CountdownOver
  PROVE  PlayInv'
<1>1. /\ pc = "call" /\ todo = "enter" /\ todo' = "add" /\ lpfn[Head(ahead)] = "countdown"
      /\ ~(node[Head(ahead)].trigger_count < 3)
      /\ node' = [node EXCEPT ![Head(ahead)].deleted = TRUE]
      /\ UNCHANGED << system_tick, passed, ahead, pc, lpfn,
                      count, cur_frame, frees, silent, start >>
  BY DEF CountdownOver, InCallback, RemoveSelf, Timer!Remove, Waits, arg, cur, Timer!cur
<1>2. PICK n \in Nodes :
        Head(ahead) = n /\ Called(n) /\ lpfn[n] = "countdown" /\ Only({n}) /\ List(<<>>, <<n>>)
  BY <1>1, AtEnter
<1>3. node[n] \in Timer!Node /\ node' = [node EXCEPT ![n].deleted = TRUE]
  BY <1>1, <1>2 DEF Called, Runs
<1>4. /\ Dead(n)' /\ (\A m \in Nodes \ {n} : node'[m] = node[m])
      /\ node' \in [Nodes -> Timer!Node \cup {Timer!Free}]
  BY <1>3, Marked
<1>5. cur_frame = 0 /\ frees = 0 /\ Elapsed(4 * Second)
  <2>1. /\ node[n].trigger_count = 3 /\ cur_frame = 0
        /\ Elapsed(Second * (node[n].trigger_count + 1) - 0)
    BY <1>1, <1>2 DEF Called, Due
  <2>2. Second * (node[n].trigger_count + 1) - 0 = 4 * Second
    BY <2>1, Periods
  <2>3. frees = 0
    BY <1>2 DEF Called, Runs
  <2>4. QED BY <2>1, <2>2, <2>3
<1>6. Types'
  BY <1>1, <1>4, Constants DEF PlayInv, Types
<1>7. Handing(n)'
  BY <1>1, <1>2, <1>4, <1>5, Constants DEF Handing, Only, List, Elapsed
<1>8. QED BY <1>6, <1>7 DEF PlayInv

LEMMA FilmOverStep ==
  ASSUME PlayInv, FilmOver
  PROVE  PlayInv'
<1>1. /\ pc = "call" /\ todo = "enter" /\ todo' = "free" /\ lpfn[Head(ahead)] = "frame"
      /\ ~(cur_frame < count) /\ silent'
      /\ node' = [node EXCEPT ![Head(ahead)].deleted = TRUE]
      /\ UNCHANGED << system_tick, passed, ahead, pc, lpfn, count, cur_frame, frees, start >>
  BY DEF FilmOver, InCallback, RemoveSelf, Timer!Remove, HasNext, cur, Timer!cur
<1>2. PICK n \in Nodes :
        Head(ahead) = n /\ Called(n) /\ lpfn[n] = "frame" /\ Only({n}) /\ List(<<>>, <<n>>)
  BY <1>1, AtEnter
<1>3. node[n] \in Timer!Node /\ node' = [node EXCEPT ![n].deleted = TRUE]
  BY <1>1, <1>2 DEF Called, Runs
<1>4. /\ Dead(n)' /\ (\A m \in Nodes \ {n} : node'[m] = node[m])
      /\ node' \in [Nodes -> Timer!Node \cup {Timer!Free}]
  BY <1>3, Marked
<1>5. frees = 0
  BY <1>2 DEF Called, Runs
<1>6. cur_frame = count
  BY <1>1 DEF PlayInv, Types
<1>7. Types'
  BY <1>1, <1>4, Constants DEF PlayInv, Types
<1>8. Handing(n)'
  BY <1>1, <1>2, <1>4, <1>5, <1>6, Constants DEF Handing, Only, List
<1>9. QED BY <1>7, <1>8 DEF PlayInv

LEMMA FreePoolStep ==
  ASSUME PlayInv, FreePool
  PROVE  PlayInv'
<1>1. /\ pc = "call" /\ todo = "free" /\ todo' = "add" /\ lpfn[Head(ahead)] = "frame"
      /\ frees' = frees + 1
      /\ UNCHANGED << system_tick, node, passed, ahead, pc, lpfn,
                      count, cur_frame, silent, start >>
  BY DEF FreePool, InCallback, timerVars, cur, Timer!cur
<1>2. PICK d \in Nodes : Handing(d) /\ Head(ahead) = d
  BY <1>1, AtHanding
<1>3. frees = 0 /\ cur_frame = count /\ silent
  BY <1>1, <1>2 DEF Handing
<1>4. Types'
  BY <1>1, Constants DEF PlayInv, Types
<1>5. frees' = 1
  BY <1>1, <1>3
<1>6. Handing(d)'
  BY <1>1, <1>2, <1>3, <1>5, Constants DEF Handing, Only, List, Dead
<1>7. QED BY <1>4, <1>6 DEF PlayInv

\* What add() leaves: a new node before all others, due a whole interval later.
LEMMA Added ==
  ASSUME PlayInv, NEW n \in Nodes, NEW f \in Acts, Timer!Add(n, Interval(f)),
         lpfn' = [lpfn EXCEPT ![n] = f],
         start' \in Timer!Word, UNCHANGED <<count, cur_frame>>
  PROVE  /\ node[n] = Timer!Free
         /\ \A m \in Nodes \ {n} : node'[m] = node[m] /\ lpfn'[m] = lpfn[m]
         /\ lpfn'[n] = f /\ node'[n] \in Timer!Node /\ ~node'[n].deleted
         /\ node'[n].interval = Interval(f) /\ node'[n].count_down = Interval(f)
         /\ node'[n].trigger_count = 0
         /\ passed' = <<n>> \o passed /\ UNCHANGED <<system_tick, ahead, pc>>
         /\ Types'
<1>1. /\ node[n] = Timer!Free /\ node' = [node EXCEPT ![n] = Timer!NewNode(Interval(f))]
      /\ passed' = <<n>> \o passed /\ UNCHANGED <<system_tick, ahead, pc>>
  BY DEF Timer!Add
<1>2. Interval(f) \in {18, 2, 1}
  BY Periods DEF Interval
<1>3. node \in [Nodes -> Timer!Node \cup {Timer!Free}] /\ lpfn \in [Nodes -> Acts]
      /\ system_tick \in Timer!Word
  BY DEF PlayInv, Types
<1>4. 0 \in Timer!Word /\ Interval(f) \in Timer!Word
  BY <1>2, Periods DEF Timer!Word
<1>5. Timer!NewNode(Interval(f)) \in Timer!Node
  BY <1>2, <1>3, <1>4, NodeType DEF Timer!NewNode
<1>6. node'[n] = Timer!NewNode(Interval(f)) /\ lpfn'[n] = f
      /\ \A m \in Nodes \ {n} : node'[m] = node[m] /\ lpfn'[m] = lpfn[m]
  BY <1>1, <1>3
<1>7. /\ ~node'[n].deleted /\ node'[n].interval = Interval(f)
      /\ node'[n].count_down = Interval(f) /\ node'[n].trigger_count = 0
  BY <1>6 DEF Timer!NewNode
<1>8. node' \in [Nodes -> Timer!Node \cup {Timer!Free}] /\ lpfn' \in [Nodes -> Acts]
  BY <1>1, <1>3, <1>5
<1>9. Types'
  BY <1>1, <1>8, Constants DEF PlayInv, Types
<1>10. QED BY <1>1, <1>5, <1>6, <1>7, <1>9

LEMMA FilmStartStep ==
  ASSUME PlayInv, FilmStart
  PROVE  PlayInv'
<1>1. /\ pc = "call" /\ todo = "add" /\ todo' = "end" /\ lpfn[Head(ahead)] = "countdown"
      /\ UNCHANGED <<count, cur_frame, frees, silent, start>>
  BY DEF FilmStart, InCallback, AddTimer, videoVars, cur, Timer!cur
<1>2. PICK n \in Nodes :
        Timer!Add(n, FrameTicks) /\ lpfn' = [lpfn EXCEPT ![n] = "frame"]
  BY DEF FilmStart, AddTimer
<1>3. PICK d \in Nodes : Handing(d) /\ Head(ahead) = d
  BY <1>1, AtHanding
<1>4. Interval("frame") = FrameTicks /\ "frame" \in Acts
  BY DEF Interval, Acts
<1>5. /\ node[n] = Timer!Free
      /\ \A m \in Nodes \ {n} : node'[m] = node[m] /\ lpfn'[m] = lpfn[m]
      /\ lpfn'[n] = "frame" /\ node'[n] \in Timer!Node /\ ~node'[n].deleted
      /\ node'[n].interval = FrameTicks /\ node'[n].count_down = FrameTicks
      /\ passed' = <<n>> \o passed /\ UNCHANGED <<system_tick, ahead, pc>>
      /\ Types'
  BY <1>1, <1>2, <1>4, Added DEF PlayInv, Types
<1>6. frees = 0 /\ cur_frame = 0 /\ Elapsed(4 * Second)
  BY <1>1, <1>3 DEF Handing
<1>7. n # d
  BY <1>3, <1>5, FieldTypes DEF Handing, Dead
<1>8. Dead(d)' /\ Only({n, d})'
  BY <1>3, <1>5, <1>7, Constants DEF Handing, Dead, Only
<1>9. Waiting(n)' /\ Fresh(n)'
  <2>1. Runs(n)'
    BY <1>1, <1>5, <1>6, Constants DEF Runs, Interval
  <2>2. 4 * Second = 4 * Second + FrameTicks * (cur_frame' + 1) - FrameTicks
    BY <1>1, <1>6, Periods
  <2>3. Elapsed(4 * Second + FrameTicks * (cur_frame + 1) - FrameTicks)'
    BY <1>1, <1>5, <1>6, <2>2 DEF Elapsed
  <2>4. Due(n, FrameTicks)'
    BY <1>5, <2>3 DEF Due
  <2>5. QED
    BY <1>5, <2>1, <2>4, Periods DEF Waiting, Fresh
<1>10. passed' = <<n>> /\ ahead' = <<d>>
  BY <1>3, <1>5, Lists DEF Handing, List
<1>11. Two(n, d)'
  BY <1>1, <1>5, <1>7, <1>8, <1>9, <1>10 DEF Two, List
<1>12. QED BY <1>5, <1>11 DEF PlayInv

LEMMA ClockStartStep ==
  ASSUME PlayInv, ClockStart
  PROVE  PlayInv'
<1>1. /\ pc = "call" /\ todo = "add" /\ todo' = "end" /\ lpfn[Head(ahead)] = "frame"
      /\ UNCHANGED <<count, cur_frame, frees, silent, start>>
  BY DEF ClockStart, InCallback, AddTimer, videoVars, cur, Timer!cur
<1>2. PICK n \in Nodes :
        Timer!Add(n, Interval("clock")) /\ lpfn' = [lpfn EXCEPT ![n] = "clock"]
  BY DEF ClockStart, AddTimer, Interval
<1>3. PICK d \in Nodes : Handing(d) /\ Head(ahead) = d
  BY <1>1, AtHanding
<1>4. Interval("clock") = 1 /\ "clock" \in Acts
  BY DEF Interval, Acts
<1>5. /\ node[n] = Timer!Free
      /\ \A m \in Nodes \ {n} : node'[m] = node[m] /\ lpfn'[m] = lpfn[m]
      /\ lpfn'[n] = "clock" /\ node'[n] \in Timer!Node /\ ~node'[n].deleted
      /\ node'[n].interval = Interval("clock") /\ node'[n].count_down = Interval("clock")
      /\ passed' = <<n>> \o passed /\ UNCHANGED <<system_tick, ahead, pc>>
      /\ Types'
  BY <1>1, <1>2, <1>4, Added DEF PlayInv, Types
<1>6. frees = 1 /\ silent /\ cur_frame = count
  BY <1>1, <1>3 DEF Handing
<1>7. n # d
  BY <1>3, <1>5, FieldTypes DEF Handing, Dead
<1>8. Dead(d)' /\ Only({n, d})'
  BY <1>3, <1>5, <1>7, Constants DEF Handing, Dead, Only
<1>9. Waiting(n)' /\ Fresh(n)'
  <2>1. Runs(n)'
    BY <1>1, <1>4, <1>5, <1>6, Constants DEF Runs
  <2>2. Due(n, 1)'
    BY <1>5 DEF Due
  <2>3. QED
    BY <1>4, <1>5, <2>1, <2>2 DEF Waiting, Fresh
<1>10. passed' = <<n>> /\ ahead' = <<d>>
  BY <1>3, <1>5, Lists DEF Handing, List
<1>11. Two(n, d)'
  BY <1>1, <1>5, <1>7, <1>8, <1>9, <1>10 DEF Two, List
<1>12. QED BY <1>5, <1>11 DEF PlayInv

----------------------------------------------------------------------------
(* play()                                                                  *)

\* The invariant does not read "up".
LEMMA Unchanged ==
  ASSUME PlayInv,
         UNCHANGED << system_tick, node, passed, ahead, pc, lpfn, todo,
                      count, cur_frame, frees, silent, start >>
  PROVE  PlayInv'
<1>1. Types'
  BY Constants DEF PlayInv, Types
<1>2. Empty => Empty'
  BY Constants DEF Empty, List, Only
<1>3. ASSUME NEW n \in Nodes
      PROVE  /\ Waiting(n) => Waiting(n)'
             /\ Visited(n) => Visited(n)'
             /\ Called(n) => Called(n)'
             /\ Fresh(n) => Fresh(n)'
             /\ Dead(n) => Dead(n)'
  BY Same
<1>4. \A S : Only(S) => Only(S)'
  BY Constants DEF Only
<1>5. ASSUME NEW n \in Nodes, One(n)
      PROVE  One(n)'
  BY <1>3, <1>4, <1>5 DEF One, Between, List
<1>6. ASSUME NEW n \in Nodes, NEW d \in Nodes, Two(n, d)
      PROVE  Two(n, d)'
  BY <1>3, <1>4, <1>6 DEF Two, Between, List
<1>7. ASSUME NEW d \in Nodes, Handing(d)
      PROVE  Handing(d)'
  BY <1>3, <1>4, <1>7 DEF Handing, List, Elapsed
<1>8. QED
  BY <1>1, <1>2, <1>5, <1>6, <1>7 DEF PlayInv

LEMMA StartStep ==
  ASSUME PlayInv, Start
  PROVE  PlayInv'
<1>1. /\ pc = "main" /\ todo = "play" /\ todo' = "idle" /\ start' = system_tick
      /\ UNCHANGED <<count, cur_frame, frees, silent>>
  BY DEF Start, AddTimer, videoVars
<1>2. PICK n \in Nodes :
        Timer!Add(n, Second) /\ lpfn' = [lpfn EXCEPT ![n] = "countdown"]
  BY DEF Start, AddTimer
<1>3. Empty
  BY <1>1 DEF PlayInv, One, Two, Handing, Between
<1>4. Interval("countdown") = Second /\ "countdown" \in Acts
  BY DEF Interval, Acts
<1>5. start' \in Timer!Word
  BY <1>1 DEF PlayInv, Types
<1>6. /\ \A m \in Nodes \ {n} : node'[m] = node[m]
      /\ lpfn'[n] = "countdown" /\ node'[n] \in Timer!Node /\ ~node'[n].deleted
      /\ node'[n].interval = Second /\ node'[n].count_down = Second
      /\ node'[n].trigger_count = 0
      /\ passed' = <<n>> \o passed /\ UNCHANGED <<system_tick, ahead, pc>>
      /\ Types'
  BY <1>1, <1>2, <1>4, <1>5, Added
<1>7. frees = 0 /\ cur_frame = 0
  BY <1>3 DEF Empty
<1>8. Only({n})'
  BY <1>3, <1>6, Constants DEF Empty, Only
<1>9. Elapsed(0)'
  <2>1. system_tick \in Nat /\ system_tick < Width
    BY Periods DEF PlayInv, Types, Timer!Word
  <2>2. start' + 0 = system_tick /\ system_tick' = system_tick
    BY <1>1, <1>6, <2>1
  <2>3. system_tick % Width = system_tick
    BY <2>1, Small
  <2>4. QED BY <2>2, <2>3 DEF Elapsed
<1>10. Waiting(n)'
  <2>1. Runs(n)'
    BY <1>1, <1>6, <1>7, Constants DEF Runs, Interval
  <2>2. Second * (node'[n].trigger_count + 1) - Second = 0
    BY <1>6, Periods
  <2>3. Due(n, Second)'
    BY <1>1, <1>6, <1>7, <1>9, <2>2 DEF Due
  <2>4. QED
    BY <1>6, <2>1, <2>3, Periods DEF Waiting
<1>11. passed' = <<n>> /\ ahead' = <<>>
  BY <1>3, <1>6, Lists DEF Empty, List
<1>12. One(n)'
  BY <1>1, <1>6, <1>8, <1>10, <1>11 DEF One, Between, List
<1>13. QED BY <1>6, <1>12 DEF PlayInv

LEMMA FailStep ==
  ASSUME PlayInv, Fail
  PROVE  PlayInv'
<1>1. UNCHANGED << system_tick, node, passed, ahead, pc, lpfn, todo,
                   count, cur_frame, frees, silent, start >>
  BY DEF Fail, Timer!AddFails, videoVars
<1>2. QED BY <1>1, Unchanged

----------------------------------------------------------------------------
(* The invariant holds                                                     *)

LEMMA PlayStep ==
  ASSUME PlayInv, [Next]_vars
  PROVE  PlayInv'
<1>1. CASE Start BY <1>1, StartStep
<1>2. CASE Fail BY <1>2, FailStep
<1>3. CASE CountdownPrint \/ ShowTime BY <1>3, PrintStep
<1>4. CASE CountdownOver BY <1>4, CountdownOverStep
<1>5. CASE FilmStart BY <1>5, FilmStartStep
<1>6. CASE ShowFrame BY <1>6, ShowFrameStep
<1>7. CASE FilmOver BY <1>7, FilmOverStep
<1>8. CASE FreePool BY <1>8, FreePoolStep
<1>9. CASE ClockStart BY <1>9, ClockStartStep
<1>10. CASE Tick BY <1>10, TickStep
<1>11. CASE CallBack BY <1>11, CallStep
<1>12. CASE Return BY <1>12, ReturnStep
<1>13. CASE OtherVisit
  <2>1. CASE Timer!Unlink BY <1>13, <2>1, UnlinkStep DEF OtherVisit
  <2>2. CASE Timer!CountDown BY <1>13, <2>2, CountDownStep DEF OtherVisit
  <2>3. CASE Timer!Done BY <1>13, <2>3, DoneStep DEF OtherVisit
  <2>4. QED BY <1>13, <2>1, <2>2, <2>3 DEF OtherVisit
<1>14. CASE UNCHANGED vars
  BY <1>14, Unchanged DEF vars, timerVars, videoVars
<1>15. QED
  BY <1>1, <1>2, <1>3, <1>4, <1>5, <1>6, <1>7, <1>8, <1>9, <1>10, <1>11, <1>12,
     <1>13, <1>14
  DEF Next, Callback, Handler

LEMMA PlayInit == Init => PlayInv
<1> SUFFICES ASSUME Init PROVE PlayInv
  OBVIOUS
<1>1. /\ system_tick = 0 /\ start = 0 /\ todo = "play" /\ pc = "main"
      /\ passed = <<>> /\ ahead = <<>> /\ frees = 0 /\ cur_frame = 0
      /\ node = [n \in Nodes |-> Timer!Free] /\ lpfn = [n \in Nodes |-> "countdown"]
      /\ count \in 0 .. MaxFrames
  BY DEF Init, Timer!Init
<1>2. 0 \in Timer!Word
  BY Periods DEF Timer!Word
<1>3. Types
  BY <1>1, <1>2, PlayAssumption DEF Types, Acts
<1>4. Empty
  BY <1>1 DEF Empty, List, Only
<1>5. QED BY <1>3, <1>4 DEF PlayInv

LEMMA PlayHolds == Spec => []PlayInv
BY PlayInit, PlayStep, PTL DEF Spec

----------------------------------------------------------------------------
(* What it says of the timers that are linked                              *)

LEMMA Ranges ==
  ASSUME NEW n \in Nodes, NEW d \in Nodes
  PROVE  Timer!Range(<<n>>) = {n} /\ Timer!Range(<<n, d>>) = {n, d}
<1>1. DOMAIN <<n>> = {1} /\ DOMAIN <<n, d>> = {1, 2}
  OBVIOUS
<1>2. <<n>>[1] = n /\ <<n, d>>[1] = n /\ <<n, d>>[2] = d
  OBVIOUS
<1>3. QED BY <1>1, <1>2 DEF Timer!Range

LEMMA Census ==
  ASSUME PlayInv
  PROVE  \/ Timer!Linked = {} /\ Empty
         \/ \E n \in Nodes :
              /\ Timer!Linked = {n}
              /\ Runs(n) \/ (Dead(n) /\ Handing(n))
         \/ \E n \in Nodes, d \in Nodes :
              Timer!Linked = {n, d} /\ Runs(n) /\ Dead(d)
<1>1. Timer!Range(<<>>) = {}
  BY DEF Timer!Range
<1>2. CASE Empty
  BY <1>1, <1>2 DEF Empty, List, Timer!Linked
<1>3. ASSUME NEW n \in Nodes, One(n)
      PROVE  Timer!Linked = {n} /\ Runs(n)
  BY <1>1, <1>3, Ranges DEF One, List, Timer!Linked, Waiting, Visited, Called
<1>4. ASSUME NEW n \in Nodes, NEW d \in Nodes, Two(n, d)
      PROVE  Timer!Linked = {n, d} /\ Runs(n) /\ Dead(d)
  BY <1>1, <1>4, Ranges DEF Two, List, Timer!Linked, Waiting, Visited, Called
<1>5. ASSUME NEW d \in Nodes, Handing(d)
      PROVE  Timer!Linked = {d} /\ Dead(d) /\ pc = "call"
  BY <1>1, <1>5, Ranges DEF Handing, List, Timer!Linked
<1>6. QED BY <1>2, <1>3, <1>4, <1>5 DEF PlayInv

\* After the film its pool is gone, and only then.
LEMMA AfterFilm ==
  ASSUME PlayInv, frees = 1
  PROVE  cur_frame = count /\ silent
<1>1. frees # 0
  OBVIOUS
<1>2. ASSUME NEW n \in Nodes, Runs(n)
      PROVE  cur_frame = count /\ silent
  BY <1>1, <1>2, Zenon DEF Runs
<1>3. ASSUME NEW n \in Nodes, Handing(n)
      PROVE  cur_frame = count /\ silent
  BY <1>1, <1>3, Zenon DEF Handing
<1>4. ~Empty
  BY <1>1, Zenon DEF Empty
<1>5. QED BY <1>2, <1>3, <1>4, Census, Zenon

\* The acts follow one another: no two timers are live between callbacks, and
\* two nodes of the heap at most are linked, at every step of a hand-over.
THEOREM ActsFollow == Spec => []OneActAtATime
<1>1. ASSUME PlayInv PROVE OneActAtATime
  <2>1. ASSUME NEW n, NEW d PROVE Cardinality({n, d}) <= 2 /\ IsFiniteSet({n, d})
    <3>1. IsFiniteSet({n}) /\ Cardinality({n}) = 1 /\ {n, d} = {n} \cup {d}
      BY FS_Singleton
    <3>2. QED BY <3>1, FS_AddElement
  <2>2. ASSUME NEW n, NEW T \in SUBSET {n} PROVE Cardinality(T) <= 1
    <3>1. IsFiniteSet({n}) /\ Cardinality({n}) = 1
      BY FS_Singleton
    <3>2. Cardinality(T) <= Cardinality({n})
      BY <3>1, FS_Subset, Zenon
    <3>3. QED BY <3>1, <3>2
  <2>3. Cardinality({}) = 0
    BY FS_EmptySet
  <2>4. CASE Timer!Linked = {} /\ Empty
    <3>1. Timer!Live = {}
      BY <2>4 DEF Timer!Live
    <3>2. QED BY <2>3, <2>4, <3>1 DEF OneActAtATime, LiveTimers
  <2>5. ASSUME NEW n \in Nodes, Timer!Linked = {n}
        PROVE  OneActAtATime
    <3>1. Timer!Live \subseteq {n}
      BY <2>5 DEF Timer!Live
    <3>2. Cardinality(Timer!Live) <= 1
      BY <2>2, <3>1
    <3>3. Cardinality(Timer!Linked) <= 2
      BY <2>5, FS_Singleton
    <3>4. QED BY <3>2, <3>3 DEF OneActAtATime, LiveTimers
  <2>6. ASSUME NEW n \in Nodes, NEW d \in Nodes, Timer!Linked = {n, d}, Dead(d)
        PROVE  OneActAtATime
    <3>1. Timer!Live \subseteq {n}
      BY <2>6 DEF Timer!Live, Dead
    <3>2. Cardinality(Timer!Live) <= 1
      BY <2>2, <3>1
    <3>3. Cardinality(Timer!Linked) <= 2
      BY <2>1, <2>6
    <3>4. QED BY <3>2, <3>3 DEF OneActAtATime, LiveTimers
  <2>7. QED BY <1>1, <2>4, <2>5, <2>6, Census
<1>2. QED BY <1>1, PlayHolds, PTL

\* The pool of the film is deleted after the last frame only, and no timer
\* whose callback reads it is live from then on.
THEOREM PoolIsKept == Spec => []PoolOutlivesFilm
<1>1. ASSUME PlayInv PROVE PoolOutlivesFilm
  <2>1. frees = 1 => cur_frame = count
    BY <1>1, AfterFilm
  <2>2. ASSUME NEW m \in Timer!Live PROVE Runs(m)
    BY <1>1, Census DEF Timer!Live, Dead
  <2>3. QED BY <2>1, <2>2 DEF PoolOutlivesFilm, LiveTimers, Runs
<1>2. QED BY <1>1, PlayHolds, PTL

\* Once the pool is deleted the log is off, so that the film's own node, which
\* the next tick frees, writes nothing over the screen of thanks.
THEOREM FilmEndsInSilence == Spec => QuietAfterFilm
<1>1. ASSUME PlayInv PROVE frees = 1 => silent
  BY <1>1, AfterFilm, Zenon
<1>2. PlayInv /\ [Next]_vars => [frees = 1 /\ node' # node => silent]_vars
  BY <1>1
<1>3. QED BY <1>2, PlayHolds, PTL DEF Spec, QuietAfterFilm

\* Frame k is shown 4 * 18 + 2 * (k + 1) ticks after play() started, whatever
\* the counter stood at: no tick is lost or counted twice in a hand-over.
THEOREM FramesKeepTime == Spec => FramesOnTime
<1>1. ASSUME PlayInv, ShowFrame
      PROVE  (system_tick - start) % Width = (4 * Second + FrameTicks * (cur_frame + 1)) % Width
  <2>1. pc = "call" /\ todo = "enter" /\ lpfn[Head(ahead)] = "frame"
    BY <1>1 DEF ShowFrame, InCallback, cur, Timer!cur
  <2>2. PICK n \in Nodes : Called(n) /\ lpfn[n] = "frame"
    BY <1>1, <2>1, AtEnter
  <2>3. PICK e \in Nat : e = 4 * Second + FrameTicks * (cur_frame + 1) - 0 /\ Elapsed(e)
    BY <2>1, <2>2 DEF Called, Due, Elapsed
  <2>4. e = 4 * Second + FrameTicks * (cur_frame + 1)
    BY <1>1, <2>3, Periods DEF PlayInv, Types
  <2>5. PICK s \in Nat : s = start
    BY <1>1, Periods DEF PlayInv, Types, Timer!Word
  <2>6. (((s + e) % Width) - s) % Width = e % Width
    BY SinceStart
  <2>7. system_tick = (s + e) % Width
    BY <2>3, <2>5 DEF Elapsed
  <2>8. QED BY <2>4, <2>5, <2>6, <2>7, Zenon
<1>2. PlayInv /\ [Next]_vars
        => [ShowFrame => (system_tick - start) % Width
                           = (4 * Second + FrameTicks * (cur_frame + 1)) % Width]_vars
  BY <1>1, Zenon
<1>3. QED BY <1>2, PlayHolds, PTL DEF Spec, FramesOnTime

=============================================================================
