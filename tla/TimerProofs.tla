----------------------------- MODULE TimerProofs -----------------------------
(***************************************************************************)
(* Theorems of the Timer module, for any heap, any set of intervals and    *)
(* any width of the counters: the list is sound (IInv is inductive), each  *)
(* step of it is a step of the service of TimerService or a stutter, and   *)
(* the calls come on schedule.                                             *)
(***************************************************************************)
EXTENDS Timer, TLAPS

----------------------------------------------------------------------------
(* Sequences without repetition and the sets of their elements             *)

LEMMA TailFacts ==
  ASSUME NEW S, NEW s \in Seq(S), s # <<>>
  PROVE  /\ Head(s) \in S
         /\ Tail(s) \in Seq(S)
         /\ Range(s) = {Head(s)} \cup Range(Tail(s))
         /\ IsInjective(s) => IsInjective(Tail(s)) /\ Head(s) \notin Range(Tail(s))
<1>1. Len(s) \in Nat /\ Len(s) >= 1
  OBVIOUS
<1>2. /\ Tail(s) \in Seq(S) /\ Len(Tail(s)) = Len(s) - 1
      /\ \A i \in 1 .. Len(s) - 1 : Tail(s)[i] = s[i + 1]
      /\ Head(s) = s[1] /\ Head(s) \in S
  BY <1>1
<1>3. DOMAIN s = 1 .. Len(s) /\ DOMAIN Tail(s) = 1 .. Len(s) - 1
  BY <1>1, <1>2
<1>4. \A i \in 1 .. Len(s) : i = 1 \/ (i - 1 \in 1 .. Len(s) - 1 /\ s[i] = Tail(s)[i - 1])
  BY <1>1, <1>2
<1>5. Range(s) = {Head(s)} \cup Range(Tail(s))
  <2>1. ASSUME NEW i \in 1 .. Len(s)
        PROVE  s[i] \in {Head(s)} \cup Range(Tail(s))
    <3>1. CASE i = 1
      BY <1>2, <3>1
    <3>2. CASE i # 1
      BY <1>3, <1>4, <3>2 DEF Range
    <3> QED
      BY <3>1, <3>2
  <2>2. {Head(s)} \cup Range(Tail(s)) \subseteq Range(s)
    BY <1>1, <1>2, <1>3 DEF Range
  <2> QED
    BY <1>3, <2>1, <2>2 DEF Range
<1>6. IsInjective(s) => IsInjective(Tail(s))
  BY <1>1, <1>2, <1>3 DEF IsInjective
<1>7. IsInjective(s) => Head(s) \notin Range(Tail(s))
  BY <1>1, <1>2, <1>3 DEF IsInjective, Range
<1> QED
  BY <1>2, <1>5, <1>6, <1>7

LEMMA AppendFacts ==
  ASSUME NEW S, NEW s \in Seq(S), NEW e \in S
  PROVE  /\ Append(s, e) \in Seq(S)
         /\ Range(Append(s, e)) = Range(s) \cup {e}
         /\ IsInjective(s) /\ e \notin Range(s) => IsInjective(Append(s, e))
<1>1. /\ Append(s, e) \in Seq(S) /\ Len(s) \in Nat
      /\ DOMAIN s = 1 .. Len(s) /\ DOMAIN Append(s, e) = 1 .. Len(s) + 1
      /\ \A i \in 1 .. Len(s) : Append(s, e)[i] = s[i]
      /\ Append(s, e)[Len(s) + 1] = e
  OBVIOUS
<1>2. \A i \in 1 .. Len(s) + 1 : i \in 1 .. Len(s) \/ i = Len(s) + 1
  BY <1>1
<1>3. Range(Append(s, e)) \subseteq Range(s) \cup {e}
  BY <1>1, <1>2 DEF Range
<1>4. Range(s) \cup {e} \subseteq Range(Append(s, e))
  BY <1>1 DEF Range
<1>5. ASSUME IsInjective(s), e \notin Range(s)
      PROVE  IsInjective(Append(s, e))
  BY <1>1, <1>2, <1>5 DEF IsInjective, Range
<1> QED
  BY <1>1, <1>3, <1>4, <1>5

LEMMA PushFacts ==
  ASSUME NEW S, NEW s \in Seq(S), NEW e \in S
  PROVE  /\ <<e>> \o s \in Seq(S)
         /\ Range(<<e>> \o s) = {e} \cup Range(s)
         /\ IsInjective(s) /\ e \notin Range(s) => IsInjective(<<e>> \o s)
<1> DEFINE t == <<e>> \o s
<1>1. /\ t \in Seq(S) /\ Len(s) \in Nat
      /\ DOMAIN s = 1 .. Len(s) /\ DOMAIN t = 1 .. Len(s) + 1
      /\ t[1] = e
      /\ \A i \in 1 .. Len(s) : t[i + 1] = s[i]
  OBVIOUS
<1> HIDE DEF t
<1>2. Range(t) = {e} \cup Range(s)
  <2>1. ASSUME NEW i \in 1 .. Len(s) + 1
        PROVE  t[i] \in {e} \cup Range(s)
    <3>1. CASE i = 1
      BY <1>1, <3>1
    <3>2. CASE i # 1
      <4>1. i - 1 \in 1 .. Len(s) /\ t[i - 1 + 1] = s[i - 1]
        BY <1>1, <3>2
      <4> QED
        BY <1>1, <4>1 DEF Range
    <3> QED
      BY <3>1, <3>2
  <2>2. {e} \cup Range(s) \subseteq Range(t)
    BY <1>1 DEF Range
  <2> QED
    BY <1>1, <2>1, <2>2 DEF Range
<1>3. ASSUME IsInjective(s), e \notin Range(s),
             NEW i \in 1 .. Len(s) + 1, NEW j \in 1 .. Len(s) + 1, t[i] = t[j]
      PROVE  i = j
  <2>1. ASSUME NEW k \in 1 .. Len(s) + 1, k # 1
        PROVE  k - 1 \in DOMAIN s /\ t[k] = s[k - 1] /\ t[k] # e
    <3>1. k - 1 \in 1 .. Len(s) /\ t[k] = s[k - 1]
      BY <1>1, <2>1
    <3> QED
      BY <1>1, <1>3, <3>1 DEF Range
  <2>2. CASE i = 1 \/ j = 1
    BY <1>1, <1>3, <2>1, <2>2
  <2>3. CASE i # 1 /\ j # 1
    <3>1. s[i - 1] = s[j - 1] /\ i - 1 \in DOMAIN s /\ j - 1 \in DOMAIN s
      BY <1>3, <2>1, <2>3
    <3>2. i - 1 = j - 1
      BY <1>3, <3>1 DEF IsInjective
    <3> QED
      BY <3>2
  <2> QED
    BY <2>2, <2>3
<1>4. IsInjective(s) /\ e \notin Range(s) => IsInjective(t)
  BY <1>1, <1>3 DEF IsInjective
<1> QED
  BY <1>1, <1>2, <1>4 DEF t

LEMMA EmptyFacts ==
  ASSUME NEW S
  PROVE  <<>> \in Seq(S) /\ Range(<<>>) = {} /\ IsInjective(<<>>)
BY DEF Range, IsInjective

----------------------------------------------------------------------------
(* The inductive invariant                                                 *)

IInv == TypeOK /\ ListSound /\ CountDownInRange

LEMMA WordFacts ==
  /\ 0 \in Word
  /\ \A x \in Word : (x + 1) % Width \in Word /\ (x - 1) % Width \in Word
  /\ \A x \in Word \ {0} : (x - 1) % Width = x - 1
BY TimerAssumption DEF Word

LEMMA IntervalFacts ==
  ASSUME NEW i \in Intervals \ {0}
  PROVE  i \in Word /\ i \in 1 .. i
BY TimerAssumption DEF Word

\* The node under the cursor is allocated, and is nowhere else in the list.
LEMMA CursorFacts ==
  ASSUME IInv, ahead # <<>>
  PROVE  /\ cur \in Nodes /\ node[cur] \in Node
         /\ Tail(ahead) \in Seq(Nodes) /\ IsInjective(Tail(ahead))
         /\ Range(ahead) = {cur} \cup Range(Tail(ahead))
         /\ cur \notin Range(Tail(ahead)) /\ cur \notin Range(passed)
<1>1. /\ cur \in Nodes
      /\ Tail(ahead) \in Seq(Nodes) /\ IsInjective(Tail(ahead))
      /\ Range(ahead) = {cur} \cup Range(Tail(ahead))
      /\ cur \notin Range(Tail(ahead))
  BY TailFacts DEF IInv, TypeOK, ListSound, cur
<1>2. cur \in Linked /\ cur \notin Range(passed)
  BY <1>1 DEF IInv, ListSound, Linked
<1>3. node[cur] \in Node \cup {Free} /\ node[cur] # Free
  BY <1>1, <1>2 DEF IInv, TypeOK, ListSound
<1> QED
  BY <1>1, <1>2, <1>3

LEMMA AdvanceFacts ==
  ASSUME IInv, ahead # <<>>, Advance
  PROVE  /\ passed' \in Seq(Nodes) /\ ahead' \in Seq(Nodes)
         /\ IsInjective(passed') /\ IsInjective(ahead')
         /\ Range(passed') = Range(passed) \cup {cur}
         /\ Range(ahead') = Range(ahead) \ {cur}
         /\ Range(passed') \cap Range(ahead') = {}
         /\ Linked' = Linked
<1>1. passed' = Append(passed, cur) /\ ahead' = Tail(ahead)
  BY DEF Advance
<1>2. passed \in Seq(Nodes) /\ IsInjective(passed) /\ Range(passed) \cap Range(ahead) = {}
  BY DEF IInv, TypeOK, ListSound
<1>3. passed' \in Seq(Nodes) /\ Range(passed') = Range(passed) \cup {cur} /\ IsInjective(passed')
  BY <1>1, <1>2, CursorFacts, AppendFacts
<1>4. ahead' \in Seq(Nodes) /\ IsInjective(ahead') /\ Range(ahead') = Range(ahead) \ {cur}
  BY <1>1, CursorFacts
<1>5. cur \in Range(ahead)
  BY CursorFacts
<1> QED
  BY <1>2, <1>3, <1>4, <1>5 DEF Linked

LEMMA InitInv == Init => IInv
<1> SUFFICES ASSUME Init PROVE IInv
  OBVIOUS
<1>1. TypeOK
  BY EmptyFacts, WordFacts DEF Init, TypeOK
<1>2. Linked = {}
  BY EmptyFacts DEF Init, Linked
<1>3. ListSound
  BY <1>2, EmptyFacts DEF Init, ListSound
<1> QED
  BY <1>1, <1>2, <1>3 DEF IInv, CountDownInRange

\* Tick and Done move the cursor only.
LEMMA EntryInv ==
  ASSUME IInv, Tick \/ Done
  PROVE  IInv'
<1>1. CASE Tick
  <2>1. passed' = <<>> /\ ahead' = passed /\ ahead = <<>> /\ node' = node
    BY <1>1 DEF Tick, IInv, ListSound
  <2>2. Range(ahead) = {} /\ Range(passed') = {} /\ IsInjective(passed') /\ passed' \in Seq(Nodes)
    BY <2>1, EmptyFacts
  <2>3. Linked' = Linked
    BY <2>1, <2>2 DEF Linked
  <2>4. TypeOK'
    BY <1>1, <2>1, <2>2, WordFacts DEF Tick, IInv, TypeOK
  <2>5. ListSound'
    BY <1>1, <2>1, <2>2, <2>3 DEF Tick, IInv, ListSound
  <2>6. CountDownInRange'
    BY <1>1, <2>1, <2>3 DEF Tick, IInv, CountDownInRange
  <2> QED
    BY <2>4, <2>5, <2>6 DEF IInv
<1>2. CASE Done
  BY <1>2 DEF Done, IInv, TypeOK, ListSound, CountDownInRange, Linked, cur
<1> QED
  BY <1>1, <1>2

\* The disjuncts of the loop's body.
LEMMA VisitInv ==
  ASSUME IInv, Visit
  PROVE  IInv'
<1>1. ahead # <<>> /\ pc = "walk" /\ up
  BY DEF Visit, Unlink, CountDown, Call, Visiting
<1>2. /\ node \in [Nodes -> Node \cup {Free}] /\ node[cur] \in Node /\ cur \in Nodes
      /\ cur \in Linked
      /\ node[cur].count_down \in 1 .. node[cur].interval
      /\ node[cur].count_down \in Word \ {0}
      /\ node[cur].interval \in Word
  <2>1. node[cur] \in Node /\ cur \in Nodes /\ cur \in Linked
    BY <1>1, CursorFacts DEF Linked
  <2>2. node[cur].count_down \in 1 .. node[cur].interval
    BY <1>1, <2>1 DEF IInv, CountDownInRange
  <2>3. node[cur].count_down \in Word /\ node[cur].interval \in Word
    BY <2>1, IntervalFacts DEF Node
  <2>4. node[cur].count_down # 0
    BY <2>2, <2>3 DEF Word
  <2> QED
    BY <2>1, <2>2, <2>3, <2>4 DEF IInv, TypeOK
<1>3. Counted = node[cur].count_down - 1 /\ Counted \in Word
  BY <1>2, WordFacts DEF Counted
<1>4. CASE Unlink
  <2>1. node' = [node EXCEPT ![cur] = Free] /\ passed' = passed /\ ahead' = Tail(ahead)
        /\ pc' = pc /\ up' = up /\ system_tick' = system_tick
    BY <1>4 DEF Unlink
  <2>2. Linked' = Linked \ {cur}
    BY <1>1, <2>1, CursorFacts DEF Linked
  <2>3. TypeOK'
    BY <1>1, <1>2, <2>1, CursorFacts DEF IInv, TypeOK
  <2>4. ListSound'
    <3>1. \A n \in Nodes : node'[n] # Free <=> n \in Linked'
      BY <1>2, <2>1, <2>2 DEF IInv, ListSound
    <3>2. Linked' \subseteq Nodes
      BY <2>2 DEF IInv, ListSound
    <3>3. Linked' = {n \in Nodes : node'[n] # Free}
      BY <3>1, <3>2
    <3>4. Range(passed') \cap Range(ahead') = {}
      BY <1>1, <2>1, CursorFacts DEF IInv, ListSound
    <3> QED
      BY <1>1, <2>1, <3>3, <3>4, CursorFacts DEF IInv, ListSound
  <2>5. CountDownInRange'
    <3>1. \A n \in Linked' : node'[n] = node[n] /\ n \in Linked /\ n # cur
      BY <1>2, <2>1, <2>2 DEF IInv, ListSound
    <3> QED
      BY <1>1, <2>1, <3>1 DEF IInv, CountDownInRange
  <2> QED
    BY <2>3, <2>4, <2>5 DEF IInv
<1>5. CASE CountDown
  <2>1. node' = [node EXCEPT ![cur].count_down = Counted] /\ Advance /\ Counted # 0
        /\ pc' = pc /\ up' = up /\ system_tick' = system_tick
    BY <1>5 DEF CountDown
  <2>2. node'[cur] \in Node /\ node'[cur].count_down = Counted
        /\ node'[cur].interval = node[cur].interval
    BY <1>2, <1>3, <2>1 DEF Node
  <2>3. \A n \in Nodes : n # cur => node'[n] = node[n]
    BY <1>2, <2>1
  <2>4. node' \in [Nodes -> Node \cup {Free}] /\ node'[cur] # Free
    BY <1>2, <2>1, <2>2 DEF Node, Free
  <2>5. TypeOK'
    BY <1>1, <2>1, <2>4, AdvanceFacts DEF IInv, TypeOK
  <2>6. ListSound'
    <3>1. {n \in Nodes : node'[n] # Free} = {n \in Nodes : node[n] # Free}
      BY <1>2, <2>3, <2>4 DEF Node, Free
    <3> QED
      BY <1>1, <2>1, <3>1, AdvanceFacts DEF IInv, ListSound
  <2>7. CountDownInRange'
    <3>1. node'[cur].count_down \in 1 .. node'[cur].interval
      BY <1>2, <1>3, <2>1, <2>2 DEF Word
    <3>2. \A n \in Linked : node'[n].count_down \in 1 .. node'[n].interval
      BY <1>1, <2>3, <3>1 DEF IInv, CountDownInRange, ListSound
    <3> QED
      BY <1>1, <2>1, <3>2, AdvanceFacts DEF CountDownInRange
  <2> QED
    BY <2>5, <2>6, <2>7 DEF IInv
<1>6. CASE Call
  <2>1. node' = [node EXCEPT ![cur].count_down = 0] /\ pc' = "call"
        /\ up' = up /\ system_tick' = system_tick /\ passed' = passed /\ ahead' = ahead
    BY <1>6 DEF Call
  <2>2. node'[cur] \in Node
    BY <1>2, <2>1, WordFacts DEF Node
  <2>3. \A n \in Nodes : n # cur => node'[n] = node[n]
    BY <1>2, <2>1
  <2>4. node' \in [Nodes -> Node \cup {Free}] /\ node'[cur] # Free
    BY <1>2, <2>1, <2>2 DEF Node, Free
  <2>5. TypeOK'
    BY <2>1, <2>4 DEF IInv, TypeOK
  <2>6. ListSound'
    <3>1. {n \in Nodes : node'[n] # Free} = {n \in Nodes : node[n] # Free}
      BY <1>2, <2>3, <2>4 DEF Node, Free
    <3> QED
      BY <1>1, <2>1, <3>1 DEF IInv, ListSound, Linked
  <2>7. CountDownInRange'
    <3>1. cur' = cur /\ Linked' = Linked /\ Linked \subseteq Nodes
      BY <2>1 DEF cur, Linked, IInv, ListSound
    <3> QED
      BY <1>1, <2>1, <2>3, <3>1 DEF IInv, CountDownInRange
  <2> QED
    BY <2>5, <2>6, <2>7 DEF IInv
<1> QED
  BY <1>4, <1>5, <1>6 DEF Visit

\* The callback returns to a node that its own calls have not freed.
LEMMA ReturnInv ==
  ASSUME IInv, Return
  PROVE  IInv'
<1>1. ahead # <<>> /\ pc = "call" /\ pc' = "walk" /\ up' = up
      /\ system_tick' = system_tick /\ Advance
      /\ node' = [node EXCEPT ![cur].trigger_count = (@ + 1) % Width,
                              ![cur].count_down = node[cur].interval]
  BY DEF Return, IInv, ListSound
<1>2. node \in [Nodes -> Node \cup {Free}] /\ node[cur] \in Node /\ cur \in Nodes
      /\ Linked \subseteq Nodes
  BY <1>1, CursorFacts DEF IInv, TypeOK, ListSound
<1>3. /\ node[cur].interval \in Intervals \ {0} /\ node[cur].interval \in Word
      /\ node[cur].interval \in 1 .. node[cur].interval
      /\ (node[cur].trigger_count + 1) % Width \in Word
  BY <1>2, WordFacts, IntervalFacts DEF Node
<1>4. /\ node'[cur] \in Node
      /\ node'[cur].count_down = node[cur].interval
      /\ node'[cur].interval = node[cur].interval
  BY <1>1, <1>2, <1>3 DEF Node
<1>5. \A n \in Nodes : n # cur => node'[n] = node[n]
  BY <1>1, <1>2
<1>6. node' \in [Nodes -> Node \cup {Free}] /\ node'[cur] # Free
  BY <1>1, <1>2, <1>4 DEF Node, Free
<1>7. TypeOK'
  BY <1>1, <1>6, AdvanceFacts DEF IInv, TypeOK
<1>8. ListSound'
  <2>1. {n \in Nodes : node'[n] # Free} = {n \in Nodes : node[n] # Free}
    BY <1>2, <1>5, <1>6 DEF Node, Free
  <2> QED
    BY <1>1, <2>1, AdvanceFacts DEF IInv, ListSound
<1>9. CountDownInRange'
  <2>1. \A n \in Linked : node'[n].count_down \in 1 .. node'[n].interval
    BY <1>2, <1>3, <1>4, <1>5 DEF IInv, CountDownInRange
  <2> QED
    BY <1>1, <2>1, AdvanceFacts DEF CountDownInRange
<1> QED
  BY <1>7, <1>8, <1>9 DEF IInv

LEMMA NewNodeFacts ==
  ASSUME IInv, NEW i \in Intervals, i # 0
  PROVE  NewNode(i) \in Node /\ NewNode(i).count_down \in 1 .. NewNode(i).interval
<1>1. i \in Word /\ i \in 1 .. i /\ 0 \in Word
  BY IntervalFacts, WordFacts
<1> QED
  BY <1>1 DEF NewNode, Node, IInv, TypeOK

LEMMA AddInv ==
  ASSUME IInv, NEW n \in Nodes, NEW i \in Intervals, Add(n, i)
  PROVE  IInv'
<1>1. /\ node[n] = Free /\ i # 0 /\ passed' = <<n>> \o passed /\ ahead' = ahead
      /\ node' = [node EXCEPT ![n] = NewNode(i)]
      /\ pc' = pc /\ up' = up /\ system_tick' = system_tick
  BY DEF Add, Accepts
<1>2. n \notin Linked
  BY <1>1 DEF IInv, ListSound
<1>3. /\ passed' \in Seq(Nodes) /\ IsInjective(passed')
      /\ Range(passed') = {n} \cup Range(passed)
  BY <1>1, <1>2, PushFacts DEF IInv, TypeOK, ListSound, Linked
<1>4. Linked' = Linked \cup {n}
  BY <1>1, <1>3 DEF Linked
<1>5. node \in [Nodes -> Node \cup {Free}] /\ NewNode(i) \in Node /\ Linked \subseteq Nodes
  BY <1>1, NewNodeFacts DEF IInv, TypeOK, ListSound
<1>6. node'[n] = NewNode(i) /\ \A m \in Nodes : m # n => node'[m] = node[m]
  BY <1>1, <1>5
<1>7. node' \in [Nodes -> Node \cup {Free}] /\ NewNode(i) # Free
  <2>1. NewNode(i) \in Node \cup {Free}
    BY <1>5
  <2>2. node' \in [Nodes -> Node \cup {Free}]
    BY <1>1, <1>5, <2>1
  <2>3. NewNode(i).allocated # Free.allocated
    BY DEF NewNode, Free
  <2> QED
    BY <2>2, <2>3
<1>8. TypeOK'
  BY <1>1, <1>3, <1>7 DEF IInv, TypeOK
<1>9. ListSound'
  <2>1. Linked' = {m \in Nodes : node'[m] # Free}
    BY <1>4, <1>5, <1>6, <1>7 DEF IInv, ListSound
  <2>2. Range(passed') \cap Range(ahead') = {}
    BY <1>1, <1>2, <1>3 DEF IInv, ListSound, Linked
  <2> QED
    BY <1>1, <1>3, <2>1, <2>2 DEF IInv, ListSound
<1>10. CountDownInRange'
  <2>1. cur' = cur
    BY <1>1 DEF cur
  <2>2. NewNode(i).count_down \in 1 .. NewNode(i).interval
    BY <1>1, NewNodeFacts
  <2>3. ASSUME NEW m \in Linked'
        PROVE  \/ node'[m].count_down \in 1 .. node'[m].interval
               \/ pc' = "call" /\ m = cur'
    <3>1. CASE m = n
      BY <1>6, <2>2, <3>1
    <3>2. CASE m # n
      BY <1>1, <1>4, <1>5, <1>6, <2>1, <3>2 DEF IInv, CountDownInRange
    <3> QED
      BY <3>1, <3>2
  <2> QED
    BY <2>3 DEF CountDownInRange
<1> QED
  BY <1>8, <1>9, <1>10 DEF IInv

LEMMA RemoveInv ==
  ASSUME IInv, NEW n \in Nodes, Remove(n)
  PROVE  IInv'
<1>1. /\ node[n] # Free /\ node' = [node EXCEPT ![n].deleted = TRUE]
      /\ UNCHANGED <<system_tick, passed, ahead, pc, up>>
  BY DEF Remove
<1>2. node \in [Nodes -> Node \cup {Free}] /\ node[n] \in Node /\ Linked \subseteq Nodes
  BY <1>1 DEF IInv, TypeOK, ListSound
<1>3. /\ node'[n] \in Node
      /\ node'[n].count_down = node[n].count_down /\ node'[n].interval = node[n].interval
      /\ \A m \in Nodes : m # n => node'[m] = node[m]
  BY <1>1, <1>2 DEF Node
<1>4. node' \in [Nodes -> Node \cup {Free}] /\ node'[n] # Free
  BY <1>1, <1>2, <1>3 DEF Node, Free
<1>5. Linked' = Linked /\ cur' = cur
  BY <1>1 DEF Linked, cur
<1>6. TypeOK'
  BY <1>1, <1>4 DEF IInv, TypeOK
<1>7. ListSound'
  <2>1. {m \in Nodes : node'[m] # Free} = {m \in Nodes : node[m] # Free}
    BY <1>1, <1>3, <1>4
  <2> QED
    BY <1>1, <1>5, <2>1 DEF IInv, ListSound
<1>8. CountDownInRange'
  <2>1. ASSUME NEW m \in Linked
        PROVE  node'[m].count_down = node[m].count_down /\ node'[m].interval = node[m].interval
    BY <1>2, <1>3
  <2> QED
    BY <1>1, <1>5, <2>1 DEF IInv, CountDownInRange
<1> QED
  BY <1>6, <1>7, <1>8 DEF IInv

LEMMA NextInv ==
  ASSUME IInv, [Next]_vars
  PROVE  IInv'
<1>1. CASE Tick \/ Done
  BY <1>1, EntryInv
<1>2. CASE Visit
  BY <1>2, VisitInv
<1>3. CASE Return
  BY <1>3, ReturnInv
<1>4. CASE Api
  <2>1. CASE AddFails
    BY <2>1 DEF AddFails, IInv, TypeOK, ListSound, CountDownInRange, Linked, cur
  <2>2. CASE \E n \in Nodes : Remove(n)
    BY <2>2, RemoveInv
  <2>3. CASE \E n \in Nodes, i \in Intervals : Add(n, i)
    BY <2>3, AddInv
  <2> QED
    BY <1>4, <2>1, <2>2, <2>3 DEF Api
<1>5. CASE UNCHANGED vars
  BY <1>5 DEF vars, IInv, TypeOK, ListSound, CountDownInRange, Linked, cur
<1> QED
  BY <1>1, <1>2, <1>3, <1>4, <1>5 DEF Next, Handler

\* IInv holds in every state, whatever the callbacks do.
THEOREM Inductive == Spec => []IInv
<1>1. Init => IInv
  BY InitInv
<1>2. IInv /\ [Next]_vars => IInv'
  BY NextInv
<1> QED
  BY <1>1, <1>2, PTL DEF Spec

\* Every variable, and every field of every node, keeps its type.
THEOREM TypeCorrect == Spec => []TypeOK
BY Inductive, PTL DEF IInv

\* No leak, no use after free, no repetition in the list of timers.
THEOREM ListIsSound == Spec => []ListSound
BY Inductive, PTL DEF IInv

\* The unsigned count_down of a node never wraps, at any width.
THEOREM CountDownNeverWraps == Spec => []CountDownInRange
BY Inductive, PTL DEF IInv


----------------------------------------------------------------------------
(* The list implements the service: the service counts every timer down at *)
(* once when the tick comes; the walk counts node after node, and Left(n)  *)
(* anticipates what it has yet to do.                                      *)

LEMMA LiveFacts ==
  ASSUME IInv
  PROVE  /\ Live \subseteq Linked /\ Linked \subseteq Nodes
         /\ \A n \in Linked : node[n] \in Node /\ node[n].count_down \in Word
                              /\ node[n].interval \in Word \ {0}
                              /\ node[n].trigger_count \in Word
         /\ Service!Live = Live
<1>1. Live \subseteq Linked /\ Linked \subseteq Nodes
  BY DEF Live, IInv, ListSound
<1>2. \A n \in Linked : node[n] \in Node
  BY <1>1 DEF IInv, TypeOK, ListSound
<1>3. \A n \in Linked : node[n].count_down \in Word /\ node[n].interval \in Intervals \ {0}
                        /\ node[n].trigger_count \in Word
  BY <1>2 DEF Node
<1>4. \A n \in Linked : node[n].interval \in Word \ {0}
  BY <1>3, IntervalFacts
<1>5. Service!Live = Live
  BY DEF Service!Live, Timers
<1> QED
  BY <1>1, <1>2, <1>3, <1>4, <1>5

\* A state function that is a function on Live is determined by its entries.
LEMMA SameTimers ==
  ASSUME Live' = Live, \A n \in Live : Entry(n)' = Entry(n)
  PROVE  Timers' = Timers
BY DEF Timers

LEMMA InitRefines == Init => Service!Init
<1> SUFFICES ASSUME Init PROVE Service!Init
  OBVIOUS
<1>1. Live = {}
  BY EmptyFacts DEF Init, Live, Linked
<1>2. Timers = [h \in {} |-> Service!None]
  BY <1>1 DEF Timers
<1> QED
  BY <1>2 DEF Init, Service!Init, Current, Service!None

LEMMA TickRefines ==
  ASSUME IInv, Tick
  PROVE  Service!Tick
<1>1. /\ up /\ pc = "main" /\ ahead = <<>> /\ passed' = <<>> /\ ahead' = passed
      /\ node' = node /\ pc' = "walk" /\ up' = up
      /\ system_tick' = (system_tick + 1) % Width
  BY DEF Tick, IInv, ListSound
<1>2. Range(ahead) = {} /\ Range(passed') = {} /\ Linked = Range(ahead')
  BY <1>1, EmptyFacts DEF Linked
<1>3. Linked' = Linked /\ Live' = Live
  BY <1>1, <1>2 DEF Linked, Live
<1>4. \A n \in Live : Left(n) = node[n].count_down /\ Left(n)' = Left(n) - 1
                      /\ Fired(n) = node[n].trigger_count /\ Fired(n)' = Fired(n)
  BY <1>1, <1>2, LiveFacts DEF Left, Fired
<1>5. \A n \in Live : Timers[n].left > 0
  <2>1. ASSUME NEW n \in Live
        PROVE  node[n].count_down > 0
    BY <1>1, <2>1, LiveFacts DEF IInv, CountDownInRange, Word
  <2> QED
    BY <1>4, <2>1 DEF Timers, Entry
<1>6. Timers' = [h \in Live |-> [Timers[h] EXCEPT !.left = @ - 1]]
  <2>1. ASSUME NEW n \in Live
        PROVE  Entry(n)' = [Timers[n] EXCEPT !.left = @ - 1]
    BY <1>1, <1>4 DEF Timers, Entry
  <2> QED
    BY <1>3, <2>1 DEF Timers
<1>7. Current = Service!None /\ Current' = Current
  BY <1>1 DEF Current, Service!None
<1> QED
  BY <1>1, <1>5, <1>6, <1>7, LiveFacts DEF Service!Tick

LEMMA UnlinkRefines ==
  ASSUME IInv, Unlink
  PROVE  UNCHANGED <<system_tick, Timers, Current, up>>
<1>1. /\ ahead # <<>> /\ pc = "walk" /\ pc' = pc /\ node[cur].deleted
      /\ node' = [node EXCEPT ![cur] = Free] /\ passed' = passed /\ ahead' = Tail(ahead)
      /\ system_tick' = system_tick /\ up' = up
  BY DEF Unlink, Visiting
<1>2. Range(ahead') = Range(ahead) \ {cur} /\ Linked' = Linked \ {cur} /\ cur \notin Live
  BY <1>1, CursorFacts DEF Linked, Live
<1>3. \A n \in Nodes : n # cur => node'[n] = node[n]
  BY <1>1 DEF IInv, TypeOK
<1>4. Live' = Live
  BY <1>2, <1>3, LiveFacts DEF Live
<1>5. ASSUME NEW n \in Live
      PROVE  Entry(n)' = Entry(n)
  <2>1. n # cur /\ node'[n] = node[n] /\ (n \in Range(ahead') <=> n \in Range(ahead))
    BY <1>2, <1>3, LiveFacts
  <2> QED
    BY <1>1, <2>1 DEF Entry, Left, Fired
<1> QED
  BY <1>1, <1>4, <1>5, SameTimers DEF Current

LEMMA CountDownRefines ==
  ASSUME IInv, CountDown
  PROVE  UNCHANGED <<system_tick, Timers, Current, up>>
<1>1. /\ ahead # <<>> /\ pc = "walk" /\ pc' = pc /\ Advance
      /\ node' = [node EXCEPT ![cur].count_down = Counted]
      /\ system_tick' = system_tick /\ up' = up
  BY DEF CountDown, Visiting
<1>2. cur \in Nodes /\ cur \in Linked /\ cur \in Range(ahead) /\ node[cur] \in Node
  BY <1>1, CursorFacts DEF Linked
<1>3. Counted = node[cur].count_down - 1
  <2>1. node[cur].count_down \in Word \ {0}
    BY <1>1, <1>2, LiveFacts DEF IInv, CountDownInRange, Word
  <2> QED
    BY <2>1, WordFacts DEF Counted
<1>4. /\ Linked' = Linked
      /\ Range(ahead') = Range(ahead) \ {cur}
  BY <1>1, AdvanceFacts
<1>5. /\ \A n \in Nodes : n # cur => node'[n] = node[n]
      /\ node'[cur] = [node[cur] EXCEPT !.count_down = Counted]
  BY <1>1, <1>2 DEF IInv, TypeOK
<1>6. Live' = Live
  <2>1. \A n \in Linked : node'[n].deleted = node[n].deleted
    BY <1>2, <1>5, LiveFacts DEF Node
  <2> QED
    BY <1>4, <2>1 DEF Live
<1>7. ASSUME NEW n \in Live
      PROVE  Entry(n)' = Entry(n)
  <2>1. CASE n = cur
    <3>1. Left(n) = node[cur].count_down - 1 /\ Left(n)' = node'[cur].count_down
      BY <1>1, <1>2, <1>4, <2>1 DEF Left
    <3>2. node'[cur].count_down = Counted /\ node'[cur].interval = node[cur].interval
          /\ node'[cur].trigger_count = node[cur].trigger_count
          /\ node'[cur].since = node[cur].since
      BY <1>2, <1>5 DEF Node
    <3> QED
      BY <1>1, <1>3, <2>1, <3>1, <3>2 DEF Entry, Fired
  <2>2. CASE n # cur
    <3>1. node'[n] = node[n] /\ (n \in Range(ahead') <=> n \in Range(ahead))
      BY <1>4, <1>5, <2>2, LiveFacts
    <3>2. pc = "walk" /\ pc' = "walk"
      BY <1>1
    <3>3. Left(n)' = Left(n) /\ Fired(n)' = Fired(n)
      BY <3>1, <3>2 DEF Left, Fired
    <3> QED
      BY <3>1, <3>3 DEF Entry
  <2> QED
    BY <2>1, <2>2
<1> QED
  BY <1>1, <1>6, <1>7, SameTimers DEF Current

LEMMA CallRefines ==
  ASSUME IInv, Call
  PROVE  Service!Fire(cur)
<1>1. /\ up /\ ahead # <<>> /\ pc = "walk" /\ pc' = "call" /\ Counted = 0 /\ ~node[cur].deleted
      /\ node' = [node EXCEPT ![cur].count_down = 0] /\ passed' = passed /\ ahead' = ahead
      /\ system_tick' = system_tick /\ up' = up
  BY DEF Call, Visiting
<1>2. cur \in Nodes /\ cur \in Linked /\ cur \in Range(ahead) /\ node[cur] \in Node
  BY <1>1, CursorFacts DEF Linked
<1>3. node[cur].count_down - 1 = 0
  <2>1. node[cur].count_down \in Word \ {0}
    BY <1>1, <1>2, LiveFacts DEF IInv, CountDownInRange, Word
  <2> QED
    BY <1>1, <2>1, WordFacts DEF Counted
<1>4. cur' = cur /\ Linked' = Linked /\ cur \in Live
  BY <1>1, <1>2 DEF cur, Linked, Live
<1>5. /\ \A n \in Nodes : n # cur => node'[n] = node[n]
      /\ node'[cur] = [node[cur] EXCEPT !.count_down = 0]
  BY <1>1, <1>2 DEF IInv, TypeOK
<1>6. /\ node'[cur].interval = node[cur].interval /\ node'[cur].deleted = node[cur].deleted
      /\ node'[cur].trigger_count = node[cur].trigger_count
      /\ node'[cur].since = node[cur].since
  BY <1>2, <1>5 DEF Node
<1>7. Live' = Live
  BY <1>4, <1>5, <1>6, LiveFacts DEF Live
<1>8. ASSUME NEW n \in Live, n # cur
      PROVE  Entry(n)' = Entry(n)
  BY <1>1, <1>4, <1>5, <1>8, LiveFacts DEF Entry, Left, Fired
<1>9. Left(cur) = 0 /\ Fired(cur) = node[cur].trigger_count
  BY <1>1, <1>2, <1>3 DEF Left, Fired
<1>10. ASSUME NEW n \in Live, n = cur
       PROVE  Entry(n)' = Service!Called(Entry(n))
  <2>1. Left(n)' = node[n].interval
        /\ Fired(n)' = (node[n].trigger_count + 1) % Width
    BY <1>1, <1>2, <1>4, <1>6, <1>10 DEF Left, Fired
  <2>2. Entry(n)' = [interval |-> node[n].interval, left |-> node[n].interval,
                     count |-> (node[n].trigger_count + 1) % Width,
                     since |-> node[n].since]
    BY <1>6, <1>10, <2>1 DEF Entry
  <2>3. Entry(n).count = node[n].trigger_count
    BY <1>9, <1>10 DEF Entry
  <2> QED
    BY <2>2, <2>3 DEF Entry, Service!Called
<1>11. Timers[cur] = Entry(cur) /\ Timers[cur].left = 0
       /\ Timers[cur].interval = node[cur].interval
       /\ Timers[cur].count = node[cur].trigger_count
  BY <1>4, <1>9 DEF Timers, Entry
<1>12. Timers' = [Timers EXCEPT ![cur] = Service!Called(Timers[cur])]
  <2>1. Timers' = [n \in Live |-> Entry(n)']
    BY <1>7 DEF Timers
  <2> QED
    BY <1>4, <1>8, <1>10, <2>1 DEF Timers
<1>13. Current = Service!None
       /\ Current' = [busy |-> TRUE, handle |-> cur, count |-> Timers[cur].count]
  BY <1>1, <1>4, <1>6, <1>11 DEF Current, Service!None
<1> QED
  BY <1>1, <1>4, <1>11, <1>12, <1>13, LiveFacts DEF Service!Fire

LEMMA ReturnRefines ==
  ASSUME IInv, Return
  PROVE  Service!Return
<1>1. /\ up /\ ahead # <<>> /\ pc = "call" /\ pc' = "walk" /\ Advance
      /\ node' = [node EXCEPT ![cur].trigger_count = (@ + 1) % Width,
                              ![cur].count_down = node[cur].interval]
      /\ system_tick' = system_tick /\ up' = up
  BY DEF Return, IInv, ListSound
<1>2. cur \in Nodes /\ cur \in Linked /\ cur \in Range(ahead) /\ node[cur] \in Node
  BY <1>1, CursorFacts DEF Linked
<1>3. Linked' = Linked /\ Range(ahead') = Range(ahead) \ {cur}
  BY <1>1, AdvanceFacts
<1>4. /\ \A n \in Nodes : n # cur => node'[n] = node[n]
      /\ node'[cur] = [node[cur] EXCEPT !.trigger_count = (@ + 1) % Width,
                                        !.count_down = node[cur].interval]
  BY <1>1, <1>2 DEF IInv, TypeOK
<1>5. /\ node'[cur].interval = node[cur].interval /\ node'[cur].deleted = node[cur].deleted
      /\ node'[cur].since = node[cur].since /\ node'[cur].count_down = node[cur].interval
      /\ node'[cur].trigger_count = (node[cur].trigger_count + 1) % Width
  BY <1>2, <1>4 DEF Node
<1>6. Live' = Live
  BY <1>3, <1>4, <1>5, LiveFacts DEF Live
<1>7. ASSUME NEW n \in Live
      PROVE  Entry(n)' = Entry(n)
  <2>1. CASE n = cur
    <3>1. Left(n) = node[cur].interval /\ Left(n)' = node[cur].interval
      BY <1>1, <1>2, <1>3, <1>5, <2>1 DEF Left
    <3>2. Fired(n)' = Fired(n)
      BY <1>1, <1>5, <2>1 DEF Fired
    <3> QED
      BY <1>5, <2>1, <3>1, <3>2 DEF Entry
  <2>2. CASE n # cur
    <3>1. node'[n] = node[n] /\ (n \in Range(ahead') <=> n \in Range(ahead))
      BY <1>3, <1>4, <2>2, LiveFacts
    <3>2. Left(n)' = Left(n) /\ Fired(n)' = Fired(n)
      BY <1>1, <2>2, <3>1 DEF Left, Fired
    <3> QED
      BY <3>1, <3>2 DEF Entry
  <2> QED
    BY <2>1, <2>2
<1>8. Timers' = Timers
  BY <1>6, <1>7, SameTimers
<1>9. Current # Service!None /\ Current' = Service!None
  <2>1. Current.busy # Service!None.busy
    BY <1>1 DEF Current, Service!None
  <2> QED
    BY <1>1, <2>1 DEF Current, Service!None
<1> QED
  BY <1>1, <1>8, <1>9 DEF Service!Return

LEMMA AddRefines ==
  ASSUME IInv, NEW n \in Nodes, NEW i \in Intervals, Add(n, i)
  PROVE  i \in Intervals \ {0} /\ Service!Add(n, i)
<1>1. /\ up /\ pc \in {"main", "call"} /\ i # 0 /\ node[n] = Free
      /\ node' = [node EXCEPT ![n] = NewNode(i)]
      /\ passed' = <<n>> \o passed /\ ahead' = ahead
      /\ pc' = pc /\ up' = up /\ system_tick' = system_tick
  BY DEF Add, Accepts, Caller
<1>2. n \notin Linked /\ n \notin Range(ahead)
  BY <1>1 DEF IInv, ListSound, Linked
<1>3. Linked' = Linked \cup {n} /\ cur' = cur
  BY <1>1, PushFacts DEF IInv, TypeOK, Linked, cur
<1>4. node'[n] = NewNode(i) /\ \A m \in Nodes : m # n => node'[m] = node[m]
  BY <1>1 DEF IInv, TypeOK
<1>5. Live' = Live \cup {n} /\ n \notin Live
  BY <1>2, <1>3, <1>4, LiveFacts DEF Live, NewNode
<1>6. ASSUME NEW m \in Live
      PROVE  Entry(m)' = Entry(m)
  <2>1. m # n /\ node'[m] = node[m]
    BY <1>4, <1>5, LiveFacts
  <2> QED
    BY <1>1, <1>3, <2>1 DEF Entry, Left, Fired
<1>7. pc = "call" => n # cur
  BY <1>2, CursorFacts DEF IInv, ListSound
<1>8. Entry(n)' = [interval |-> i, left |-> i, count |-> 0, since |-> system_tick]
  <2>1. Left(n)' = i /\ Fired(n)' = 0
    BY <1>1, <1>2, <1>3, <1>4, <1>7 DEF Left, Fired, NewNode
  <2> QED
    BY <1>4, <2>1 DEF Entry, NewNode
<1>9. Timers' = [g \in Live \cup {n} |->
                   IF g = n
                     THEN [interval |-> i, left |-> i, count |-> 0, since |-> system_tick]
                     ELSE Timers[g]]
  BY <1>5, <1>6, <1>8 DEF Timers
<1>10. Current' = Current
  <2>1. CASE pc = "call"
    <3>1. cur \in Nodes /\ cur # n
      BY <1>7, <2>1, CursorFacts DEF IInv, ListSound
    <3> QED
      BY <1>1, <1>3, <1>4, <2>1, <3>1 DEF Current
  <2>2. CASE pc # "call"
    BY <1>1, <2>2 DEF Current
  <2> QED
    BY <2>1, <2>2
<1> QED
  BY <1>1, <1>5, <1>9, <1>10, LiveFacts DEF Service!Add

\* The first remove() of a timer ends it; a second one changes nothing.
LEMMA RemoveRefines ==
  ASSUME IInv, NEW n \in Nodes, Remove(n)
  PROVE  Service!Remove(n) \/ UNCHANGED <<system_tick, Timers, Current, up>>
<1>1. /\ up /\ pc \in {"main", "call"} /\ node[n] # Free
      /\ node' = [node EXCEPT ![n].deleted = TRUE]
      /\ passed' = passed /\ ahead' = ahead
      /\ pc' = pc /\ up' = up /\ system_tick' = system_tick
  BY DEF Remove, Caller
<1>2. n \in Linked /\ node[n] \in Node /\ Linked' = Linked /\ cur' = cur
  BY <1>1 DEF IInv, ListSound, TypeOK, Linked, cur
<1>3. /\ \A m \in Nodes : m # n => node'[m] = node[m]
      /\ node'[n] = [node[n] EXCEPT !.deleted = TRUE]
  BY <1>1 DEF IInv, TypeOK
<1>4. /\ node'[n].deleted
      /\ node'[n].trigger_count = node[n].trigger_count
  BY <1>2, <1>3 DEF Node
<1>5. Live' = Live \ {n}
  BY <1>2, <1>3, <1>4, LiveFacts DEF Live
<1>6. ASSUME NEW m \in Live, m # n
      PROVE  Entry(m)' = Entry(m)
  <2>1. node'[m] = node[m]
    BY <1>3, <1>6, LiveFacts
  <2> QED
    BY <1>1, <1>2, <2>1 DEF Entry, Left, Fired
<1>7. Current' = Current
  <2>1. CASE pc = "call"
    <3>1. cur \in Nodes
      BY <2>1, CursorFacts DEF IInv, ListSound
    <3>2. node'[cur].trigger_count = node[cur].trigger_count
      BY <1>3, <1>4, <3>1
    <3> QED
      BY <1>1, <1>2, <2>1, <3>2 DEF Current
  <2>2. CASE pc # "call"
    BY <1>1, <2>2 DEF Current
  <2> QED
    BY <2>1, <2>2
<1>8. CASE n \in Live
  <2>1. Timers' = [g \in Live \ {n} |-> Timers[g]]
    BY <1>5, <1>6 DEF Timers
  <2> QED
    BY <1>1, <1>7, <1>8, <2>1, LiveFacts DEF Service!Remove
<1>9. CASE n \notin Live
  <2>1. Timers' = Timers
    BY <1>5, <1>6, <1>9, SameTimers
  <2> QED
    BY <1>1, <1>7, <2>1
<1> QED
  BY <1>8, <1>9

LEMMA StepRefines ==
  ASSUME IInv, [Next]_vars
  PROVE  [Service!Next]_(Service!vars)
<1>1. CASE Tick
  BY <1>1, TickRefines DEF Service!Next
<1>2. CASE Unlink \/ CountDown
  BY <1>2, UnlinkRefines, CountDownRefines DEF Service!vars
<1>3. CASE Call
  <2>1. cur \in Nodes
    BY <1>3, CursorFacts DEF Call, Visiting
  <2> QED
    BY <1>3, <2>1, CallRefines DEF Service!Next
<1>4. CASE Return
  BY <1>4, ReturnRefines DEF Service!Next
<1>5. CASE Done \/ UNCHANGED vars
  <2>1. /\ system_tick' = system_tick /\ node' = node /\ passed' = passed /\ ahead' = ahead
        /\ up' = up /\ (pc' = "call" <=> pc = "call")
    BY <1>5 DEF Done, vars
  <2>2. Timers' = Timers /\ Current' = Current
    BY <2>1 DEF Timers, Live, Linked, Entry, Left, Fired, Current, cur
  <2> QED
    BY <2>1, <2>2 DEF Service!vars
<1>6. CASE AddFails
  <2>1. Timers' = Timers /\ Current' = Current
    BY <1>6 DEF AddFails, Timers, Live, Linked, Entry, Left, Fired, Current, cur
  <2> QED
    BY <1>6, <2>1 DEF AddFails, Caller, Service!Stop, Service!Next
<1>7. CASE \E n \in Nodes : Remove(n)
  BY <1>7, RemoveRefines DEF Service!Next, Service!vars
<1>8. CASE \E n \in Nodes, i \in Intervals : Add(n, i)
  BY <1>8, AddRefines DEF Service!Next
<1> QED
  BY <1>1, <1>2, <1>3, <1>4, <1>5, <1>6, <1>7, <1>8 DEF Next, Handler, Visit, Api

\* The linked list, walked by the handler and changed by callbacks under the
\* walk, implements the service, for any number of timers and any width.
THEOREM Refinement == Spec => ImplementsService
<1>1. Init => Service!Init
  BY InitRefines
<1>2. IInv /\ [Next]_vars => [Service!Next]_(Service!vars)
  BY StepRefines
<1> QED
  BY <1>1, <1>2, Inductive, PTL DEF Spec, ImplementsService, Service!Spec


----------------------------------------------------------------------------
(* Counters that wrap: remainders for any modulus                          *)

LEMMA Division ==
  ASSUME NEW a \in Int, NEW w \in Nat \ {0}
  PROVE  /\ a \div w \in Int /\ a % w \in 0 .. w - 1
         /\ a = w * (a \div w) + (a % w)
OBVIOUS

LEMMA AtLeast ==
  ASSUME NEW w \in Nat \ {0}, NEW d \in Int
  PROVE  w * d \in Int /\ (d >= 1 => w * d >= w) /\ (d <= -1 => w * d <= -w)
OBVIOUS

LEMMA Distribute ==
  ASSUME NEW w \in Nat, NEW j \in Int, NEW k \in Int
  PROVE  w * (j - k) = w * j - w * k /\ w * j \in Int /\ w * k \in Int
OBVIOUS

\* A number is divided in one way only.
LEMMA Unique ==
  ASSUME NEW w \in Nat \ {0}, NEW k \in Int, NEW j \in Int,
         NEW r \in 0 .. w - 1, NEW s \in 0 .. w - 1,
         w * k + r = w * j + s
  PROVE  r = s
<1>1. w * (j - k) = r - s /\ j - k \in Int
  BY Distribute
<1>2. j - k = 0 \/ j - k >= 1 \/ j - k <= -1
  OBVIOUS
<1>3. CASE j - k = 0
  BY <1>1, <1>3
<1>4. CASE j - k >= 1
  BY <1>1, <1>4, AtLeast
<1>5. CASE j - k <= -1
  BY <1>1, <1>5, AtLeast
<1> QED BY <1>2, <1>3, <1>4, <1>5

\* Full turns of a counter.
Turned(a, q, w) == a + w * q

\* They leave the remainder.
LEMMA Remainder ==
  ASSUME NEW a \in Int, NEW q \in Int, NEW w \in Nat \ {0}
  PROVE  Turned(a, q, w) \in Int /\ Turned(a, q, w) % w = a % w
<1> DEFINE b == a + w * q
           k == a \div w
           j == b \div w
           r == a % w
           s == b % w
<1>0. w * q \in Int /\ b \in Int
  OBVIOUS
<1>1. k \in Int /\ r \in 0 .. w - 1 /\ a = w * k + r
  BY Division
<1>2. j \in Int /\ s \in 0 .. w - 1 /\ b = w * j + s
  BY Division, <1>0
<1>3. b = a + w * q
  OBVIOUS
<1> HIDE DEF k, j, r, s, b
<1>4. w * (k + q) = w * k + w * q /\ w * k \in Int /\ k + q \in Int
  BY <1>1
<1>5. w * (k + q) + r = w * j + s
  BY <1>0, <1>1, <1>2, <1>3, <1>4
<1>6. r = s
  BY <1>1, <1>2, <1>4, <1>5, Unique
<1> QED BY <1>0, <1>6 DEF r, s, b, Turned

\* The remainder is the number but for some turns.
LEMMA Quotient ==
  ASSUME NEW a \in Int, NEW w \in Nat \ {0}
  PROVE  \E q \in Int : a % w = Turned(a, q, w)
<1>1. -(a \div w) \in Int /\ w * (-(a \div w)) = -(w * (a \div w))
  BY Division
<1>2. a % w = a + w * (-(a \div w))
  BY <1>1, Division
<1>3. QED BY <1>1, <1>2 DEF Turned

LEMMA Moved ==
  ASSUME NEW a \in Int, NEW b \in Int, NEW q \in Int, NEW w \in Nat
  PROVE  Turned(a, q, w) + b = Turned(a + b, q, w)
<1>1. w * q \in Int
  OBVIOUS
<1>2. QED BY <1>1 DEF Turned

Congruent(a, b, w) == a % w = b % w

\* Two numbers with the same remainder are turns apart.
LEMMA Apart ==
  ASSUME NEW a \in Int, NEW b \in Int, NEW w \in Nat \ {0}, Congruent(a, b, w)
  PROVE  \E q \in Int : a = Turned(b, q, w)
<1>1. PICK k \in Int, r \in 0 .. w - 1 : a = w * k + r /\ r = a % w
  BY Division, Zenon
<1>2. PICK j \in Int, s \in 0 .. w - 1 : b = w * j + s /\ s = b % w
  BY Division, Zenon
<1>3. r = s
  BY <1>1, <1>2, Zenon DEF Congruent
<1>4. w * (k - j) = w * k - w * j /\ w * k \in Int /\ w * j \in Int /\ k - j \in Int
  BY Distribute
<1>5. a = w * k + r /\ b = w * j + r
  BY <1>1, <1>2, <1>3, Zenon
<1>6. a = b + w * (k - j)
  BY <1>4, <1>5
<1>7. QED BY <1>4, <1>6 DEF Turned

\* A term of a sum may be replaced by a congruent one.
LEMMA SumOf ==
  ASSUME NEW a \in Int, NEW b \in Int, NEW c \in Int, NEW w \in Nat \ {0},
         Congruent(a, b, w)
  PROVE  Congruent(a + c, b + c, w)
<1>1. PICK q \in Int : a = Turned(b, q, w)
  BY Apart
<1>2. a + c = Turned(b + c, q, w) /\ b + c \in Int
  BY <1>1, Moved
<1>3. Turned(b + c, q, w) % w = (b + c) % w
  BY <1>2, Remainder
<1>4. QED BY <1>2, <1>3, Zenon DEF Congruent

\* So may a factor of a product.
LEMMA ProductOf ==
  ASSUME NEW a \in Int, NEW b \in Int, NEW c \in Int, NEW w \in Nat \ {0},
         Congruent(a, b, w)
  PROVE  Congruent(a * c, b * c, w)
<1>1. PICK q \in Int : a = Turned(b, q, w)
  BY Apart
<1>2. (b + w * q) * c = b * c + w * (q * c) /\ b * c \in Int /\ q * c \in Int
  OBVIOUS
<1>3. a * c = Turned(b * c, q * c, w)
  BY <1>1, <1>2 DEF Turned
<1>4. Turned(b * c, q * c, w) % w = (b * c) % w
  BY <1>2, Remainder
<1>5. QED BY <1>3, <1>4, Zenon DEF Congruent

\* A remainder stands for its number.
LEMMA Reduced ==
  ASSUME NEW a \in Int, NEW w \in Nat \ {0}
  PROVE  (a % w) \in Int /\ Congruent(a % w, a, w)
<1>1. PICK q \in Int : a % w = Turned(a, q, w)
  BY Quotient
<1>2. Turned(a, q, w) \in Int /\ Turned(a, q, w) % w = a % w
  BY Remainder
<1>3. QED BY <1>1, <1>2, Zenon DEF Congruent

----------------------------------------------------------------------------
(* The schedule                                                            *)

Entries == [interval : Int, left : Int, count : Int, since : Int]

Scheduled(tick, t) ==
  (tick - t.since) % Width = (t.count * t.interval + t.interval - t.left) % Width

LEMMA WidthFacts == Width \in Nat \ {0} /\ \A x \in Word : x \in Int
BY TimerAssumption DEF Word

\* A tick brings the next call nearer by one.
LEMMA TickSchedule ==
  ASSUME NEW tick \in Int, NEW t \in Entries, Scheduled(tick, t)
  PROVE  Scheduled((tick + 1) % Width, [t EXCEPT !.left = @ - 1])
<1> DEFINE x == t.count * t.interval + t.interval - t.left
           s == t.since
<1>1. s \in Int /\ x \in Int /\ tick - s \in Int /\ tick + 1 \in Int
      /\ (tick - s) + 1 = (tick + 1) + (-s) /\ -s \in Int
  BY DEF Entries
<1>2. [t EXCEPT !.left = @ - 1].since = s
      /\ [t EXCEPT !.left = @ - 1].count * [t EXCEPT !.left = @ - 1].interval
           + [t EXCEPT !.left = @ - 1].interval - [t EXCEPT !.left = @ - 1].left = x + 1
  <2>1. PICK c \in Int, i \in Int, l \in Int, z \in Int :
          t = [interval |-> i, left |-> l, count |-> c, since |-> z]
    BY DEF Entries
  <2>2. c * i \in Int /\ c * i + i - (l - 1) = c * i + i - l + 1
    OBVIOUS
  <2>3. QED BY <2>1, <2>2
<1>3. Congruent(tick - s, x, Width)
  BY DEF Scheduled, Congruent
<1>4. Width \in Nat \ {0} /\ 1 \in Int
  BY WidthFacts
<1> HIDE DEF x, s
<1>5. ((tick + 1) % Width) \in Int /\ Congruent((tick + 1) % Width, tick + 1, Width)
  BY <1>1, <1>4, Reduced, Zenon
<1>6. Congruent(((tick + 1) % Width) + (-s), (tick + 1) + (-s), Width)
  BY <1>1, <1>4, <1>5, SumOf, Zenon
<1>7. Congruent((tick - s) + 1, x + 1, Width)
  BY <1>1, <1>3, <1>4, SumOf, Zenon
<1>8. (((tick + 1) % Width) - s) = (((tick + 1) % Width) + (-s))
  BY <1>1, <1>5
<1>9. (((tick + 1) % Width) - s) % Width = (x + 1) % Width
  BY <1>1, <1>6, <1>7, <1>8, Zenon DEF Congruent
<1>10. QED BY <1>2, <1>9, Zenon DEF Scheduled

\* A call moves a whole interval from the time to go to the count.
LEMMA FireSchedule ==
  ASSUME NEW tick \in Int, NEW t \in Entries, Scheduled(tick, t), t.left = 0
  PROVE  Scheduled(tick, Service!Called(t))
<1>1. PICK c \in Int, i \in Int, z \in Int :
        /\ t = [interval |-> i, left |-> 0, count |-> c, since |-> z]
        /\ c = t.count /\ i = t.interval /\ z = t.since
  BY DEF Entries
<1>2. c + 1 \in Int /\ Width \in Nat \ {0}
  BY WidthFacts
<1>3. ((c + 1) % Width) \in Int /\ Congruent((c + 1) % Width, c + 1, Width)
  BY <1>2, Reduced, Zenon
<1>4. Congruent(((c + 1) % Width) * i, (c + 1) * i, Width)
  BY <1>2, <1>3, ProductOf, Zenon
<1>5. PICK k \in Int : k = (c + 1) % Width
  BY <1>3
<1>6. (c + 1) * i = c * i + i - 0 /\ k * i + i - i = k * i
  OBVIOUS
<1>7. (tick - z) % Width = (c * i + i - 0) % Width
  BY <1>1, Zenon DEF Scheduled
<1>8. (tick - z) % Width = (k * i + i - i) % Width
  BY <1>4, <1>5, <1>6, <1>7, Zenon DEF Congruent
<1>9. Service!Called(t) = [interval |-> i, left |-> i, count |-> k, since |-> z]
  BY <1>1, <1>5 DEF Service!Called
<1>10. QED BY <1>8, <1>9 DEF Scheduled

LEMMA EntryFacts ==
  ASSUME IInv, NEW n \in Live
  PROVE  Timers[n] \in Entries
<1>1. n \in Nodes /\ n \in Linked /\ node[n] \in Node
  BY LiveFacts
<1>2. node[n].interval \in Int /\ node[n].count_down \in Int /\ node[n].trigger_count \in Int
      /\ node[n].since \in Int
  <2>1. node[n].since \in Word
    BY <1>1 DEF Node
  <2>2. QED BY <1>1, <2>1, LiveFacts, WidthFacts
<1>3. Left(n) \in Int
  BY <1>2 DEF Left
<1>4. ((node[n].trigger_count + 1) % Width) \in Int
  <2>1. node[n].trigger_count + 1 \in Int /\ Width \in Nat \ {0}
    BY <1>2, WidthFacts
  <2>2. QED BY <2>1, Reduced, Zenon
<1>5. Fired(n) \in Int
  BY <1>2, <1>4, Zenon DEF Fired
<1>6. QED BY <1>2, <1>3, <1>5 DEF Timers, Entry, Entries

\* The ticks since add() are the periods called back and part of one more.
Elapsed == \A h \in Service!Live : Scheduled(system_tick, Timers[h])

LEMMA ScheduleStep ==
  ASSUME IInv, Elapsed, [Service!Next]_(Service!vars)
  PROVE  Elapsed'
<1>1. PICK a, t, b, u : a = Timers /\ t = system_tick /\ b = Timers' /\ u = system_tick'
  OBVIOUS
<1>2. /\ Elapsed <=> \A h \in DOMAIN a : Scheduled(t, a[h])
      /\ Elapsed' <=> \A h \in DOMAIN b : Scheduled(u, b[h])
  BY <1>1 DEF Elapsed, Service!Live
<1>3. t \in Int /\ \A h \in DOMAIN a : a[h] \in Entries
  BY <1>1, EntryFacts, LiveFacts, WidthFacts DEF IInv, TypeOK, Service!Live
<1>4. CASE Service!Tick
  <2>1. u = (t + 1) % Width /\ b = [h \in DOMAIN a |-> [a[h] EXCEPT !.left = @ - 1]]
    BY <1>1, <1>4 DEF Service!Tick, Service!Live
  <2>2. ASSUME NEW h \in DOMAIN b PROVE Scheduled(u, b[h])
    <3>1. h \in DOMAIN a /\ b[h] = [a[h] EXCEPT !.left = @ - 1]
      BY <2>1
    <3>2. Scheduled(t, a[h])
      BY <1>2, <3>1
    <3>3. QED BY <1>3, <2>1, <3>1, <3>2, TickSchedule
  <2>3. QED BY <1>2, <2>2
<1>5. ASSUME NEW g \in Nodes, Service!Fire(g)
      PROVE  Elapsed'
  <2>1. u = t /\ g \in DOMAIN a /\ a[g].left = 0 /\ b = [a EXCEPT ![g] = Service!Called(a[g])]
    BY <1>1, <1>5 DEF Service!Fire, Service!Live
  <2>2. Scheduled(t, Service!Called(a[g]))
    BY <1>2, <1>3, <2>1, FireSchedule
  <2>3. ASSUME NEW h \in DOMAIN b PROVE Scheduled(u, b[h])
    BY <1>2, <2>1, <2>2
  <2>4. QED BY <1>2, <2>3
<1>6. ASSUME NEW g \in Nodes, NEW i \in Intervals \ {0}, Service!Add(g, i)
      PROVE  Elapsed'
  <2> DEFINE new == [interval |-> i, left |-> i, count |-> 0, since |-> t]
  <2>1. u = t /\ b = [h \in DOMAIN a \cup {g} |-> IF h = g THEN new ELSE a[h]]
    BY <1>1, <1>6 DEF Service!Add, Service!Live
  <2>2. i \in Int
    BY TimerAssumption
  <2>3. t - t = 0 /\ 0 * i + i - i = 0
    BY <1>3, <2>2
  <2>4. Scheduled(t, new)
    BY <2>3 DEF Scheduled
  <2> HIDE DEF new
  <2>5. ASSUME NEW h \in DOMAIN b PROVE Scheduled(u, b[h])
    BY <1>2, <2>1, <2>4
  <2>6. QED BY <1>2, <2>5
<1>7. ASSUME NEW g \in Nodes, Service!Remove(g)
      PROVE  Elapsed'
  <2>1. u = t /\ b = [h \in DOMAIN a \ {g} |-> a[h]]
    BY <1>1, <1>7 DEF Service!Remove, Service!Live
  <2>2. ASSUME NEW h \in DOMAIN b PROVE Scheduled(u, b[h])
    BY <1>2, <2>1
  <2>3. QED BY <1>2, <2>2
<1>8. CASE Service!Return \/ Service!Stop \/ UNCHANGED Service!vars
  <2>1. u = t /\ b = a
    BY <1>1, <1>8 DEF Service!Return, Service!Stop, Service!vars
  <2>2. QED BY <1>2, <2>1
<1>9. QED BY <1>4, <1>5, <1>6, <1>7, <1>8 DEF Service!Next

\* The next call of a timer is at most an interval away, and no walk ends
\* with a call still due.
LEMMA NextCallInReach ==
  ASSUME IInv, NEW n \in Live
  PROVE  /\ Left(n) \in 0 .. node[n].interval
         /\ pc = "main" => Left(n) > 0
<1>1. n \in Nodes /\ n \in Linked /\ node[n] \in Node
  BY LiveFacts
<1>2. node[n].interval \in Word /\ node[n].count_down \in Word
      /\ node[n].interval \in 1 .. node[n].interval
  BY <1>1, IntervalFacts DEF Node
<1>3. node[n].interval \in Int /\ node[n].interval > 0 /\ node[n].count_down \in Int
  BY <1>2, WidthFacts
<1>4. CASE pc = "call" /\ n = cur
  <2>1. n \in Range(ahead)
    BY <1>4, CursorFacts DEF IInv, ListSound
  <2>2. Left(n) = node[n].interval
    BY <1>4, <2>1 DEF Left
  <2>3. QED BY <1>3, <1>4, <2>2
<1>5. CASE ~(pc = "call" /\ n = cur)
  <2>1. node[n].count_down \in 1 .. node[n].interval
    BY <1>1, <1>5 DEF IInv, CountDownInRange
  <2>2. CASE n \in Range(ahead)
    <3>1. pc # "main"
      BY <2>2, EmptyFacts DEF IInv, ListSound
    <3>2. Left(n) = node[n].count_down - 1
      BY <1>5, <2>2 DEF Left
    <3>3. QED BY <1>3, <2>1, <3>1, <3>2
  <2>3. CASE n \notin Range(ahead)
    <3>1. Left(n) = node[n].count_down
      BY <2>3 DEF Left
    <3>2. QED BY <1>3, <2>1, <3>1
  <2>4. QED BY <2>2, <2>3
<1>6. QED BY <1>4, <1>5

\* At every moment the calls that a timer has had are the whole intervals that
\* have passed since its add(), the next call is at most an interval away, and
\* when the handler is not in its walk none is due: callbacks that change the
\* list under the walk neither delay a call nor repeat it, and no count_down
\* wraps past zero and leaves its timer uncalled (handler(), timer.cc:32-65).
THEOREM CallsOnSchedule == Spec => []OnSchedule
<1>1. Init => Elapsed
  <2> SUFFICES ASSUME Init PROVE Elapsed
    OBVIOUS
  <2>1. Live = {}
    BY EmptyFacts DEF Init, Live, Linked
  <2>2. QED BY <2>1 DEF Elapsed, Service!Live, Timers
<1>2. Elapsed /\ IInv /\ [Next]_vars => Elapsed'
  BY StepRefines, ScheduleStep
<1>3. Elapsed /\ IInv => OnSchedule
  <2> SUFFICES ASSUME Elapsed, IInv PROVE OnSchedule
    OBVIOUS
  <2>1. Service!Live = Live
    BY DEF Service!Live, Timers
  <2>2. ASSUME NEW n \in Live
        PROVE  /\ Timers[n].left \in 0 .. Timers[n].interval
               /\ (system_tick - Timers[n].since) % Width
                    = (Timers[n].count * Timers[n].interval + Timers[n].interval
                         - Timers[n].left) % Width
               /\ pc = "main" => Left(n) > 0
    <3>1. Timers[n].left = Left(n) /\ Timers[n].interval = node[n].interval
      BY DEF Timers, Entry
    <3>2. Scheduled(system_tick, Timers[n])
      BY <2>1 DEF Elapsed
    <3>3. QED BY <3>1, <3>2, NextCallInReach DEF Scheduled
  <2>3. QED BY <2>1, <2>2 DEF OnSchedule, Service!OnSchedule
<1>4. QED BY <1>1, <1>2, <1>3, Inductive, PTL DEF Spec

==============================================================================
